SPECIFICATION FairSpec
CONSTANTS
    r1 = r1  r2 = r2  r3 = r3  nobody = nobody
    Requests <- MCRequests
    Nobody <- nobody
    Interval = 2
INVARIANTS TypeOK TransientsPassThrough SwitchesOnce
PROPERTIES OneProbePerInterval EveryFetchEnds ExpiryWearsOff
