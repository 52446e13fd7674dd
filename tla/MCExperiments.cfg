SPECIFICATION FairSpec
CONSTANTS
    kept = kept  r1 = r1  a1 = a1  c1 = c1
    p1 = p1  u1 = u1  u2 = u2
    Exps = {kept}
    Requests = {r1}
    Admins = {a1}
    Clis = {c1}
    Reporters = {p1}
    Settings <- MCSettings
    Earlier <- MCEarlier
    Profile <- MCProfile
    Store = "rows"
    RetentionDays = 1
    MaxActs = 1
    MaxFaults = 1
    MaxNow = 2
INVARIANTS EvidenceKept StampsOfTheRun
PROPERTIES ContentGoesForGood CloseReachesRequests
CHECK_DEADLOCK FALSE
