SPECIFICATION Spec
CONSTANTS
    m = m  prefixed = prefixed  forced = forced
    r1 = r1  r2 = r2  a1 = a1  a2 = a2
    Models <- MCModels
    KeyOf <- MCKeyOf
    Configured <- MCConfigured
    Unsupported = {}
    Requests = {r1, r2}
    Admins = {a1, a2}
    MaxActs = 2
    MaxFaults = 1
INVARIANT LiveIsStored
PROPERTIES ClearHolds RejectionsRunOut
