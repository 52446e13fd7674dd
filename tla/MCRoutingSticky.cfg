SPECIFICATION Spec
CONSTANTS
    a1 = a1  a2 = a2  r1 = r1  r2 = r2  s1 = s1  m1 = m1  m2 = m2
    pa = pa  pb = pb  i1 = i1  i2 = i2  n1 = n1  n2 = n2  pool = pool
    Admins = {a1, a2}
    Models = {m1, m2}
    Providers = {pa, pb}
    ProviderOf <- MCProviderOf
    Rows = {i1, i2}
    ModelOf <- MCModelOf
    Names = {n1, n2}
    RowAlias <- MCRowAlias
    ConfigAliases <- MCConfigAliases
    MaxAliasDepth = 2
    InitialRows <- MCInitialRows
    Jobs <- MCJobs
    MaxJobs = 2
    MaxFaults = 0
    Requests = {r1, r2}
    Sessions = {s1}
    Pools = {pool}
    Ring <- MCRing
    Asks = {pool, n2}
    SessionIds <- MCSessionIds
    Strict = TRUE
    DefaultModel = m2
INVARIANT SessionStays
CHECK_DEADLOCK FALSE
