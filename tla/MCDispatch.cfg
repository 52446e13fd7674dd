SPECIFICATION Spec
CONSTANTS
    p1 = p1  p2 = p2  p3 = p3
    tA = tA  tB = tB  tC = tC
    r1 = r1  r2 = r2
    a = a  b = b  p2b = p2b  c = c
    Providers <- MCProviders
    FailureThreshold = 2
    Names <- MCNames
    Targets <- MCTargets
    Resolve <- MCResolve
    Canonical <- MCCanonical
    ConfigChains <- MCConfigChains
    Requests <- MCRequests
    Workload <- MCWorkload
    ProviderOf <- MCProviderOf
    MessagesProvider = p1
    Adapters = {p1, p2}
    Grants <- MCGrants
    ChainConfigs <- MCChainConfigs
    Switchable <- MCSwitchable
    MaxRetries = 1
    MaxSelectHops = 2
    MaxEmbedHops = 1
    HopBound = 3
INVARIANTS OpenIsEarned AttemptsBounded OnlyRightfulSubstitutes
PROPERTY KeepsPromise
