CONSTANTS
    c1 = c1
    c2 = c2
    Calls = {c1, c2}
    Workload <- MCWorkload
    Scripts <- MCScripts
    Storages <- MCStorages
SPECIFICATION FairSpec
INVARIANTS ChargedExactlyOnce ToldIsCharged ConsentHonoured CacheHoldsWholeAnswers
PROPERTY StreamsAreCharged
