SPECIFICATION FairSpec
CONSTANTS
    r1 = r1  o1 = o1  k1 = k1  k2 = k2
    m1 = m1  m2 = m2  x = x  y = y
    Requests = {r1}
    Operators = {o1}
    Tasks = {r1, o1}
    Nobody = Nobody
    Cooldown = 1
    Keys = {k1, k2}
    ModelOf <- MCModelOf
    Labels = {x, y}
    Scopes <- MCScopes
INVARIANTS PurgeHolds
PROPERTIES DialsSpaced Heals
