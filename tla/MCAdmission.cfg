SPECIFICATION Spec
CONSTANTS
    r1 = r1  r2 = r2  r3 = r3
    u1 = u1  u2 = u2  k1 = k1  k2 = k2  p1 = p1
    s1 = s1  m1 = m1  m2 = m2  a1 = a1
    Requests = {r1, r2, r3}
    Users = {u1, u2}
    Names <- MCNames
    Sessions = {s1}
    Models = {m1, m2}
    Admins = {a1}
    Profile <- MCProfile
    PolicyRules <- MCPolicyRules
    InitialRules <- MCRules
    NewRules <- MCNewRules
    Edits = {2}
    FirstId = 6
    MaxActs = 1
    Length <- MCLength
    SessionRpm = 1
    SessionTpm = 1
    MaxNow = 1
INVARIANTS RateCeiling PermitsHeldByHandlers
PROPERTIES ExhaustedStaysShut RateRefusalEarned
CHECK_DEADLOCK FALSE
