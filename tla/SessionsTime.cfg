SPECIFICATION Spec
CONSTANTS
    ana = ana  phone = phone
    q1 = q1  q2 = q2  q3 = q3
    Users = {ana}
    Requests = {q1, q2, q3}
    FirstTokens = {phone}
    FirstUser <- MCFirstUser
    AccessLife = 1
    RefreshLife = 2
    RefreshTTL = 2
    MaxAttempts = 1
    LockSeconds = 1
    MaxClock = 5
    NoToken = NoToken
    NoCall = NoCall
SYMMETRY RequestSymmetry
INVARIANTS
    LogoutHolds
    DeactivationIsImmediate
    SessionOutlivesTokens
    CountersExpire
