SPECIFICATION Spec
CONSTANTS
    Emails = {e1}
    Ids = {u1, u2}
    Passwords = {p1}
    Codes = {c1, c2}
    ResetTokens = {}
    GoogleIds = {}
    AdminEmail = None
    MaxTime = 0
    MaxFaults = 1
    OtpLimit = 2
    None = None
    Unborn = Unborn
    Gone = Gone
    Slots = {s1, s2}
    Endpoints <- OtpEndpoints
SYMMETRY Symmetry
INVARIANTS
    TypeOK
    SessionOnlyIfVerified
    LiveCodeReachesOwner
    MissesBounded
PROPERTIES
    OwnerConsents
    KeepsContract
