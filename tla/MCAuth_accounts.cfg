SPECIFICATION Spec
CONSTANTS
    Emails = {e1}
    Ids = {u1, u2}
    Passwords = {p1}
    Codes = {c1}
    ResetTokens = {}
    GoogleIds = {g1, g2}
    AdminEmail = e1
    MaxTime = 1
    MaxFaults = 1
    OtpLimit = 1
    None = None
    Unborn = Unborn
    Gone = Gone
    Slots = {s1, s2}
    Endpoints <- AccountEndpoints
SYMMETRY Symmetry
INVARIANTS
    SessionOnlyIfVerified
PROPERTIES
    KeepsContract
