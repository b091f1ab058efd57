SPECIFICATION Spec
CONSTANTS
    Emails = {e1}
    Ids = {u1}
    Passwords = {p1}
    Codes = {c1}
    ResetTokens = {}
    GoogleIds = {}
    AdminEmail = e1
    MaxTime = 1
    MaxFaults = 0
    OtpLimit = 1
    None = None
    Unborn = Unborn
    Gone = Gone
    Slots = {s1}
    Endpoints <- SessionEndpoints
SYMMETRY Symmetry
INVARIANTS
    RevokedTokenRejected
