SPECIFICATION Spec
CONSTANTS
    Emails = {e1}
    Ids = {u1}
    Passwords = {p1}
    Codes = {c1, c2}
    ResetTokens = {}
    GoogleIds = {}
    AdminEmail = None
    MaxTime = 0
    MaxFaults = 0
    OtpLimit = 1
    None = None
    Unborn = Unborn
    Gone = Gone
    Slots = {s1}
    Endpoints <- OtpEndpoints
SYMMETRY Symmetry
PROPERTIES
    ResendOnlyWhenNoActiveCode
