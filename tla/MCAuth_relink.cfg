SPECIFICATION Spec
CONSTANTS
    Emails = {e1}
    Ids = {u1}
    Passwords = {p1}
    Codes = {c1}
    ResetTokens = {}
    GoogleIds = {g1, g2}
    AdminEmail = None
    MaxTime = 0
    MaxFaults = 0
    OtpLimit = 1
    None = None
    Unborn = Unborn
    Gone = Gone
    Slots = {s1, s2}
    Endpoints <- GoogleEndpoints
SYMMETRY Symmetry
PROPERTIES
    GoogleLinkStable
