SPECIFICATION Spec
CONSTANTS
    Emails = {e1, e2}
    Ids = {u1, u2}
    Passwords = {p1}
    Codes = {c1, c2}
    ResetTokens = {}
    GoogleIds = {g1, g2}
    AdminEmail = None
    MaxTime = 0
    MaxFaults = 0
    OtpLimit = 5
    None = None
    Unborn = Unborn
    Gone = Gone
    Slots = {s1}
    Endpoints <- GoogleEndpoints
SYMMETRY Symmetry
INVARIANTS
    GoogleIdNamesOneRow
    MissesBounded
PROPERTIES
    GoogleLinkStable
