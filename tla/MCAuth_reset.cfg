SPECIFICATION Spec
CONSTANTS
    Emails = {e1}
    Ids = {u1}
    Passwords = {p1, p2}
    Codes = {}
    ResetTokens = {t1, t2, t3}
    GoogleIds = {}
    AdminEmail = e1
    MaxTime = 0
    MaxFaults = 1
    OtpLimit = 1
    None = None
    Unborn = Unborn
    Gone = Gone
    Slots = {s1, s2}
    Endpoints <- ResetEndpoints
SYMMETRY Symmetry
INVARIANTS
    SpentTokenNeverLive
    StoredTokenWasMailed
PROPERTIES
    OwnerConsents
    KeepsContract
