SPECIFICATION SystemSpec
CONSTANTS
    Emails = {e1}
    Ids = {u1}
    Passwords = {p1}
    Codes = {c1}
    ResetTokens = {}
    GoogleIds = {}
    AdminEmail = None
    MaxTime = 0
    MaxFaults = 1
    OtpLimit = 2
    None = None
    Unborn = Unborn
    Gone = Gone
    Slots = {s1, s2}
    Endpoints <- MailEndpoints
    Workers = {w1}
    Attempts = 2
    MaxStalled = 1

INVARIANTS
    ResendsBounded
    LiveCodeIsDelivered
PROPERTIES
    RegisteredUserGetsCode
    RegisteredUserIsReached
