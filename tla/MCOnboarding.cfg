SPECIFICATION FairSpec
CONSTANTS
    Users = {u1, u2}
    InverterIds = {i1, i2}
    Serials = {n1, n2}
    Slots = {s1, s2}
    SeededUsers = {u1}
    MaxFaults = 1
    None = None
    Unborn = Unborn
    Gone = Gone
CHECK_DEADLOCK FALSE
INVARIANTS
    TypeOK
    OneRowPerInstallation
    OwnersAreVerified
    StatusTruthful
PROPERTIES
    KeepsOwnership
    ActiveChangesByOwner
    StepFallsOnlyByLateVerify
    ConnectedUserCompletes
