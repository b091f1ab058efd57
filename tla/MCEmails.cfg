SPECIFICATION TrackedSpec
CONSTANTS
    Jobs <- MailJobs
    Workers = {w1, w2}
    Attempts = 2
    MaxStalled = 1
    None = None
CHECK_DEADLOCK FALSE
INVARIANTS
    TypeOK
    CompletedWasSent
    CopiesAccountedFor
PROPERTIES
    OutcomeStands
    OvertakenOnlyInTrouble
    EveryJobSettles
