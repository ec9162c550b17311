SPECIFICATION Spec
CONSTANTS
    Mailboxes = {m1}
    Generations = {1}
    Uids = {1, 2, 3}
    RunIds = {r1, r2, r3}
    NoRun = NoRun
    MaxAttempts = 2
    NoMailbox = NoMailbox
    NoGeneration = NoGeneration
    Retriers = {c1}
    Junk = {2}
    BatchSize = 2
    DetectMultiplier = 1
    DailyCap = 2
    MessageCap = 2
    Requests = {"retry", "release"}
    MaxDay = 0
    MaxFaults = 1
    MaxChanges = 1
INVARIANTS
    TypeOK AttemptsLeft SingleFlight ClaimsHaveOwner AutomaticRunsOwnTheirBatch
    NothingSkipped DoneIsEarned NoDuplicateDraft MessageCapHolds
PROPERTIES DoneStaysDone ImplementsLifecycle 
