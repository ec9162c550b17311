SPECIFICATION Spec
CONSTANTS
    Mailboxes = {m1}
    Generations = {1}
    Uids = {1, 2}
    RunIds = {r1, r2, r3}
    NoRun = NoRun
    MaxAttempts = 2
    NoMailbox = NoMailbox
    NoGeneration = NoGeneration
    Retriers = {c1}
    Junk = {}
    BatchSize = 1
    DetectMultiplier = 1
    DailyCap = 1
    MessageCap = 4
    Requests = {"retry"}
    MaxDay = 1
    MaxFaults = 0
    MaxChanges = 1
INVARIANT DailyCapHolds
