SPECIFICATION Spec
CONSTANTS
    Mailboxes = {m1, m2}
    Generations = {1, 2}
    Uids = {1, 2}
    RunIds = {r1, r2}
    NoRun = NoRun
    MaxAttempts = 1
    NoMailbox = NoMailbox
    NoGeneration = NoGeneration
    Retriers = {}
    Junk = {}
    BatchSize = 1
    DetectMultiplier = 2
    DailyCap = 1
    MessageCap = 2
    Requests = {"save", "clear", "suspend", "rebuild", "enable", "disable", "send", "cancel"}
    MaxDay = 1
    MaxFaults = 0
    MaxChanges = 1
INVARIANT DailyCapHolds
PROPERTY ReplacedMailboxIsQuiet
