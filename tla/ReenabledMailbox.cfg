SPECIFICATION Spec
CONSTANTS
    Mailboxes = {m1, m2}
    Generations = {1, 2}
    Uids = {1, 2}
    RunIds = {r1, r2}
    NoRun = NoRun
    MaxAttempts = 1
    NoMailbox = NoMailbox
    NoGeneration = NoGeneration
    Retriers = {}
    Junk = {}
    BatchSize = 1
    DetectMultiplier = 2
    DailyCap = 1
    MessageCap = 2
    Requests = {"save", "enable"}
    MaxDay = 0
    MaxFaults = 0
    MaxChanges = 2
PROPERTY ReplacedMailboxIsQuiet
