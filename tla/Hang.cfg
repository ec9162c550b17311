SPECIFICATION FairSpec
CONSTANTS
    Mailboxes = {m1}
    Generations = {1}
    Uids = {1, 2}
    RunIds = {r1, r2, r3}
    NoRun = NoRun
    MaxAttempts = 1
    NoMailbox = NoMailbox
    NoGeneration = NoGeneration
    Retriers = {}
    Junk = {}
    BatchSize = 1
    DetectMultiplier = 2
    DailyCap = 5
    MessageCap = 5
    Requests = {"cancel"}
    MaxDay = 0
    MaxFaults = 1
    MaxChanges = 1
PROPERTIES EveryMessageIsSettled 
