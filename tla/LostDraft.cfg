SPECIFICATION AftermathSpec
CONSTANTS
    Uids = {u1}
    MaxRuns = 2
    MissThreshold = 2
    MaxMischances = 0
INVARIANT FailureCostsNoDraft
CHECK_DEADLOCK FALSE
