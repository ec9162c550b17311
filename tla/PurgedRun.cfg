SPECIFICATION StreamSpec
CONSTANTS
    Runs = {r1}
    Members = {m}
    Visitors = {}
    Retained = 1
    Nodes = 1
    Workers = 1
    Remembering = {}
    Solo = {}
    Parallel = {}
    Diagnostic = {}
    MaxDeltas = 0
    MaxStreams = 1
    MaxUpsets = 1
INVARIANTS PurgedContentIsGone
CHECK_DEADLOCK FALSE
