CONSTANTS
    Callers = {c1}
    search = search
    gpt = gpt
    Tools <- MCTools
    Hashes <- MCHashes
    NoTool = NoTool
    NoHash = NoHash
    Enforce = FALSE
    PolicyOf <- DefaultPolicies
    ToolRequests <- KeyedTools
    ModelRequests <- OneModel
    Inputs <- MCInputs
    Scopes <- MCScopes
    Similar <- MCSimilar
    NoResult = NoResult
    NoFrame = NoFrame
    NoLimit = NoLimit
    CostLimit = 1
    RetryLimit = 1
    LoopLimit = 1
    Optimize = "dry_run"
    Approved = FALSE
    Durable = TRUE
    MaxCost = 2
    MaxCalls = 3
SPECIFICATION Spec
INVARIANTS RuntimeNeverRaises
CHECK_DEADLOCK FALSE
