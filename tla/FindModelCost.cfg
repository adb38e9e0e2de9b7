CONSTANTS
    Callers = {c1}
    search = search
    gpt = gpt
    Tools <- MCTools
    Hashes <- MCHashes
    NoTool = NoTool
    NoHash = NoHash
    Enforce = TRUE
    PolicyOf <- DefaultPolicies
    ToolRequests <- AllTools
    ModelRequests <- OneModel
    Inputs <- MCInputs
    Scopes <- MCScopes
    Similar <- MCSimilar
    NoResult = NoResult
    NoFrame = NoFrame
    NoLimit = NoLimit
    CostLimit = 3
    RetryLimit = 1
    LoopLimit = 1
    Optimize = "off"
    Approved = FALSE
    Durable = FALSE
    MaxCost = 2
    MaxCalls = 5
SPECIFICATION Spec
INVARIANTS CostBudgetCoversRun
CHECK_DEADLOCK FALSE
