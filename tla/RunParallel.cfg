CONSTANTS
    Callers = {c1, c2}
    search = search
    gpt = gpt
    Tools <- MCTools
    Hashes <- MCHashes
    NoTool = NoTool
    NoHash = NoHash
    Enforce = TRUE
    PolicyOf <- ReviewPolicies
    ToolRequests <- Reusable
    ModelRequests <- OneModel
    Inputs <- MCInputs
    Scopes <- MCScopes
    Similar <- MCSimilar
    NoResult = NoResult
    NoFrame = NoFrame
    NoLimit = NoLimit
    CostLimit = 1
    RetryLimit = 1
    LoopLimit = 1
    Optimize = "active"
    Approved = TRUE
    Durable = TRUE
    MaxCost = 1
    MaxCalls = 3
SPECIFICATION Spec
INVARIANTS BoundedReexecution OvershootBounded InterventionsAudited ReuseIsSound SummaryAddsUp
PROPERTIES ImplementsReuseContract
SYMMETRY Symmetry
CHECK_DEADLOCK FALSE
