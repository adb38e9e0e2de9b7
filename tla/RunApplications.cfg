CONSTANTS
    NoHash = NoHash
    NoCall = NoCall
    Competitors <- MCCompetitors
    Required = 3
    Planned <- MCPlanned
    Apps = {"cited", "langgraph", "openai", "real_world", "generic"}
    Environments <- MCEnvironments
    PacketHomes <- MCPacketHomes
    PolicyOf <- MCPolicies
    NoTool = NoTool
    NoResult = NoResult
    NoFrame = NoFrame
    NoLimit = NoLimit
    NoJob = NoJob
    NoNode = NoNode
    MaxRuns = 2
SPECIFICATION Spec
INVARIANTS TypeOK NodesClosed VerdictsEarned EnforcementForeseen ScorecardHonest  ViewsAgree
CHECK_DEADLOCK FALSE
