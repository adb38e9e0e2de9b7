CONSTANTS
    Tasks <- MCTasks
    Models <- MCModels
    Capabilities <- MCCapabilities
    Registry <- MCRegistry
    StepIds <- MCStepIds
    RoleOf <- MCRoleOf
    Needs <- MCNeeds
    Roles <- MCRoles
    Slices <- MCSlices
    Relevant <- MCRelevant
    Long <- MCLong
    Agents = {a1, a2}
    Planners = {a1}
    Requests <- MCRequests
    Contract <- MCContract
    NoPlan = NoPlan
    NoWork = NoWork
    NoSession = NoSession
    MaxEvents = 1
SPECIFICATION Spec
INVARIANTS TypeOK OnlyApprovedApplied RoutesAreBest OneDecisionEngine
CHECK_DEADLOCK FALSE
