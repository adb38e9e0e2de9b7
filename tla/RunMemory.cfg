CONSTANTS
    Callers = {c1, c2}
    Ids = {m1, m2}
    Tenants <- MCTenants
    Templates <- MCTemplates
    Contents <- MCContents
    Queries <- MCQueries
    Matches <- MCMatches
    Limits = {1}
    Weight <- MCWeight
    StaleAfter = 1
    MinConfidence = 3
    MinScore = 6400
    NoTtl = NoTtl
    NoRecord = NoRecord
    NoCall = NoCall
    MaxTime = 2
    MaxCalls = 2
SPECIFICATION Spec
INVARIANTS TypeOK RemovalAudited
PROPERTIES HandedOutIntact OldStaysOut TenantsApart
SYMMETRY Symmetry
CHECK_DEADLOCK FALSE
