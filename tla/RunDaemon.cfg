CONSTANTS
    Projects <- MCProjects
    Ids <- MCIds
    Documents <- MCDocuments
    Authorized <- MCAuthorized
    Workers = {w1, w2}
    MaxInflight = 1
    Nobody = Nobody
    MaxVersion = 2
SPECIFICATION FairSpec
INVARIANTS TypeOK SlotsAccounted AcknowledgedKept
PROPERTIES ImplementsDurableUpload RequestsEnd SaturationEnds
CHECK_DEADLOCK FALSE
