CONSTANTS
    t1 = t1
    t2 = t2
    cli = cli
    server = server
    command = command
    r1 = r1
    r2 = r2
    Actors <- MCActors
    Processes <- MCProcesses
    ProcessOf <- MCProcessOf
    Scripts = {cli}
    Builtins <- MCBuiltins
    Importable <- MCImportable
    Names <- MCNames
    Runs = {r1, r2}
    NoFrame = NoFrame
    MaxRequests = 3
SPECIFICATION Spec
INVARIANTS TypeOK LookupsHonest
PROPERTIES ImplementsRunShelf
CHECK_DEADLOCK FALSE
