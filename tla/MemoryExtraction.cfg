CONSTANTS
    t1 = t1
    t2 = t2
    first = first
    second = second
    here = here
    there = there
    like = like
    use = use
    NoSource = NoSource
    Turns = {t1, t2}
    Workspaces = {here, there}
    MaxCounter = 2
    Home = here
    Bodies = {like, use}
    Executions = {first, second}
    MaxSources = 2
    MaxSwitches = 2
    MaxEdits = 2
SYMMETRY Interchangeable
SPECIFICATION ExtractionSpec
INVARIANTS NoTurnSkipped
PROPERTIES PassedIsNeverPicked RemovalWins
CHECK_DEADLOCK FALSE
