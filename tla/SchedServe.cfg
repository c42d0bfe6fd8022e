CONSTANTS
    p = p
    q = q
    NoOne = NoOne
    Instances = {p, q}
    Jobs = {"every", "once"}
    OneShot = {"once"}
    Consumers = {}
    Trashable = {}
    Runs = {1, 2}
    MaxConcurrent = 1
    PauseAfter = 2
    PageLimit = 1
    ExitSafe = TRUE
    Faulty = FALSE
    MaxGen = 1
    MaxCounter = 1
    MaxExits = 1
    MaxEdits = 0
SPECIFICATION FairSpec
PROPERTIES AdmissionIsExclusive DueJobIsServed
CHECK_DEADLOCK FALSE
