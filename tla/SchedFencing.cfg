CONSTANTS
    p = p
    q = q
    NoOne = NoOne
    Instances = {p, q}
    Jobs = {"once"}
    OneShot = {"once"}
    Consumers = {"once"}
    Trashable = {"once"}
    Runs = {1, 2}
    MaxConcurrent = 2
    PauseAfter = 2
    PageLimit = 1
    ExitSafe = FALSE
    Faulty = TRUE
    MaxGen = 2
    MaxCounter = 1
    MaxExits = 1
    MaxEdits = 1
SYMMETRY ProcessSymmetry
SPECIFICATION Spec
INVARIANTS OneShotOnce NoLostRun
PROPERTIES TurnsConsumedOnce AdmissionIsExclusive ResultIsFinal StoppedNeverSucceeds
CHECK_DEADLOCK FALSE
