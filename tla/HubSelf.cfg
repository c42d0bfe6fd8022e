CONSTANTS
    node1 = node1
    workspace1 = workspace1
    Turns = {"a", "r", "s"}
    Nodes = {node1}
    Trees = {node1}
    Workspaces = {workspace1}
    NodeOf <- MCNodeOf
    TreeOf <- MCTreeOf
    HasUser = {"a", "r"}
    Scheduled = {}
    MaxSeq = 3
    MaxCounter = 3
    Foreground = {"a"}
    Requested = {"r"}
    Deliveries = {}
    Attached = {"a", "r"}
    Titled = {}
    Stoppable = {"r", "s"}
    Steerable = {}
    EndReasons = {"completed"}
    BootWorker = "up"
    SweepPending = FALSE
    Faulty = TRUE
    MaxStops = 1
    MaxDeaths = 0
    MaxCrashes = 0
SPECIFICATION ResponsiveSpec
INVARIANTS OneLiveTurn
PROPERTIES StopIsHonoured SelfTurnsFinish ChatGetsFree
CHECK_DEADLOCK FALSE
