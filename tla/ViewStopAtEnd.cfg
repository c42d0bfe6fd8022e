CONSTANTS
    node1 = node1
    workspace1 = workspace1
    Turns = {"a"}
    Nodes = {node1}
    Trees = {node1}
    Workspaces = {workspace1}
    NodeOf <- MCNodeOf
    TreeOf <- MCTreeOf
    HasUser = {"a"}
    Scheduled = {}
    MaxSeq = 5
    MaxCounter = 3
    Foreground = {"a"}
    Requested = {}
    Deliveries = {}
    Attached = {"a"}
    Titled = {}
    Stoppable = {"a"}
    Steerable = {}
    EndReasons = {"completed"}
    BootWorker = "up"
    SweepPending = FALSE
    Faulty = FALSE
    MaxStops = 1
    MaxDeaths = 0
    MaxCrashes = 0
    Watched = "a"
    Observers = FALSE
SPECIFICATION ViewSpec
INVARIANTS EndReachesWindow
CHECK_DEADLOCK FALSE
