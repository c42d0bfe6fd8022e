CONSTANTS
    node1 = node1
    workspace1 = workspace1
    Turns = {"a", "b"}
    Nodes = {node1}
    Trees = {node1}
    Workspaces = {workspace1}
    NodeOf <- MCNodeOf
    TreeOf <- MCTreeOf
    HasUser = {"a", "b"}
    Scheduled = {}
    MaxSeq = 3
    MaxCounter = 3
    Foreground = {"a", "b"}
    Requested = {}
    Deliveries = {}
    Attached = {"a", "b"}
    Titled = {}
    Stoppable = {"a"}
    Steerable = {}
    EndReasons = {"completed"}
    BootWorker = "up"
    SweepPending = FALSE
    Faulty = TRUE
    MaxStops = 1
    MaxDeaths = 1
    MaxCrashes = 1
    Watched = "a"
    Observers = TRUE
SPECIFICATION ViewFairSpec
INVARIANTS ShownIsSaved
PROPERTIES WindowSettles
CHECK_DEADLOCK FALSE
