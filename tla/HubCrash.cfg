CONSTANTS
    node1 = node1
    workspace1 = workspace1
    Turns = {"a", "d"}
    Nodes = {node1}
    Trees = {node1}
    Workspaces = {workspace1}
    NodeOf <- MCNodeOf
    TreeOf <- MCTreeOf
    HasUser = {"a"}
    Scheduled = {}
    MaxSeq = 4
    MaxCounter = 3
    Foreground = {"a"}
    Requested = {"d"}
    Deliveries = {"d"}
    Attached = {"a", "d"}
    Titled = {}
    Stoppable = {}
    Steerable = {}
    EndReasons = {"completed"}
    BootWorker = "starting"
    SweepPending = TRUE
    Faulty = TRUE
    MaxStops = 1
    MaxDeaths = 1
    MaxCrashes = 1
SPECIFICATION HubSpec
INVARIANTS DoneIsDurable
PROPERTIES HubImplementsService
CHECK_DEADLOCK FALSE
