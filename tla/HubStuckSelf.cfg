CONSTANTS
    node1 = node1
    workspace1 = workspace1
    Turns = {"a", "s"}
    Nodes = {node1}
    Trees = {node1}
    Workspaces = {workspace1}
    NodeOf <- MCNodeOf
    TreeOf <- MCTreeOf
    HasUser = {"a"}
    Scheduled = {}
    MaxSeq = 4
    MaxCounter = 3
    Foreground = {"a"}
    Requested = {}
    Deliveries = {}
    Attached = {"a", "s"}
    Titled = {}
    Stoppable = {"a", "s"}
    Steerable = {}
    EndReasons = {"completed"}
    BootWorker = "up"
    SweepPending = FALSE
    Faulty = FALSE
    MaxStops = 1
    MaxDeaths = 0
    MaxCrashes = 0
SPECIFICATION FairSpec
PROPERTIES StopFreesChat
CHECK_DEADLOCK FALSE
