CONSTANTS
    node1 = node1
    workspace1 = workspace1
    Turns = {"a", "b"}
    Nodes = {node1}
    Trees = {node1}
    Workspaces = {workspace1}
    NodeOf <- MCNodeOf
    TreeOf <- MCTreeOf
    HasUser = {"a", "b"}
    Scheduled = {}
    MaxSeq = 5
    MaxCounter = 3
    Foreground = {"a", "b"}
    Requested = {}
    Deliveries = {}
    Attached = {"a", "b"}
    Titled = {"a"}
    Stoppable = {"a"}
    Steerable = {"a"}
    EndReasons = {"completed", "cancelled"}
    BootWorker = "up"
    SweepPending = FALSE
    Faulty = FALSE
    MaxStops = 1
    MaxDeaths = 0
    MaxCrashes = 0
SPECIFICATION FairSpec
INVARIANTS SessionFollowsTurn NothingAfterEnd SteeringIsSaved CancelledWasAsked
PROPERTIES StopFreesChat
CHECK_DEADLOCK FALSE
