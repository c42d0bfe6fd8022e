CONSTANTS
    t1 = t1
    t2 = t2
    t3 = t3
    n1 = n1
    n2 = n2
    w1 = w1
    w2 = w2
    Turns <- MCTurns
    Nodes <- MCNodes
    Trees <- MCNodes
    Workspaces = {w1, w2}
    NodeOf <- MCNodeOf
    TreeOf <- MCTreeOf
    HasUser <- MCHasUser
    Scheduled <- MCScheduled
    MaxSeq = 1
    MaxCounter = 2
SPECIFICATION Spec
INVARIANTS CompletionSeqUnique StreamingNodeHasActiveTurn MessageBlocks
PROPERTIES OutcomeIsFinal StoreImplementsFeed
