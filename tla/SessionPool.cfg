CONSTANTS
    A = A
    B = B
    x = x
    y = y
    new = new
    old = old
    Ids = {A, B}
    Owners = {new, old}
    Callers = {x, y}
    Acquired <- OneOwner
    Released <- Disputed
    MaxReleases = 2
    Cap = 1
    WarmSlots = 1
    MaxSpawns = 2
SPECIFICATION FairSessionSpec
INVARIANTS WithinBudget OneProvider
PROPERTIES ReleasedIsGone NotGivenAway CallsEnd
CHECK_DEADLOCK FALSE
