CONSTANTS
    Process = {p1, p2, p3, p4}
    Phases <- OnePhase
    GatesOf <- TwoGates
    Family <- TwoInOne
    Routes = {DefaultRoute, 0, 4}
    AtOnce = 1
    Faults = {"crash"}
    DefaultRoute = DefaultRoute
    None = None
    Empty = Empty
    Garbled = Garbled
CHECK_DEADLOCK FALSE
SYMMETRY Processes
SPECIFICATION Spec
INVARIANTS
    TypeOK
    ChainIntact
    PassedIsLatestVerdict
    LoopbacksNeverSwept
    RepoIsTheMemory
PROPERTY FollowsProtocol
