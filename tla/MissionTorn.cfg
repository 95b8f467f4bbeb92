CONSTANTS
    Process = {p1, p2, p3}
    Phases <- TwoPhases
    GatesOf <- OneGateEach
    Family <- TwoFamilies
    Routes = {DefaultRoute, 0, 3}
    AtOnce = 1
    Faults = {"crash", "tear"}
    DefaultRoute = DefaultRoute
    None = None
    Empty = Empty
    Garbled = Garbled
CHECK_DEADLOCK FALSE
SYMMETRY Processes
SPECIFICATION Spec
INVARIANT RepoIsTheMemory
