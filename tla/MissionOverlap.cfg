CONSTANTS
    Process = {p1, p2, p3, p4}
    Phases <- TwoPhases
    GatesOf <- OneGateEach
    Family <- TwoFamilies
    Routes = {DefaultRoute}
    AtOnce = 2
    Faults = {}
    DefaultRoute = DefaultRoute
    None = None
    Empty = Empty
    Garbled = Garbled
CHECK_DEADLOCK FALSE
SYMMETRY Processes
SPECIFICATION Spec
INVARIANTS
    DocumentConsistent
    PassedHasEvidence
