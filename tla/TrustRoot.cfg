CONSTANTS
    Key = {"a", "b", "c", "d"}
    Content = {"s"}
    MaxUpdates = 2
    None = None
    Verifier = {p1, p2}
    Pid = {1, 2}
    Deployment <- Rotations
    MaxClock = 1
CHECK_DEADLOCK FALSE
SPECIFICATION FairSpec
INVARIANTS
    TypeOK
    AcceptedIsAuthorized
PROPERTIES
    RotationsAreSigned
    TrustOnlyAdvances
    EveryVerifierEnds
