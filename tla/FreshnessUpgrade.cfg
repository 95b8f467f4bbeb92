CONSTANTS
    ClockSkew = 0
    MaxLifetime = 3
    ReleaseName = {"v1", "v2"}
    Content = {"a", "b", "x"}
    None = None
    Run = {r1, r2}
    Config <- UpgradeConfigs
    Checkout <- Releases
    Target = {t1}
    MaxClock = 2
SPECIFICATION FairSpec
INVARIANTS
    TypeOK
    ConsumerFence
    RootCoversAccepted
PROPERTIES
    EveryRunEnds
    FencesConsumers
