CONSTANTS
    ClockSkew = 0
    MaxLifetime = 3
    ReleaseName = {"v1", "v2"}
    Content = {"a", "b", "x"}
    None = None
    Run = {r1, r2}
    Config <- ForkConfigs
    Checkout <- AllReleases
    Target = {t1}
    MaxClock = 0
SPECIFICATION Spec
SYMMETRY Runs
INVARIANT AuthorizedStaysAccepted
PROPERTIES
    AcceptedOnlyGrows
    InstalledNeverRollsBack
