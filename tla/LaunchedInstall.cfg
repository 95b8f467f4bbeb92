CONSTANTS
    Installer = {p1, p2}
    Version = {v1, v2}
    Edited = Edited
    Unexportable = {}
    Home <- MCHome
    Fleet <- MCFleet
    Skills <- OneSkill
    Jobs <- EffectiveKinds
    Faults = {"copy", "replace", "verify", "remove", "crash", "edit", "obstruct"}
    NotDirectory = NotDirectory
    None = None
CHECK_DEADLOCK FALSE
SYMMETRY Interchangeable
SPECIFICATION LSpec
CONSTRAINTS
    Together
    OneTrouble
INVARIANTS
    TypeOK
    EditedNeverLands
    LaunchedLosesNothing
    LaunchedRollsBack
PROPERTIES
    LaunchedReportsTruly
    LaunchedReplacesAtomically
