CONSTANTS
    Installer = {p1}
    Version = {v1, v2}
    Edited = Edited
    Unexportable = {v2}
    Home <- OneTarget
    Fleet <- OneRoot
    Skills <- OneSkill
    Jobs <- Native
    Faults = {"verify", "remove"}
    NotDirectory = NotDirectory
    None = None
CHECK_DEADLOCK FALSE
SPECIFICATION Spec
INVARIANT OldOrNewSurvives
