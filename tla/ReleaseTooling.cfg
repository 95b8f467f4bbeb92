SPECIFICATION PSpec
CONSTANTS
    Tool = {t1, t2}
    SkillFiles <- MCSkillFiles
    OtherFiles <- MCOtherFiles
    MaxContent = 2
    Editable = {"s", "registry"}
    Refused = {}
    Profile <- MCProfile
    Permits <- MCPermits
    Identity <- MCIdentity
    Shows <- MCShows
    None = None
    Torn = Torn
    MaxCommits = 2
    Times = {1}
    Now = 1
    Lifetime = 3
    MaxSequence = 2
    Narrow = TRUE
INVARIANTS PTypeOK IndexNamesItsTree IndexExtendsCheckpoint StatementIsCoherent ReadyIsOneTree ReadyIsReviewed HookAllowsInstalled
CHECK_DEADLOCK FALSE
SYMMETRY Tools
