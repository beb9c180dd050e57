SPECIFICATION Spec
CONSTANTS
    t1 = t1
    t2 = t2
    Full = 2
    Unit = 2
    Tasks = {t1, t2}
    States = {"open", "closed", "opening", "closing", "other"}
    Attributes = {0, 3, None}
    Lifts = {1, 5}
    MaxReports = 2
    MaxInputs = 1
    None = None
INVARIANTS
    TypeOK
    VersionSound
    NothingLost
    HealedByNextReport
    CrossedOnce
    GoalKept
PROPERTY Converges
