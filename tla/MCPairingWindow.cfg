SPECIFICATION Spec
CONSTANTS
    Clients = {c1, c2}
    Timeouts = {1, 3}
    MinTimeout = 2
    MaxTimeout = 3
    StartupTimeout = 3
    MaxFabrics = 2
    MaxTime = 6
    None = None
INVARIANTS
    TypeOK
    TrackedExact
PROPERTIES
    AnswersTrue
    ForeignKept
    MailboxFreed
