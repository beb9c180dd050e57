SPECIFICATION Spec
CONSTANTS
    c1 = c1
    c2 = c2
    Loopbacks = {"lo"}
    Virtuals = {"docker0"}
    NoPin = NoPin
    Clients = {c1, c2}
    Timeouts = {1, 2}
    StartupTimeout = 1
    MaxTime = 3
    MaxRequests = 3
    MaxPasscode = 3
    Denied = {2}
    MaxDiscriminator = 0
    Absent = Absent
    Garbled = Garbled
    Foreign <- MCForeign
    Inventories <- MCInventories
    Pins = {"eth0", "eth9"}
    MaxStarts = 2
    MaxChanges = 1
    None = None
INVARIANTS
    TypeOK
    HealthTruthful
    FaceRight
    OpenLasts
PROPERTIES
    CodeStable
    StartEnds
    DeathShown
CHECK_DEADLOCK FALSE
