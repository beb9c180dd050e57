SPECIFICATION Spec
CONSTANTS
    x = x
    y = y
    u = u
    Exports = {x, y}
    Fields = {"name"}
    DataOf <- MCData
    Users = {u}
    MaxEdits = 1
    MaxFaults = 1
    None = None
INVARIANTS
    TypeOK
    NoSilentDivergence
PROPERTY Converges
