SPECIFICATION ViewSpec
CONSTANTS
    a = a
    b = b
    t1 = t1
    t2 = t2
    Exports = {a, b}
    Tasks = {t1, t2}
    TypesOf <- TypesWithinKind
    MaxInputs = 3
    None = None
INVARIANTS
    TypeOK
    DataVersionSound
    NothingLost
PROPERTIES
    ImplementsViews
    Converges
