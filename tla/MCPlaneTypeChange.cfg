SPECIFICATION ViewSpec
CONSTANTS
    a = a
    b = b
    t1 = t1
    t2 = t2
    Exports = {a}
    Tasks = {t1}
    TypesOf <- TypesAcrossKinds
    MaxInputs = 5
    None = None
INVARIANT DataVersionSound
