SPECIFICATION Spec
CONSTANTS
    Exports = {1, 2, 3}
    Names = {n1, n2}
    MaxId = 2
    Legacy = {1, 2, 3}
    DiskErrors = TRUE
    None = None
INVARIANTS
    TypeOK
    UniqueEndpoints
    AckedDurable
    NoReuseBeforeWrap
PROPERTY ImplementsAtomic
