SPECIFICATION Spec
CONSTANTS
    Exports = {e1, e2}
    Names = {n1, n2}
    Workers = {w1, w2}
    DiskErrors = TRUE
    MaxChanges = 3
    None = None
SYMMETRY Interchangeable
INVARIANTS
    TypeOK
    PlaneWasCatalog
    HealedByNextChange
    AckedShown
