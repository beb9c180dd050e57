SPECIFICATION Spec
CONSTANTS
    Exports = {e1}
    Names = {n1}
    Workers = {w1, w2}
    DiskErrors = FALSE
    MaxChanges = 3
    None = None
INVARIANT PlaneFollowsCatalog
