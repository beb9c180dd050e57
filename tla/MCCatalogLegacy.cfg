SPECIFICATION Spec
CONSTANTS
    Exports = {1, 2}
    Names = {n1}
    MaxId = 3
    Legacy = {1}
    DiskErrors = FALSE
    None = None
PROPERTY ListedStable
