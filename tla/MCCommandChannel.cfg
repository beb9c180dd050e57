SPECIFICATION Spec
CONSTANTS
    MaxCommands = 2
    MaxChanges = 1
    MaxFaults = 1
INVARIANTS
    TypeOK
    CommandsAccounted
PROPERTIES
    ImplementsOrdered
    Converges
