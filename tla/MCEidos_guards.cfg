SPECIFICATION Spec
CONSTANTS
    Limit = 40
    MaxConstraints = 6
    NameOrder <- MCOrder
    Commands <- MCLooseCommands
    Grid <- MCGrid
INVARIANTS DivisionsAreSafe
CHECK_DEADLOCK FALSE
