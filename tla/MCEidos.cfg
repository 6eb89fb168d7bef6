SPECIFICATION Spec
CONSTANTS
    Limit = 40
    MaxConstraints = 6
    NameOrder <- MCOrder
    Commands <- MCCommands
    Grid <- MCGrid
INVARIANTS AcceptedIsSafe SolverSound BuildFaithful
CHECK_DEADLOCK FALSE
