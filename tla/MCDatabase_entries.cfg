SPECIFICATION MCSpec
CONSTANTS
    Statements = {}
    MinRowsForIndex = 2
    MaxRows <- MCMaxRows
    Key = {x, y}
    Value = {1}
    Txn = {t1, t2, t3}
    None = None
    Unread = Unread
SYMMETRY Symmetry
INVARIANTS EveryEntryInPlace
CHECK_DEADLOCK FALSE
