CONSTANTS
    Hash = {t1, t2}
    Slot = {s1, s2}
SPECIFICATION NodeSpec
INVARIANTS NoDoubleSettlement
