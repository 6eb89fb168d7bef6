SPECIFICATION MCSpec
CONSTANTS
    Hash = {t1, t2, t3}
    Slot = {s1, s2, s3}
    a = a
    b = b
    c = c
    h1 = h1
    h2 = h2
INVARIANTS DagSound SettlementSound GroupsRespectParents NetworkSound  AnsweredInOrder ReadsBack
PROPERTIES ImplementsAbstract 
CHECK_DEADLOCK FALSE
