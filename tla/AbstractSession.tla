----------------------------- MODULE AbstractSession -----------------------------
(****************************************************************************)
(* What BEGIN, COMMIT and ROLLBACK promise one session: the rows it sees,   *)
(* by table and row id, and the rows it would see again after ROLLBACK.     *)
(* Row contents are opaque.  `lost' marks a session whose promises are      *)
(* void; the refinement says when.                                          *)
(****************************************************************************)
EXTENDS Integers

VARIABLES rows, base, open, lost

vars == <<rows, base, open, lost>>

Init == rows = <<>> /\ base = <<>> /\ open = FALSE /\ lost = FALSE

OthersKept(old, new, t) == DOMAIN new = DOMAIN old /\ \A u \in DOMAIN old \ {t} : new[u] = old[u]

\* One statement changes the rows of one table: it adds a row, takes rows away
\* or replaces rows.  Inside a transaction nothing of it is permanent.
Write(t) ==
    /\ OthersKept(rows, rows', t)
    /\ \/ \E id \in DOMAIN rows'[t] \ DOMAIN rows[t] :
            /\ DOMAIN rows'[t] = DOMAIN rows[t] \cup {id} /\ id \notin DOMAIN base[t]
            /\ \A i \in DOMAIN rows[t] : rows'[t][i] = rows[t][i]
       \/ DOMAIN rows'[t] \subseteq DOMAIN rows[t] /\ \A i \in DOMAIN rows'[t] : rows'[t][i] = rows[t][i]
       \/ DOMAIN rows'[t] = DOMAIN rows[t]
    /\ base' = IF open THEN base ELSE rows'
    /\ open' = open

\* A column operation applies to the rows seen and to the rows to return to
Alter(t) ==
    /\ OthersKept(rows, rows', t) /\ OthersKept(base, base', t)
    /\ DOMAIN rows'[t] = DOMAIN rows[t] /\ DOMAIN base'[t] = DOMAIN base[t]
    /\ \A i \in DOMAIN rows[t] \cap DOMAIN base[t] : rows[t][i] = base[t][i] => rows'[t][i] = base'[t][i]
    /\ open' = open

Create ==
    \E t \in DOMAIN rows' \ DOMAIN rows :
        /\ DOMAIN rows' = DOMAIN rows \cup {t} /\ rows'[t] = <<>>
        /\ \A u \in DOMAIN rows : rows'[u] = rows[u]
        /\ DOMAIN base' = DOMAIN rows' /\ base'[t] = <<>>
        /\ \A u \in DOMAIN rows : base'[u] = base[u]
        /\ open' = open

Begin == ~open /\ open' /\ UNCHANGED <<rows, base>>
Commit == open /\ ~open' /\ rows' = rows /\ base' = rows
Rollback == open /\ ~open' /\ rows' = base /\ base' = base

Next ==
    \/ lost'
    \/ /\ ~lost /\ ~lost'
       /\ \/ \E t \in DOMAIN rows : Write(t) \/ Alter(t)
          \/ Create \/ Begin \/ Commit \/ Rollback

Spec == Init /\ [][Next]_vars
================================================================================
