------------------------------ MODULE AbstractStore ------------------------------
(****************************************************************************)
(* What a transactional store promises: every transaction that commits      *)
(* reads and writes the whole database in one instant.  A transaction that  *)
(* aborts leaves no trace.                                                  *)
(****************************************************************************)
CONSTANTS Key, Value, Txn,
          None,         \* no value, and no write
          Unread        \* a key the transaction did not read from the store

VARIABLES db,           \* Key -> Value or None
          outcome       \* per transaction: how it ended, what it read and wrote

Reads == [Key -> Value \cup {None, Unread}]

Writes == [Key -> Value \cup {None}]

Undecided == [status |-> "undecided",
              reads  |-> [k \in Key |-> Unread], writes |-> [k \in Key |-> None]]

Aborted == [Undecided EXCEPT !.status = "aborted"]

Committed == [status : {"committed"}, reads : Reads, writes : Writes]

Init == db = [k \in Key |-> None] /\ outcome = [t \in Txn |-> Undecided]

\* The transaction ends with any reads that are what the database holds, and
\* any writes.
Transact(t) ==
    LET o == outcome'[t] IN
    /\ outcome[t] = Undecided
    /\ o \in Committed
    /\ outcome' = [outcome EXCEPT ![t] = o]
    /\ \A k \in Key : o.reads[k] # Unread => o.reads[k] = db[k]
    /\ db' = [k \in Key |-> IF o.writes[k] # None THEN o.writes[k] ELSE db[k]]

Abort(t) ==
    /\ outcome[t] = Undecided
    /\ outcome' = [outcome EXCEPT ![t] = Aborted]
    /\ UNCHANGED db

Next == \E t \in Txn : Transact(t) \/ Abort(t)

Spec == Init /\ [][Next]_<<db, outcome>>
================================================================================
