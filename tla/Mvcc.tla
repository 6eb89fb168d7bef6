---------------------------------- MODULE Mvcc ----------------------------------
(****************************************************************************)
(* The multi-version store of tpt-archon-relational: snapshot reads,        *)
(* buffered writes, and optimistic validation at commit.                    *)
(*                                                                          *)
(* The transactions of Txn run concurrently, a call at a time.  A           *)
(* Transaction is consumed by commit, or dropped, which is how the SQL      *)
(* layer rolls back.                                                        *)
(****************************************************************************)
EXTENDS Naturals, Sequences

CONSTANTS Key, Value, Txn,
          None,         \* Option::None: no version, no buffered write
          Unread        \* a key that a transaction has not read from the store

\* The two markers are no values.
ASSUME MvccAssumption == None \notin Value /\ Unread \notin Value \cup {None}

VARIABLES versions,     \* key -> its versions, ascending by commit timestamp
          clock,        \* the last commit timestamp handed out
          txn,          \* the transactions
          history       \* ghost: history[n + 1] is the database after commit n

vars == <<versions, clock, txn, history>>

Version == [commit_ts : Nat, value : Value]

Status == {"idle", "open", "committed", "conflict", "dropped"}

\* seen holds what read returned from the store, commit_ts what commit returned
Transaction == [status : Status, snapshot : Nat, reads : SUBSET Key,
                writes : [Key -> Value \cup {None}],
                seen : [Key -> Value \cup {None, Unread}], commit_ts : Nat]

Fresh(status, snapshot) ==
    [status |-> status, snapshot |-> snapshot, reads |-> {},
     writes |-> [k \in Key |-> None], seen |-> [k \in Key |-> Unread], commit_ts |-> 0]

Init ==
    /\ versions = [k \in Key |-> <<>>] /\ clock = 0
    /\ txn = [t \in Txn |-> Fresh("idle", 0)]
    /\ history = <<[k \in Key |-> None]>>

--------------------------------------------------------------------------------
Open(t) == txn[t].status = "open"

Begin(t) ==
    /\ txn[t].status = "idle"
    /\ txn' = [txn EXCEPT ![t] = Fresh("open", clock)]
    /\ UNCHANGED <<versions, clock, history>>

\* The versions of a key that are no younger than a timestamp
Older(k, as_of) == {i \in DOMAIN versions[k] : versions[k][i].commit_ts <= as_of}

Youngest(S) == CHOOSE i \in S : \A j \in S : j <= i

\* The snapshot is ignored
Visible_Mut(k, as_of) ==
    IF versions[k] = <<>> THEN None ELSE versions[k][Len(versions[k])].value

Visible(k, as_of) ==
    IF Older(k, as_of) = {} THEN None ELSE versions[k][Youngest(Older(k, as_of))].value

Read(t, k) ==
    /\ Open(t)
    /\ txn' = [txn EXCEPT ![t].reads = @ \cup {k},
                          ![t].seen[k] = IF txn[t].writes[k] # None THEN @
                                         ELSE Visible(k, txn[t].snapshot)]
    /\ UNCHANGED <<versions, clock, history>>

Write(t, k, v) ==
    /\ Open(t)
    /\ txn' = [txn EXCEPT ![t].writes[k] = v]
    /\ UNCHANGED <<versions, clock, history>>

--------------------------------------------------------------------------------
Written(t) == {k \in Key : txn[t].writes[k] # None}

\* Reads are not validated
Validated_Mut(t) == Written(t)

\* Writes are not validated
Validated_Mut2(t) == txn[t].reads

Validated(t) == txn[t].reads \cup Written(t)

\* Conflicts with the snapshot itself
Modified_Mut(k, since) ==
    versions[k] # <<>> /\ versions[k][Len(versions[k])].commit_ts >= since

Modified(k, since) ==
    versions[k] # <<>> /\ versions[k][Len(versions[k])].commit_ts > since

Conflict(t) == \E k \in Validated(t) : Modified(k, txn[t].snapshot)

CommitConflict(t) ==
    /\ Open(t) /\ Conflict(t)
    /\ txn' = [txn EXCEPT ![t].status = "conflict"]
    /\ UNCHANGED <<versions, clock, history>>

\* The clock is not advanced
NextTs_Mut == clock

NextTs == clock + 1

\* The new version is put in front
Push_Mut(chain, v) == <<v>> \o chain

Push(chain, v) == Append(chain, v)

Installed(t) ==
    [k \in Key |-> IF k \in Written(t)
                   THEN Push(versions[k], [commit_ts |-> NextTs, value |-> txn[t].writes[k]])
                   ELSE versions[k]]

\* MvccStore::latest
Latest(k) == IF versions[k] = <<>> THEN None ELSE versions[k][Len(versions[k])].value

CommitOk(t) ==
    /\ Open(t) /\ ~Conflict(t)
    /\ clock' = NextTs
    /\ versions' = Installed(t)
    /\ txn' = [txn EXCEPT ![t].status = "committed", ![t].commit_ts = NextTs]
    /\ history' = Append(history, [k \in Key |-> IF k \in Written(t) THEN txn[t].writes[k]
                                                 ELSE history[Len(history)][k]])

Drop(t) ==
    /\ Open(t)
    /\ txn' = [txn EXCEPT ![t].status = "dropped"]
    /\ UNCHANGED <<versions, clock, history>>

Next ==
    \E t \in Txn :
        \/ Begin(t)
        \/ \E k \in Key : Read(t, k) \/ \E v \in Value : Write(t, k, v)
        \/ CommitOk(t)
        \/ CommitConflict(t)
        \/ Drop(t)

Spec == Init /\ [][Next]_vars

--------------------------------------------------------------------------------
\* The store and the transactions are well formed; there is one commit
\* timestamp per state of the database.
TypeOK ==
    /\ versions \in [Key -> Seq(Version)]
    /\ clock \in Nat
    /\ txn \in [Txn -> Transaction]
    /\ history \in Seq([Key -> Value \cup {None}]) /\ Len(history) = clock + 1

\* versions is ordered by commit timestamp, as visible_value and
\* latest_commit_ts take for granted.
ChainsOrdered ==
    \A k \in Key : \A i, j \in DOMAIN versions[k] :
        /\ versions[k][i].commit_ts <= clock
        /\ i < j => versions[k][i].commit_ts < versions[k][j].commit_ts

\* A transaction, even one that will be refused, has only seen values of the
\* one state of the database its snapshot stands for.
SnapshotReads ==
    \A t \in Txn, k \in Key :
        txn[t].seen[k] # Unread => txn[t].seen[k] = history[txn[t].snapshot + 1][k]

\* First committer wins: of two overlapping transactions that wrote the same
\* key at most one commits, so no update is overwritten unseen.
NoLostUpdate ==
    \A t, u \in Txn :
        (/\ t # u /\ txn[t].status = "committed" /\ txn[u].status = "committed"
         /\ txn[u].snapshot < txn[t].commit_ts /\ txn[t].commit_ts <= txn[u].commit_ts)
        => Written(t) \cap Written(u) = {}

\* What a transaction relies on: versions in order, reads from one snapshot, and
\* no lost updates.
StoreSound == TypeOK /\ ChainsOrdered /\ SnapshotReads /\ NoLostUpdate

\* No transaction is refused without cause: another one has committed since its
\* snapshot and wrote a key that it read or wrote.
ConflictsHaveCause ==
    [][\A t \in Txn : CommitConflict(t) =>
          \E u \in Txn : /\ txn[u].status = "committed"
                         /\ txn[u].commit_ts > txn[t].snapshot
                         /\ Written(u) \cap Validated(t) # {}]_vars

\* Serializability, the property the module doc of mvcc.rs announces: the store
\* implements one in which transactions happen at once, in the order of their
\* commits, read-only ones included.
Outcome(t) ==
    [status |-> CASE txn[t].status = "committed" -> "committed"
                  [] txn[t].status \in {"conflict", "dropped"} -> "aborted"
                  [] OTHER -> "undecided",
     reads  |-> IF txn[t].status = "committed" THEN txn[t].seen ELSE [k \in Key |-> Unread],
     writes |-> IF txn[t].status = "committed" THEN txn[t].writes ELSE [k \in Key |-> None]]

Serial == INSTANCE AbstractStore
          WITH db <- [k \in Key |-> Latest(k)], outcome <- [t \in Txn |-> Outcome(t)]

\* The serial execution in commit order that every run of the store amounts to.
Serializable == Serial!Spec
================================================================================
