------------------------------- MODULE MvccProofs -------------------------------
(****************************************************************************)
(* Proofs about the multi-version store, for any keys, values and           *)
(* transactions.  A commit appends versions that are younger than every     *)
(* snapshot, so what a snapshot shows never changes (StoreInv); validation  *)
(* then makes what a committing transaction has seen the latest versions.   *)
(****************************************************************************)
EXTENDS Mvcc, TLAPS

\* Of the versions a snapshot shows there is a youngest one.
HasYoungest ==
    \A k \in Key, s \in 0..clock :
        Older(k, s) = {} \/ \E i \in Older(k, s) : \A j \in Older(k, s) : j <= i

\* The versions at a timestamp are the state of the database at that commit.
SnapshotsAreStates ==
    \A k \in Key, s \in 0..clock : Visible(k, s) = history[s + 1][k]

TimestampsPast ==
    \A t \in Txn : txn[t].snapshot <= clock /\ txn[t].commit_ts <= clock

SeenWereRead == \A t \in Txn, k \in Key : txn[t].seen[k] # Unread => k \in txn[t].reads

StoreInv == TypeOK /\ ChainsOrdered /\ HasYoungest /\ SnapshotsAreStates

TxnInv == TimestampsPast /\ SeenWereRead /\ SnapshotReads

Inv == StoreInv /\ TxnInv

--------------------------------------------------------------------------------
\* An element of a sequence has the type of its elements.
LEMMA SeqElement ==
  ASSUME NEW S, NEW q \in Seq(S), NEW i \in 1..Len(q) PROVE q[i] \in S
  OBVIOUS

\* Only the empty sequence has no elements.
LEMMA EmptyIsEmpty ==
  ASSUME NEW S, NEW q \in Seq(S) PROVE q = <<>> <=> DOMAIN q = {}
  OBVIOUS

\* What MvccStore::commit does to the versions of a key.
CommitEffect(t) ==
    /\ clock' = clock + 1
    /\ DOMAIN versions' = Key
    /\ \A k \in Key :
          IF txn[t].writes[k] # None
          THEN versions'[k] = Append(versions[k], [commit_ts |-> clock + 1, value |-> txn[t].writes[k]])
          ELSE versions'[k] = versions[k]
    /\ Len(history') = clock + 2
    /\ \A s \in 0..clock : history'[s + 1] = history[s + 1]
    /\ history'[clock + 2] = [k \in Key |-> IF txn[t].writes[k] # None THEN txn[t].writes[k]
                                            ELSE history[clock + 1][k]]
    /\ history' \in Seq([Key -> Value \cup {None}])
    /\ versions' \in [Key -> Seq(Version)]

\* A commit appends at most one version to each chain, and one state.
LEMMA CommitEffectHolds ==
  ASSUME TypeOK, NEW t \in Txn, CommitOk(t) PROVE CommitEffect(t)
  <1>1. txn[t] \in Transaction /\ txn[t].writes \in [Key -> Value \cup {None}]
    BY DEF TypeOK, Transaction
  <1>2. versions' = [k \in Key |-> IF txn[t].writes[k] # None
                       THEN Append(versions[k], [commit_ts |-> clock + 1, value |-> txn[t].writes[k]])
                       ELSE versions[k]]
    BY DEF CommitOk, Installed, Written, Push, NextTs
  <1>3. history' = Append(history, [k \in Key |-> IF txn[t].writes[k] # None THEN txn[t].writes[k]
                                                  ELSE history[clock + 1][k]])
    BY DEF CommitOk, Written, TypeOK
  <1>4. clock \in Nat /\ clock' = clock + 1 /\ Len(history) = clock + 1
        /\ history \in Seq([Key -> Value \cup {None}])
    BY DEF CommitOk, NextTs, TypeOK
  <1>5. ASSUME NEW k \in Key
        PROVE  (IF txn[t].writes[k] # None
                THEN Append(versions[k], [commit_ts |-> clock + 1, value |-> txn[t].writes[k]])
                ELSE versions[k]) \in Seq(Version)
    <2>1. versions[k] \in Seq(Version)
      BY DEF TypeOK
    <2>2. txn[t].writes[k] # None => [commit_ts |-> clock + 1, value |-> txn[t].writes[k]] \in Version
      BY <1>1, <1>4 DEF Version
    <2> QED  BY <2>1, <2>2
  <1>6. versions' \in [Key -> Seq(Version)]
    BY <1>2, <1>5
  <1>7. [k \in Key |-> IF txn[t].writes[k] # None THEN txn[t].writes[k]
                       ELSE history[clock + 1][k]] \in [Key -> Value \cup {None}]
    <2>1. history[clock + 1] \in [Key -> Value \cup {None}]
      BY <1>4
    <2> QED  BY <1>1, <2>1
  <1>8. history' \in Seq([Key -> Value \cup {None}]) /\ Len(history') = clock + 2
        /\ history'[clock + 2] = [k \in Key |-> IF txn[t].writes[k] # None THEN txn[t].writes[k]
                                                ELSE history[clock + 1][k]]
        /\ \A s \in 0..clock : history'[s + 1] = history[s + 1]
    BY <1>3, <1>4, <1>7
  <1> QED  BY <1>2, <1>4, <1>6, <1>8 DEF CommitEffect

--------------------------------------------------------------------------------
\* Every step leaves all transactions but one alone; all steps but CommitOk
\* leave the store alone.
LocalStep(t) ==
    /\ UNCHANGED <<versions, clock, history>>
    /\ txn' \in [Txn -> Transaction]
    /\ \A u \in Txn : u # t => txn'[u] = txn[u]
    /\ \/ /\ txn'[t].snapshot = clock /\ txn'[t].commit_ts = 0
          /\ txn'[t].seen = [k \in Key |-> Unread]
       \/ /\ txn'[t].snapshot = txn[t].snapshot /\ txn'[t].commit_ts = txn[t].commit_ts
          /\ txn[t].reads \subseteq txn'[t].reads
          /\ \A k \in Key :
                \/ txn'[t].seen[k] = txn[t].seen[k]
                \/ k \in txn'[t].reads /\ txn'[t].seen[k] = Visible(k, txn[t].snapshot)

NonCommit(t) ==
    Begin(t) \/ CommitConflict(t) \/ Drop(t)
    \/ \E k \in Key : Read(t, k) \/ \E v \in Value : Write(t, k, v)

\* begin, read, write, a refused commit and a drop are local to a transaction,
\* and add to what it has seen only what its snapshot shows.
LEMMA LocalStepHolds ==
  ASSUME Inv, NEW t \in Txn, NonCommit(t) PROVE LocalStep(t)
  <1> USE DEF Inv, StoreInv, TxnInv
  <1>0. /\ txn \in [Txn -> Transaction] /\ txn[t] \in Transaction
        /\ clock \in Nat
    BY DEF TypeOK
  <1>1. CASE Begin(t)
    <2>1. Fresh("open", clock) \in Transaction
      BY <1>0 DEF Fresh, Transaction, Status
    <2>2. UNCHANGED <<versions, clock, history>> /\ txn' = [txn EXCEPT ![t] = Fresh("open", clock)]
      BY <1>1 DEF Begin
    <2>3. txn'[t] = Fresh("open", clock) /\ \A u \in Txn : u # t => txn'[u] = txn[u]
      BY <1>0, <2>2
    <2> QED  BY <1>0, <2>1, <2>2, <2>3 DEF LocalStep, Fresh
  <1>2. CASE CommitConflict(t) \/ Drop(t)
    <2>1. PICK x \in Status : txn' = [txn EXCEPT ![t].status = x] /\ UNCHANGED <<versions, clock, history>>
      BY <1>2 DEF CommitConflict, Drop, Status
    <2>2. txn'[t] = [txn[t] EXCEPT !.status = x] /\ \A u \in Txn : u # t => txn'[u] = txn[u]
      BY <1>0, <2>1
    <2>3. txn' \in [Txn -> Transaction]
      BY <1>0, <2>1 DEF Transaction
    <2> QED  BY <1>0, <2>1, <2>2, <2>3 DEF LocalStep, Transaction
  <1>3. ASSUME NEW k \in Key, Read(t, k) PROVE LocalStep(t)
    <2> DEFINE x == IF txn[t].writes[k] # None THEN txn[t].seen[k] ELSE Visible(k, txn[t].snapshot)
               f == [txn[t].seen EXCEPT ![k] = x]
               r == [txn[t] EXCEPT !.reads = txn[t].reads \cup {k}, !.seen = f]
    <2>1. txn' = [txn EXCEPT ![t] = r] /\ UNCHANGED <<versions, clock, history>>
      BY <1>0, <1>3 DEF Read, Transaction
    <2>2. x \in Value \cup {None, Unread}
      <3>1. txn[t].snapshot \in 0..clock
        BY <1>0 DEF TimestampsPast, Transaction
      <3>2. Visible(k, txn[t].snapshot) = history[txn[t].snapshot + 1][k]
        BY <3>1 DEF SnapshotsAreStates
      <3>3. history[txn[t].snapshot + 1] \in [Key -> Value \cup {None}]
        <4>1. txn[t].snapshot + 1 \in 1..Len(history)
          BY <1>0, <3>1 DEF TypeOK
        <4>2. history \in Seq([Key -> Value \cup {None}])
          BY DEF TypeOK
        <4> QED  BY <4>1, <4>2, SeqElement
      <3>4. txn[t].seen[k] \in Value \cup {None, Unread}
        BY <1>0 DEF Transaction
      <3> QED  BY <3>2, <3>3, <3>4
    <2>3. f \in [Key -> Value \cup {None, Unread}]
      BY <1>0, <2>2 DEF Transaction
    <2>4. r \in Transaction /\ r.snapshot = txn[t].snapshot /\ r.commit_ts = txn[t].commit_ts
          /\ r.reads = txn[t].reads \cup {k} /\ r.seen = f
      BY <1>0, <2>3 DEF Transaction
    <2>5. \A j \in Key : f[j] = txn[t].seen[j] \/ (j = k /\ f[j] = Visible(k, txn[t].snapshot))
      BY <1>0 DEF Transaction
    <2> HIDE DEF r, f, x
    <2>6. txn' \in [Txn -> Transaction] /\ txn'[t] = r /\ \A u \in Txn : u # t => txn'[u] = txn[u]
      BY <1>0, <2>1, <2>4
    <2> QED  BY <2>1, <2>4, <2>5, <2>6 DEF LocalStep
  <1>4. ASSUME NEW k \in Key, NEW v \in Value, Write(t, k, v) PROVE LocalStep(t)
    <2> DEFINE f == [txn[t].writes EXCEPT ![k] = v]
               r == [txn[t] EXCEPT !.writes = f]
    <2>1. txn' = [txn EXCEPT ![t] = r] /\ UNCHANGED <<versions, clock, history>>
      BY <1>0, <1>4 DEF Write, Transaction
    <2>2. f \in [Key -> Value \cup {None}]
      BY <1>0 DEF Transaction
    <2>3. r \in Transaction /\ r.snapshot = txn[t].snapshot /\ r.commit_ts = txn[t].commit_ts
          /\ r.reads = txn[t].reads /\ r.seen = txn[t].seen
      BY <1>0, <2>2 DEF Transaction
    <2> HIDE DEF r, f
    <2>4. txn' \in [Txn -> Transaction] /\ txn'[t] = r /\ \A u \in Txn : u # t => txn'[u] = txn[u]
      BY <1>0, <2>1, <2>3
    <2> QED  BY <2>1, <2>3, <2>4 DEF LocalStep
  <1> QED  BY <1>1, <1>2, <1>3, <1>4 DEF NonCommit

--------------------------------------------------------------------------------
\* What a snapshot shows is not changed by a commit, whose versions are younger.
LEMMA CommitKeepsSnapshots ==
  ASSUME StoreInv, NEW t \in Txn, CommitEffect(t), NEW k \in Key, NEW s \in 0..clock
  PROVE  Older(k, s)' = Older(k, s) /\ Visible(k, s)' = Visible(k, s)
  <1>1. versions[k] \in Seq(Version) /\ clock \in Nat
    BY DEF StoreInv, TypeOK
  <1>2. /\ \A i \in DOMAIN versions[k] : i \in DOMAIN versions'[k] /\ versions'[k][i] = versions[k][i]
        /\ \A i \in DOMAIN versions'[k] : i \in DOMAIN versions[k] \/ versions'[k][i].commit_ts = clock + 1
    <2>1. CASE txn[t].writes[k] # None
      <3> DEFINE e == [commit_ts |-> clock + 1, value |-> txn[t].writes[k]]
      <3>1. versions'[k] = Append(versions[k], e) /\ e.commit_ts = clock + 1
        BY <2>1 DEF CommitEffect
      <3> HIDE DEF e
      <3> QED  BY <1>1, <3>1
    <2>2. CASE txn[t].writes[k] = None
      BY <2>2 DEF CommitEffect
    <2> QED  BY <2>1, <2>2
  <1>3. Older(k, s)' = Older(k, s)
    BY <1>1, <1>2 DEF Older
  <1>4. Older(k, s) # {} => Youngest(Older(k, s)) \in Older(k, s)
    BY DEF StoreInv, HasYoungest, Youngest
  <1>5. Older(k, s) # {} => versions'[k][Youngest(Older(k, s))] = versions[k][Youngest(Older(k, s))]
    BY <1>2, <1>4 DEF Older
  <1> QED  BY <1>3, <1>5 DEF Visible

\* A key that was not modified since a snapshot shows its latest version.
LEMMA UnmodifiedIsLatest ==
  ASSUME TypeOK, NEW k \in Key, NEW s \in Nat, ~Modified(k, s)
  PROVE  Visible(k, s) = Latest(k)
  <1>1. versions[k] \in Seq(Version)
    BY DEF TypeOK
  <1>2. CASE versions[k] = <<>>
    BY <1>2 DEF Visible, Older, Latest
  <1>3. CASE versions[k] # <<>>
    <2> DEFINE n == Len(versions[k])
    <2>1. n \in DOMAIN versions[k] /\ n \in Nat /\ DOMAIN versions[k] = 1..n
      BY <1>1, <1>3
    <2>2. versions[k][n].commit_ts <= s
      <3>1. versions[k][n] \in Version
        BY <1>1, <2>1, SeqElement
      <3>2. versions[k][n].commit_ts \in Nat
        BY <3>1 DEF Version
      <3> QED  BY <1>3, <3>2 DEF Modified
    <2>3. n \in Older(k, s) /\ \A j \in Older(k, s) : j \in 1..n
      BY <2>1, <2>2 DEF Older
    <2>4. Youngest(Older(k, s)) = n
      <3>1. \E i \in Older(k, s) : \A j \in Older(k, s) : j <= i
        BY <2>1, <2>3
      <3>2. Youngest(Older(k, s)) \in Older(k, s) /\ \A j \in Older(k, s) : j <= Youngest(Older(k, s))
        BY <3>1 DEF Youngest
      <3> QED  BY <2>1, <2>3, <3>2
    <2> QED  BY <1>3, <2>3, <2>4 DEF Visible, Latest
  <1> QED  BY <1>2, <1>3

\* The latest versions are the last state of the history.
LEMMA LatestIsLastState ==
  ASSUME StoreInv, NEW k \in Key PROVE Latest(k) = history[clock + 1][k]
  <1>1. versions[k] \in Seq(Version) /\ clock \in Nat /\ TypeOK
    BY DEF StoreInv, TypeOK
  <1>2. ~Modified(k, clock)
    <2>1. versions[k] # <<>> => Len(versions[k]) \in DOMAIN versions[k]
      BY <1>1
    <2>2. versions[k] # <<>> => versions[k][Len(versions[k])] \in Version
      BY <1>1, <2>1, SeqElement
    <2>3. versions[k] # <<>> => versions[k][Len(versions[k])].commit_ts \in Nat
      BY <2>2 DEF Version
    <2>4. versions[k] # <<>> => versions[k][Len(versions[k])].commit_ts <= clock
      BY <2>1 DEF StoreInv, ChainsOrdered
    <2> QED  BY <1>1, <2>3, <2>4 DEF Modified
  <1>3. Visible(k, clock) = Latest(k)
    BY <1>1, <1>2, UnmodifiedIsLatest
  <1>4. Visible(k, clock) = history[clock + 1][k]
    BY <1>1 DEF StoreInv, SnapshotsAreStates
  <1> QED  BY <1>3, <1>4

--------------------------------------------------------------------------------
CommittedRecord(t) ==
    /\ txn' \in [Txn -> Transaction]
    /\ \A u \in Txn : u # t => txn'[u] = txn[u]
    /\ txn'[t].status = "committed" /\ txn'[t].commit_ts = clock + 1
    /\ txn'[t].snapshot = txn[t].snapshot /\ txn'[t].reads = txn[t].reads
    /\ txn'[t].writes = txn[t].writes /\ txn'[t].seen = txn[t].seen

\* A commit decides one transaction and records the timestamp it returns.
LEMMA CommittedTxn ==
  ASSUME TypeOK, NEW t \in Txn, CommitOk(t) PROVE CommittedRecord(t)
  <1> DEFINE r == [txn[t] EXCEPT !.status = "committed", !.commit_ts = clock + 1]
  <1>1. txn \in [Txn -> Transaction] /\ txn[t] \in Transaction /\ clock \in Nat
    BY DEF TypeOK
  <1>2. txn' = [txn EXCEPT ![t] = r]
    BY <1>1 DEF CommitOk, NextTs, Transaction
  <1>3. /\ r \in Transaction /\ r.status = "committed" /\ r.commit_ts = clock + 1
        /\ r.snapshot = txn[t].snapshot /\ r.reads = txn[t].reads
        /\ r.writes = txn[t].writes /\ r.seen = txn[t].seen
    <2>1. "committed" \in Status /\ clock + 1 \in Nat
      BY <1>1 DEF Status
    <2> QED  BY <1>1, <2>1 DEF Transaction
  <1> HIDE DEF r
  <1> QED  BY <1>1, <1>2, <1>3 DEF CommittedRecord

\* A commit keeps the store in order and adds the state it leaves to the history.
LEMMA CommitKeepsStore ==
  ASSUME Inv, NEW t \in Txn, CommitOk(t) PROVE StoreInv'
  <1> USE DEF Inv, StoreInv
  <1>1. CommitEffect(t)
    BY CommitEffectHolds
  <1>2. clock \in Nat /\ clock' = clock + 1
    BY <1>1 DEF CommitEffect, TypeOK
  <1>3. TypeOK'
    <2>1. txn' \in [Txn -> Transaction]
      BY CommittedTxn DEF CommittedRecord
    <2> QED  BY <1>1, <1>2, <2>1 DEF CommitEffect, TypeOK
  <1>4. ASSUME NEW k \in Key
        PROVE  /\ \A i, j \in DOMAIN versions'[k] :
                     /\ versions'[k][i].commit_ts <= clock + 1
                     /\ i < j => versions'[k][i].commit_ts < versions'[k][j].commit_ts
               /\ Len(versions'[k]) \in Nat /\ DOMAIN versions'[k] = 1..Len(versions'[k])
               /\ txn[t].writes[k] # None =>
                     Len(versions'[k]) # 0 /\ versions'[k][Len(versions'[k])].value = txn[t].writes[k]
    <2>1. versions[k] \in Seq(Version) /\ versions'[k] \in Seq(Version)
      BY <1>1 DEF TypeOK, CommitEffect
    <2>2. \A i \in DOMAIN versions[k] : versions[k][i].commit_ts \in Nat
      <3>1. \A i \in DOMAIN versions[k] : versions[k][i] \in Version
        BY <2>1, SeqElement
      <3> QED  BY <3>1 DEF Version
    <2>3. \A i, j \in DOMAIN versions[k] :
             /\ versions[k][i].commit_ts <= clock
             /\ i < j => versions[k][i].commit_ts < versions[k][j].commit_ts
      BY DEF ChainsOrdered
    <2>4. CASE txn[t].writes[k] # None
      <3> DEFINE e == [commit_ts |-> clock + 1, value |-> txn[t].writes[k]]
      <3>1. versions'[k] = Append(versions[k], e) /\ e.commit_ts = clock + 1
            /\ e.value = txn[t].writes[k]
        BY <1>1, <2>4 DEF CommitEffect
      <3> HIDE DEF e
      <3>2. /\ Len(versions'[k]) = Len(versions[k]) + 1 /\ Len(versions[k]) \in Nat
            /\ DOMAIN versions'[k] = 1..Len(versions[k]) + 1
            /\ DOMAIN versions[k] = 1..Len(versions[k])
            /\ \A i \in 1..Len(versions[k]) : versions'[k][i] = versions[k][i]
            /\ versions'[k][Len(versions[k]) + 1] = e
        BY <2>1, <3>1
      <3> QED  BY <1>2, <2>2, <2>3, <3>1, <3>2
    <2>5. CASE txn[t].writes[k] = None
      <3>1. versions'[k] = versions[k]
        BY <1>1, <2>5 DEF CommitEffect
      <3>2. Len(versions[k]) \in Nat /\ DOMAIN versions[k] = 1..Len(versions[k])
        BY <2>1
      <3> QED  BY <1>2, <2>2, <2>3, <2>5, <3>1, <3>2
    <2> QED  BY <2>4, <2>5
  <1>5. ChainsOrdered'
    BY <1>2, <1>4 DEF ChainsOrdered
  <1>6. ASSUME NEW k \in Key
        PROVE  /\ Older(k, clock)' = DOMAIN versions'[k]
               /\ DOMAIN versions'[k] # {} => Youngest(Older(k, clock)') = Len(versions'[k])
               /\ Visible(k, clock)' = Latest(k)'
    <2>1. Older(k, clock)' = DOMAIN versions'[k]
      BY <1>2, <1>4 DEF Older
    <2>2. DOMAIN versions'[k] # {} => Youngest(DOMAIN versions'[k]) = Len(versions'[k])
      <3> SUFFICES ASSUME DOMAIN versions'[k] # {} PROVE Youngest(DOMAIN versions'[k]) = Len(versions'[k])
        OBVIOUS
      <3> DEFINE n == Len(versions'[k])
      <3>1. n \in Nat /\ DOMAIN versions'[k] = 1..n
        BY <1>4
      <3>2. n \in 1..n /\ \A j \in 1..n : j <= n
        BY <3>1
      <3>3. Youngest(1..n) \in 1..n /\ \A j \in 1..n : j <= Youngest(1..n)
        BY <3>2 DEF Youngest
      <3> QED  BY <3>1, <3>2, <3>3
    <2>3. versions'[k] = <<>> <=> DOMAIN versions'[k] = {}
      <3>1. versions'[k] \in Seq(Version)
        BY <1>1 DEF CommitEffect
      <3> QED  BY <3>1, EmptyIsEmpty
    <2> QED  BY <2>1, <2>2, <2>3 DEF Visible, Latest
  <1>7. HasYoungest'
    <2> SUFFICES ASSUME NEW k \in Key, NEW s \in 0..clock + 1
                 PROVE  Older(k, s)' = {} \/ \E i \in Older(k, s)' : \A j \in Older(k, s)' : j <= i
      BY <1>2 DEF HasYoungest
    <2>1. CASE s \in 0..clock
      BY <1>1, <2>1, CommitKeepsSnapshots DEF HasYoungest
    <2>2. CASE s = clock + 1
      <3>1. Older(k, s)' = DOMAIN versions'[k]
        BY <1>2, <1>6, <2>2 DEF Older
      <3>2. Len(versions'[k]) \in Nat /\ DOMAIN versions'[k] = 1..Len(versions'[k])
        BY <1>4
      <3>3. DOMAIN versions'[k] = {} \/ Len(versions'[k]) \in DOMAIN versions'[k]
        BY <3>2
      <3>4. \A j \in DOMAIN versions'[k] : j <= Len(versions'[k])
        BY <3>2
      <3> QED  BY <3>1, <3>3, <3>4
    <2> QED  BY <1>2, <2>1, <2>2
  <1>8. SnapshotsAreStates'
    <2> SUFFICES ASSUME NEW k \in Key, NEW s \in 0..clock + 1
                 PROVE  Visible(k, s)' = history'[s + 1][k]
      BY <1>2 DEF SnapshotsAreStates
    <2>1. CASE s \in 0..clock
      <3>1. Visible(k, s)' = Visible(k, s) /\ Visible(k, s) = history[s + 1][k]
        BY <1>1, <2>1, CommitKeepsSnapshots DEF SnapshotsAreStates
      <3> QED  BY <1>1, <2>1, <3>1 DEF CommitEffect
    <2>2. CASE s = clock + 1
      <3>1. Visible(k, s)' = Latest(k)'
        <4>1. Visible(k, s)' = Visible(k, clock)'
          BY <1>2, <2>2 DEF Visible, Older
        <4> QED  BY <1>6, <4>1
      <3>2. history'[s + 1][k] = IF txn[t].writes[k] # None THEN txn[t].writes[k]
                                 ELSE history[clock + 1][k]
        <4>1. s + 1 = clock + 2
          BY <1>2, <2>2
        <4> QED  BY <1>1, <4>1 DEF CommitEffect
      <3>3. CASE txn[t].writes[k] # None
        <4>1. versions'[k] # <<>> /\ versions'[k][Len(versions'[k])].value = txn[t].writes[k]
          BY <1>4, <3>3
        <4> QED  BY <3>1, <3>2, <3>3, <4>1 DEF Latest
      <3>4. CASE txn[t].writes[k] = None
        <4>1. versions'[k] = versions[k]
          BY <1>1, <3>4 DEF CommitEffect
        <4>2. Latest(k)' = Latest(k)
          BY <4>1 DEF Latest
        <4>3. Latest(k) = history[clock + 1][k]
          BY LatestIsLastState
        <4> QED  BY <3>1, <3>2, <3>4, <4>2, <4>3
      <3> QED  BY <3>3, <3>4
    <2> QED  BY <1>2, <2>1, <2>2
  <1> QED  BY <1>3, <1>5, <1>7, <1>8

--------------------------------------------------------------------------------
\* A commit leaves what every transaction has seen consistent with its snapshot.
LEMMA CommitKeepsTxns ==
  ASSUME Inv, NEW t \in Txn, CommitOk(t) PROVE TxnInv'
  <1> USE DEF Inv, StoreInv, TxnInv
  <1>1. CommitEffect(t) /\ CommittedRecord(t)
    BY CommitEffectHolds, CommittedTxn
  <1>2. clock \in Nat /\ clock' = clock + 1
    BY <1>1 DEF CommitEffect, TypeOK
  <1>3. \A u \in Txn : /\ txn'[u].snapshot = txn[u].snapshot /\ txn[u].snapshot \in 0..clock
                       /\ txn'[u].reads = txn[u].reads /\ txn'[u].seen = txn[u].seen
    <2>1. \A u \in Txn : txn[u].snapshot \in Nat
      BY DEF TypeOK, Transaction
    <2> QED  BY <1>1, <1>2, <2>1 DEF CommittedRecord, TimestampsPast
  <1>4. \A u \in Txn : txn'[u].commit_ts <= clock + 1
    <2>1. \A u \in Txn : txn[u].commit_ts \in Nat
      BY DEF TypeOK, Transaction
    <2> QED  BY <1>1, <1>2, <2>1 DEF CommittedRecord, TimestampsPast
  <1>5. TimestampsPast'
    BY <1>2, <1>3, <1>4 DEF TimestampsPast
  <1>6. SeenWereRead'
    BY <1>3 DEF SeenWereRead
  <1>7. SnapshotReads'
    <2> SUFFICES ASSUME NEW u \in Txn, NEW k \in Key, txn'[u].seen[k] # Unread
                 PROVE  txn'[u].seen[k] = history'[txn'[u].snapshot + 1][k]
      BY DEF SnapshotReads
    <2>1. txn'[u].seen[k] = history[txn[u].snapshot + 1][k]
      BY <1>3 DEF SnapshotReads
    <2>2. history'[txn[u].snapshot + 1] = history[txn[u].snapshot + 1]
      BY <1>1, <1>3 DEF CommitEffect
    <2> QED  BY <1>3, <2>1, <2>2
  <1> QED  BY <1>5, <1>6, <1>7

\* The invariant of the store speaks of the store alone.
LEMMA StoreUnchanged ==
  ASSUME StoreInv, UNCHANGED <<versions, clock, history>>, txn' \in [Txn -> Transaction]
  PROVE  StoreInv'
  <1>1. TypeOK' /\ ChainsOrdered'
    BY DEF StoreInv, TypeOK, ChainsOrdered
  <1>2. ASSUME NEW k \in Key, NEW s \in 0..clock
        PROVE  Older(k, s)' = Older(k, s) /\ Visible(k, s)' = Visible(k, s)
    BY DEF Older, Visible
  <1>3. HasYoungest'
    BY <1>2 DEF StoreInv, HasYoungest
  <1>4. SnapshotsAreStates'
    BY <1>2 DEF StoreInv, SnapshotsAreStates
  <1> QED  BY <1>1, <1>3, <1>4 DEF StoreInv

\* The steps that leave the store alone keep the invariant.
LEMMA LocalKeepsInv ==
  ASSUME Inv, NEW t \in Txn, NonCommit(t) PROVE Inv'
  <1> USE DEF Inv, StoreInv, TxnInv
  <1>1. LocalStep(t)
    BY LocalStepHolds
  <1>2. UNCHANGED <<versions, clock, history>> /\ txn' \in [Txn -> Transaction] /\ clock \in Nat
    BY <1>1 DEF LocalStep, TypeOK
  <1>3. StoreInv'
    BY <1>2, StoreUnchanged
  <1>4. TimestampsPast'
    BY <1>1, <1>2 DEF LocalStep, TimestampsPast
  <1>5. SeenWereRead'
    BY <1>1 DEF LocalStep, SeenWereRead
  <1>6. SnapshotReads'
    <2> SUFFICES ASSUME NEW u \in Txn, NEW k \in Key, txn'[u].seen[k] # Unread
                 PROVE  txn'[u].seen[k] = history[txn'[u].snapshot + 1][k]
      BY <1>2 DEF SnapshotReads
    <2>1. CASE txn'[u].snapshot = txn[u].snapshot /\ txn'[u].seen[k] = txn[u].seen[k]
      BY <2>1 DEF SnapshotReads
    <2>2. CASE u = t /\ txn'[t].snapshot = txn[t].snapshot
               /\ txn'[t].seen[k] = Visible(k, txn[t].snapshot)
      <3>1. txn[t].snapshot \in 0..clock
        BY <1>2 DEF TimestampsPast, TypeOK, Transaction
      <3> QED  BY <2>2, <3>1 DEF SnapshotsAreStates
    <2> QED  BY <1>1, <2>1, <2>2 DEF LocalStep
  <1> QED  BY <1>3, <1>4, <1>5, <1>6

\* The invariant holds initially and is kept by every step.
LEMMA InvariantHolds == Spec => []Inv
  <1>1. Init => Inv
    <2> SUFFICES ASSUME Init PROVE Inv
      OBVIOUS
    <2>1. Fresh("idle", 0) \in Transaction
      BY DEF Fresh, Transaction, Status
    <2>2. TypeOK
      BY <2>1 DEF Init, TypeOK
    <2>3. \A k \in Key, s \in 0..clock : Older(k, s) = {} /\ Visible(k, s) = None
      BY DEF Init, Older, Visible
    <2>4. ChainsOrdered
      BY DEF Init, ChainsOrdered
    <2>5. SnapshotsAreStates
      <3>1. clock = 0 /\ history = <<[k \in Key |-> None]>>
        BY DEF Init
      <3>2. \A s \in 0..clock : s = 0 /\ history[s + 1] = [k \in Key |-> None]
        BY <3>1
      <3> QED  BY <2>3, <3>2 DEF SnapshotsAreStates
    <2>6. TxnInv
      BY DEF Init, Fresh, TxnInv, TimestampsPast, SeenWereRead, SnapshotReads
    <2> QED  BY <2>2, <2>3, <2>4, <2>5, <2>6 DEF Inv, StoreInv, HasYoungest
  <1>2. Inv /\ [Next]_vars => Inv'
    <2> SUFFICES ASSUME Inv, [Next]_vars PROVE Inv'
      OBVIOUS
    <2>1. ASSUME NEW t \in Txn, NonCommit(t) PROVE Inv'
      BY <2>1, LocalKeepsInv
    <2>2. ASSUME NEW t \in Txn, CommitOk(t) PROVE Inv'
      BY <2>2, CommitKeepsStore, CommitKeepsTxns DEF Inv
    <2>3. CASE UNCHANGED vars
      <3>1. UNCHANGED <<versions, clock, history, txn>> /\ txn' \in [Txn -> Transaction]
        BY <2>3 DEF vars, Inv, StoreInv, TypeOK
      <3>2. StoreInv'
        BY <3>1, StoreUnchanged DEF Inv
      <3>3. TxnInv'
        BY <3>1 DEF Inv, TxnInv, TimestampsPast, SeenWereRead, SnapshotReads
      <3> QED  BY <3>2, <3>3 DEF Inv
    <2> QED  BY <2>1, <2>2, <2>3 DEF Next, NonCommit
  <1> QED  BY <1>1, <1>2, PTL DEF Spec

--------------------------------------------------------------------------------
\* The store and the transactions of MvccStore stay well formed.
THEOREM TypeCorrect == Spec => []TypeOK
  BY InvariantHolds, PTL DEF Inv, StoreInv

\* commit keeps every version chain in the order that visible_value and
\* latest_commit_ts rely on.
THEOREM VersionsOrdered == Spec => []ChainsOrdered
  BY InvariantHolds, PTL DEF Inv, StoreInv

\* Whatever a transaction has read, committed or not, comes from the one state
\* of the database at its snapshot.
THEOREM ReadsAreConsistent == Spec => []SnapshotReads
  BY InvariantHolds, PTL DEF Inv, TxnInv

--------------------------------------------------------------------------------
\* Every version was written by the transaction that committed at its timestamp,
\* and every write of a committed transaction is a version.
WriterInv ==
    /\ \A k \in Key : \A i \in DOMAIN versions[k] : \E u \in Txn :
          /\ txn[u].status = "committed" /\ txn[u].writes[k] # None
          /\ txn[u].commit_ts = versions[k][i].commit_ts
    /\ \A t \in Txn, k \in Key :
          txn[t].status = "committed" /\ txn[t].writes[k] # None =>
              \E i \in DOMAIN versions[k] : versions[k][i].commit_ts = txn[t].commit_ts

\* A decided transaction is not touched again.
LEMMA LocalKeepsCommitted ==
  ASSUME Inv, NEW t \in Txn, NonCommit(t)
  PROVE  /\ UNCHANGED versions
         /\ \A u \in Txn : txn'[u].status = "committed" \/ txn[u].status = "committed"
                             => txn'[u] = txn[u]
  <1>1. LocalStep(t) /\ txn \in [Txn -> Transaction] /\ txn[t] \in Transaction
    BY LocalStepHolds DEF Inv, StoreInv, TypeOK
  <1>2. txn[t].status # "committed"
    BY DEF NonCommit, Begin, CommitConflict, Drop, Read, Write, Open
  <1>3. txn'[t].status # "committed"
    <2>1. CASE Begin(t)
      BY <1>1, <2>1 DEF Begin, Fresh
    <2>2. CASE CommitConflict(t) \/ Drop(t)
      BY <1>1, <2>2 DEF CommitConflict, Drop, Transaction
    <2>3. ASSUME NEW k \in Key, Read(t, k) PROVE txn'[t].status # "committed"
      <3>1. txn'[t].status = txn[t].status
        BY <1>1, <2>3 DEF Read, Transaction
      <3> QED  BY <1>2, <3>1
    <2>4. ASSUME NEW k \in Key, NEW v \in Value, Write(t, k, v) PROVE txn'[t].status # "committed"
      <3>1. txn'[t].status = txn[t].status
        BY <1>1, <2>4 DEF Write, Transaction
      <3> QED  BY <1>2, <3>1
    <2> QED  BY <2>1, <2>2, <2>3, <2>4 DEF NonCommit
  <1> QED  BY <1>1, <1>2, <1>3 DEF LocalStep

\* First committer wins, with the versions as witnesses, is inductive.
LEMMA WritersInductive ==
  Inv /\ WriterInv /\ NoLostUpdate /\ [Next]_vars => WriterInv' /\ NoLostUpdate'
  <1> SUFFICES ASSUME Inv, WriterInv, NoLostUpdate, [Next]_vars PROVE WriterInv' /\ NoLostUpdate'
    OBVIOUS
  <1>1. ASSUME UNCHANGED versions,
               \A u \in Txn : txn'[u].status = "committed" \/ txn[u].status = "committed"
                                => txn'[u] = txn[u]
        PROVE  WriterInv' /\ NoLostUpdate'
    <2>1. WriterInv'
      <3>1. ASSUME NEW k \in Key, NEW i \in DOMAIN versions[k]
            PROVE  \E u \in Txn : /\ txn'[u].status = "committed" /\ txn'[u].writes[k] # None
                                  /\ txn'[u].commit_ts = versions[k][i].commit_ts
        BY <1>1 DEF WriterInv
      <3>2. ASSUME NEW u \in Txn, NEW k \in Key, txn'[u].status = "committed", txn'[u].writes[k] # None
            PROVE  \E i \in DOMAIN versions[k] : versions[k][i].commit_ts = txn'[u].commit_ts
        BY <1>1, <3>2 DEF WriterInv
      <3> QED  BY <1>1, <3>1, <3>2 DEF WriterInv
    <2>2. NoLostUpdate'
      BY <1>1 DEF NoLostUpdate, Written
    <2> QED  BY <2>1, <2>2
  <1>2. ASSUME NEW t \in Txn, NonCommit(t) PROVE WriterInv' /\ NoLostUpdate'
    BY <1>1, <1>2, LocalKeepsCommitted
  <1>3. ASSUME NEW t \in Txn, CommitOk(t) PROVE WriterInv' /\ NoLostUpdate'
    <2>1. CommitEffect(t) /\ CommittedRecord(t) /\ TypeOK /\ clock \in Nat
      BY <1>3, CommitEffectHolds, CommittedTxn DEF Inv, StoreInv, TypeOK
    <2>2. Open(t) /\ ~Conflict(t)
      BY <1>3 DEF CommitOk
    <2>3. ASSUME NEW k \in Key
          PROVE  /\ \A i \in DOMAIN versions[k] : i \in DOMAIN versions'[k] /\ versions'[k][i] = versions[k][i]
                 /\ \A i \in DOMAIN versions'[k] : 
                       i \in DOMAIN versions[k] \/ (txn[t].writes[k] # None /\ versions'[k][i].commit_ts = clock + 1)
                 /\ txn[t].writes[k] # None =>
                       \E i \in DOMAIN versions'[k] : versions'[k][i].commit_ts = clock + 1
      <3>1. versions[k] \in Seq(Version)
        BY <2>1 DEF TypeOK
      <3>2. CASE txn[t].writes[k] # None
        <4> DEFINE e == [commit_ts |-> clock + 1, value |-> txn[t].writes[k]]
        <4>1. versions'[k] = Append(versions[k], e) /\ e.commit_ts = clock + 1
          BY <2>1, <3>2 DEF CommitEffect
        <4> HIDE DEF e
        <4>2. /\ DOMAIN versions[k] = 1..Len(versions[k]) /\ Len(versions[k]) \in Nat
              /\ DOMAIN versions'[k] = 1..Len(versions[k]) + 1
              /\ \A i \in DOMAIN versions[k] : versions'[k][i] = versions[k][i]
              /\ versions'[k][Len(versions[k]) + 1] = e
          BY <3>1, <4>1
        <4> QED  BY <3>2, <4>1, <4>2
      <3>3. CASE txn[t].writes[k] = None
        BY <2>1, <3>3 DEF CommitEffect
      <3> QED  BY <3>2, <3>3
    <2>4. WriterInv'
      <3>1. ASSUME NEW k \in Key, NEW i \in DOMAIN versions'[k]
            PROVE  \E u \in Txn : /\ txn'[u].status = "committed" /\ txn'[u].writes[k] # None
                                  /\ txn'[u].commit_ts = versions'[k][i].commit_ts
        <4>1. CASE i \in DOMAIN versions[k]
          <5>1. PICK u \in Txn : /\ txn[u].status = "committed" /\ txn[u].writes[k] # None
                                 /\ txn[u].commit_ts = versions[k][i].commit_ts
            BY <4>1 DEF WriterInv
          <5>2. u # t
            BY <2>2, <5>1 DEF Open
          <5> QED  BY <2>1, <2>3, <4>1, <5>1, <5>2 DEF CommittedRecord
        <4>2. CASE i \notin DOMAIN versions[k]
          BY <2>1, <2>3, <4>2 DEF CommittedRecord
        <4> QED  BY <4>1, <4>2
      <3>2. ASSUME NEW u \in Txn, NEW k \in Key, txn'[u].status = "committed", txn'[u].writes[k] # None
            PROVE  \E i \in DOMAIN versions'[k] : versions'[k][i].commit_ts = txn'[u].commit_ts
        <4>1. CASE u = t
          BY <2>1, <2>3, <3>2, <4>1 DEF CommittedRecord
        <4>2. CASE u # t
          <5>1. txn'[u] = txn[u]
            BY <2>1, <4>2 DEF CommittedRecord
          <5>2. PICK i \in DOMAIN versions[k] : versions[k][i].commit_ts = txn[u].commit_ts
            BY <3>2, <5>1 DEF WriterInv
          <5> QED  BY <2>3, <5>1, <5>2
        <4> QED  BY <4>1, <4>2
      <3> QED  BY <3>1, <3>2 DEF WriterInv
    <2>5. ASSUME NEW u \in Txn, u # t, txn[u].status = "committed", txn[t].snapshot < txn[u].commit_ts,
                 NEW k \in Key, txn[u].writes[k] # None, txn[t].writes[k] # None
          PROVE  FALSE
      <3>1. PICK i \in DOMAIN versions[k] : versions[k][i].commit_ts = txn[u].commit_ts
        BY <2>5 DEF WriterInv
      <3>2. versions[k] \in Seq(Version) /\ txn[t].snapshot \in Nat
        BY <2>1 DEF TypeOK, Transaction
      <3> DEFINE n == Len(versions[k])
      <3>3. n \in Nat /\ DOMAIN versions[k] = 1..n /\ n \in DOMAIN versions[k] /\ i <= n /\ i \in Nat
            /\ versions[k] # <<>>
        BY <3>1, <3>2
      <3>4. versions[k][n] \in Version /\ versions[k][i] \in Version
        BY <3>1, <3>2, <3>3, SeqElement
      <3>5. versions[k][i].commit_ts <= versions[k][n].commit_ts
        <4>1. i < n => versions[k][i].commit_ts < versions[k][n].commit_ts
          BY <3>1, <3>3 DEF Inv, StoreInv, ChainsOrdered
        <4>2. versions[k][n].commit_ts \in Nat /\ versions[k][i].commit_ts \in Nat
          BY <3>4 DEF Version
        <4> QED  BY <3>3, <4>1, <4>2
      <3>6. versions[k][n].commit_ts > txn[t].snapshot
        BY <2>5, <3>1, <3>2, <3>4, <3>5 DEF Version
      <3>7. Modified(k, txn[t].snapshot)
        BY <3>3, <3>6 DEF Modified
      <3> QED  BY <2>2, <2>5, <3>7 DEF Conflict, Validated, Written
    <2>6. NoLostUpdate'
      <3> SUFFICES ASSUME NEW a \in Txn, NEW b \in Txn, a # b,
                          txn'[a].status = "committed", txn'[b].status = "committed",
                          txn'[b].snapshot < txn'[a].commit_ts, txn'[a].commit_ts <= txn'[b].commit_ts,
                          NEW k \in Key, txn'[a].writes[k] # None, txn'[b].writes[k] # None
                   PROVE  FALSE
        BY DEF NoLostUpdate, Written
      <3>1. CASE b = t
        BY <2>1, <2>5, <3>1 DEF CommittedRecord
      <3>2. CASE a = t
        <4>1. txn'[a].commit_ts = clock + 1 /\ txn'[b].commit_ts <= clock /\ txn[b].commit_ts \in Nat
          BY <2>1, <3>2 DEF CommittedRecord, Inv, TxnInv, TimestampsPast, TypeOK, Transaction
        <4>2. txn'[b] = txn[b]
          BY <2>1, <3>2 DEF CommittedRecord
        <4> QED  BY <2>1, <4>1, <4>2
      <3>3. CASE a # t /\ b # t
        <4>1. txn'[a] = txn[a] /\ txn'[b] = txn[b]
          BY <2>1, <3>3 DEF CommittedRecord
        <4> QED  BY <4>1 DEF NoLostUpdate, Written
      <3> QED  BY <3>1, <3>2, <3>3
    <2> QED  BY <2>4, <2>6
  <1>4. CASE UNCHANGED vars
    BY <1>1, <1>4 DEF vars
  <1> QED  BY <1>2, <1>3, <1>4 DEF Next, NonCommit

\* Writers and versions agree in every state.
LEMMA WritersHold == Spec => [](Inv /\ WriterInv /\ NoLostUpdate)
  <1>1. Init => WriterInv /\ NoLostUpdate
    BY DEF Init, Fresh, WriterInv, NoLostUpdate
  <1> QED  BY <1>1, WritersInductive, InvariantHolds, PTL DEF Spec

\* MvccStore::commit never lets two overlapping transactions write the same key.
THEOREM FirstCommitterWins == Spec => []NoLostUpdate
  BY WritersHold, PTL

\* StoreSound: what a transaction of MvccStore relies on.
THEOREM StoreIsSound == Spec => []StoreSound
  BY TypeCorrect, VersionsOrdered, ReadsAreConsistent, FirstCommitterWins, PTL DEF StoreSound

\* MvccStore::commit refuses a transaction only for a key that another one has
\* committed since its snapshot.
THEOREM RefusalsHaveCause == Spec => ConflictsHaveCause
  <1>1. Inv /\ WriterInv =>
            \A t \in Txn : CommitConflict(t) =>
                \E u \in Txn : /\ txn[u].status = "committed"
                               /\ txn[u].commit_ts > txn[t].snapshot
                               /\ Written(u) \cap Validated(t) # {}
    <2> SUFFICES ASSUME Inv, WriterInv, NEW t \in Txn, Conflict(t)
                 PROVE  \E u \in Txn : /\ txn[u].status = "committed"
                                       /\ txn[u].commit_ts > txn[t].snapshot
                                       /\ Written(u) \cap Validated(t) # {}
      BY DEF CommitConflict
    <2>1. PICK k \in Validated(t) : Modified(k, txn[t].snapshot)
      BY DEF Conflict
    <2>2. k \in Key /\ versions[k] \in Seq(Version)
      BY DEF Validated, Written, Inv, StoreInv, TypeOK, Transaction
    <2>3. Len(versions[k]) \in DOMAIN versions[k]
      BY <2>1, <2>2 DEF Modified
    <2>4. PICK u \in Txn : /\ txn[u].status = "committed" /\ txn[u].writes[k] # None
                           /\ txn[u].commit_ts = versions[k][Len(versions[k])].commit_ts
      BY <2>2, <2>3 DEF WriterInv
    <2> QED  BY <2>1, <2>2, <2>4 DEF Modified, Written
  <1> QED  BY <1>1, WritersHold, PTL DEF ConflictsHaveCause

--------------------------------------------------------------------------------
\* What the serial store sees of the transactions a step decides.
Undecided(t) == txn[t].status \in {"idle", "open"}

\* begin, read and write decide nothing; a refused commit and a drop abort.
LEMMA LocalDecides ==
  ASSUME Inv, NEW t \in Txn, NonCommit(t)
  PROVE  Undecided(t) /\ (Undecided(t)' \/ txn'[t].status \in {"conflict", "dropped"})
  <1>1. txn \in [Txn -> Transaction] /\ txn[t] \in Transaction
    BY DEF Inv, StoreInv, TypeOK
  <1>2. CASE Begin(t)
    BY <1>1, <1>2 DEF Begin, Fresh, Undecided
  <1>3. CASE CommitConflict(t) \/ Drop(t)
    BY <1>1, <1>3 DEF CommitConflict, Drop, Transaction, Undecided, Open
  <1>4. ASSUME NEW k \in Key, Read(t, k) PROVE Undecided(t) /\ Undecided(t)'
    <2>1. txn'[t].status = txn[t].status
      BY <1>1, <1>4 DEF Read, Transaction
    <2> QED  BY <1>4, <2>1 DEF Read, Open, Undecided
  <1>5. ASSUME NEW k \in Key, NEW v \in Value, Write(t, k, v) PROVE Undecided(t) /\ Undecided(t)'
    <2>1. txn'[t].status = txn[t].status
      BY <1>1, <1>5 DEF Write, Transaction
    <2> QED  BY <1>5, <2>1 DEF Write, Open, Undecided
  <1> QED  BY <1>2, <1>3, <1>4, <1>5 DEF NonCommit

\* A committing transaction has seen the latest version of every key it read.
LEMMA SeenIsLatest ==
  ASSUME Inv, NEW t \in Txn, CommitOk(t), NEW k \in Key, txn[t].seen[k] # Unread
  PROVE  txn[t].seen[k] = Latest(k)
  <1>1. TypeOK /\ clock \in Nat /\ txn[t].snapshot \in Nat /\ txn[t].snapshot <= clock
    BY DEF Inv, StoreInv, TxnInv, TypeOK, Transaction, TimestampsPast
  <1>2. k \in Validated(t)
    BY DEF Inv, TxnInv, SeenWereRead, Validated
  <1>3. ~Modified(k, txn[t].snapshot)
    BY <1>2 DEF CommitOk, Conflict
  <1>4. Visible(k, txn[t].snapshot) = Latest(k)
    BY <1>1, <1>3, UnmodifiedIsLatest
  <1>5. Visible(k, txn[t].snapshot) = history[txn[t].snapshot + 1][k]
    BY <1>1 DEF Inv, StoreInv, SnapshotsAreStates
  <1>6. txn[t].seen[k] = history[txn[t].snapshot + 1][k]
    BY DEF Inv, TxnInv, SnapshotReads
  <1> QED  BY <1>4, <1>5, <1>6

\* A commit makes its writes the latest versions and leaves the other keys alone.
LEMMA CommitMovesLatest ==
  ASSUME Inv, NEW t \in Txn, CommitOk(t), NEW k \in Key
  PROVE  Latest(k)' = IF txn[t].writes[k] # None THEN txn[t].writes[k] ELSE Latest(k)
  <1>1. CommitEffect(t) /\ versions[k] \in Seq(Version)
    BY CommitEffectHolds DEF Inv, StoreInv, TypeOK
  <1>2. CASE txn[t].writes[k] # None
    <2> DEFINE e == [commit_ts |-> clock + 1, value |-> txn[t].writes[k]]
    <2>1. versions'[k] = Append(versions[k], e) /\ e.value = txn[t].writes[k]
      BY <1>1, <1>2 DEF CommitEffect
    <2> HIDE DEF e
    <2>2. versions'[k] # <<>> /\ versions'[k][Len(versions'[k])] = e
      BY <1>1, <2>1
    <2> QED  BY <1>2, <2>1, <2>2 DEF Latest
  <1>3. CASE txn[t].writes[k] = None
    BY <1>1, <1>3 DEF CommitEffect, Latest
  <1> QED  BY <1>2, <1>3

\* Every run of the store is a serial run, in the order of the commits: the
\* property mvcc.rs announces, read-only transactions included.
THEOREM Serializability == Spec => Serializable
  <1> DEFINE db == [k \in Key |-> Latest(k)]
             outcome == [t \in Txn |-> Outcome(t)]
  <1>1. Init => Serial!Init
    <2> SUFFICES ASSUME Init PROVE Serial!Init
      OBVIOUS
    <2>1. ASSUME NEW k \in Key PROVE Latest(k) = None
      BY DEF Init, Latest
    <2>2. ASSUME NEW t \in Txn PROVE Outcome(t) = Serial!Undecided
      <3>1. txn[t].status = "idle"
        BY DEF Init, Fresh
      <3> QED  BY <3>1 DEF Outcome, Serial!Undecided
    <2> QED  BY <2>1, <2>2 DEF Serial!Init
  <1>2. Inv /\ [Next]_vars => [Serial!Next]_<<db, outcome>>
    <2> SUFFICES ASSUME Inv, [Next]_vars
                 PROVE  Serial!Next \/ (db' = db /\ outcome' = outcome)
      OBVIOUS
    <2>1. ASSUME NEW t \in Txn, NonCommit(t)
          PROVE  Serial!Next \/ (db' = db /\ outcome' = outcome)
      <3>1. LocalStep(t) /\ Undecided(t) /\ (Undecided(t)' \/ txn'[t].status \in {"conflict", "dropped"})
        BY <2>1, LocalStepHolds, LocalDecides
      <3>2. db' = db
        BY <3>1 DEF LocalStep, Latest
      <3>3. \A u \in Txn : u # t => Outcome(u)' = Outcome(u)
        BY <3>1 DEF LocalStep, Outcome
      <3>4. Outcome(t) = Serial!Undecided
        BY <3>1 DEF Undecided, Outcome, Serial!Undecided
      <3>5. CASE Undecided(t)'
        <4>1. Outcome(t)' = Outcome(t)
          BY <3>1, <3>5 DEF Undecided, Outcome
        <4> QED  BY <3>2, <3>3, <4>1
      <3>6. CASE txn'[t].status \in {"conflict", "dropped"}
        <4>1. Outcome(t)' = Serial!Aborted
          BY <3>6 DEF Outcome, Serial!Aborted, Serial!Undecided
        <4>2. outcome' = [outcome EXCEPT ![t] = Serial!Aborted]
          BY <3>3, <4>1
        <4>3. Serial!Abort(t)
          BY <3>2, <3>4, <4>2 DEF Serial!Abort
        <4> QED  BY <4>3 DEF Serial!Next
      <3> QED  BY <3>1, <3>5, <3>6
    <2>2. ASSUME NEW t \in Txn, CommitOk(t) PROVE Serial!Next
      <3>1. CommittedRecord(t) /\ txn[t] \in Transaction
        BY <2>2, CommittedTxn DEF Inv, StoreInv, TypeOK
      <3>2. \A u \in Txn : u # t => Outcome(u)' = Outcome(u)
        BY <3>1 DEF CommittedRecord, Outcome
      <3>3. Outcome(t) = Serial!Undecided
        BY <2>2 DEF CommitOk, Open, Outcome, Serial!Undecided
      <3>4. Outcome(t)' = [status |-> "committed", reads |-> txn[t].seen, writes |-> txn[t].writes]
        BY <3>1 DEF CommittedRecord, Outcome
      <3>5. Outcome(t)' \in Serial!Committed
        BY <3>1, <3>4 DEF Transaction, Serial!Committed, Serial!Reads, Serial!Writes
      <3>6. outcome'[t] = Outcome(t)'
        OBVIOUS
      <3>7. outcome[t] = Serial!Undecided /\ outcome'[t] \in Serial!Committed
        BY <3>3, <3>5
      <3>8. outcome' = [outcome EXCEPT ![t] = outcome'[t]]
        BY <3>2
      <3>9. \A k \in Key : outcome'[t].reads[k] # Unread => outcome'[t].reads[k] = db[k]
        <4>1. \A k \in Key : txn[t].seen[k] # Unread => txn[t].seen[k] = db[k]
          BY <2>2, SeenIsLatest
        <4>2. outcome'[t].reads = txn[t].seen
          BY <3>4, <3>6
        <4> QED  BY <4>1, <4>2
      <3>10. db' = [k \in Key |-> IF outcome'[t].writes[k] # None THEN outcome'[t].writes[k] ELSE db[k]]
        <4>1. db' = [k \in Key |-> IF txn[t].writes[k] # None THEN txn[t].writes[k] ELSE db[k]]
          BY <2>2, CommitMovesLatest
        <4>2. outcome'[t].writes = txn[t].writes
          BY <3>4, <3>6
        <4> HIDE DEF db, outcome
        <4> QED  BY <4>1, <4>2
      <3>11. Serial!Transact(t)
        BY <3>7, <3>8, <3>9, <3>10, Zenon DEF Serial!Transact
      <3> QED  BY <3>11 DEF Serial!Next
    <2>3. CASE UNCHANGED vars
      BY <2>3 DEF vars, Latest, Outcome
    <2> QED  BY <2>1, <2>2, <2>3 DEF Next, NonCommit
  <1> QED  BY <1>1, <1>2, InvariantHolds, PTL DEF Spec, Serializable, Serial!Spec
================================================================================
