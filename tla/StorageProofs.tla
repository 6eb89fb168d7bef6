----------------------------- MODULE StorageProofs -----------------------------
(****************************************************************************)
(* Proofs about the storage engine, for any blocks, images, capacity and    *)
(* bounds.                                                                  *)
(*                                                                          *)
(* The invariant has two halves.  PoolInv is about the buffer pool (see     *)
(* StoragePoolProofs).  LogInv relates the log to what a block may come     *)
(* back with: the records that a replay of any log with at least the saved  *)
(* records applies last, and during a replay the record it has applied      *)
(* last.                                                                    *)
(****************************************************************************)
EXTENDS StoragePoolProofs

WriteAt(log, n, b) == IsPageWrite(log[n]) /\ log[n].block = b

NoWrite(log, first, last, b) == \A k \in first..last : ~WriteAt(log, k, b)

\* The record n is the last write of b that a replay of the first m applies.
LastWrite(log, n, m, b) == n \in 1..m /\ WriteAt(log, n, b) /\ NoWrite(log, n + 1, m, b)

\* What holds of a block as long as no replay has passed over a page.
Survives(b) ==
    /\ \A n \in DOMAIN wal :
          WriteAt(wal, n, b) /\ NoWrite(wal, n + 1, saved, b) => wal[n].payload \in may[b]
    /\ NoWrite(wal, 1, saved, b) => device[b] \in may[b] /\ durable[b] \in may[b]
    /\ mode = "running" =>
          /\ image[b] \in may[b]
          /\ \A n \in DOMAIN wal : LastWrite(wal, n, Len(wal), b) =>
                wal[n].payload \in {image[b]} \cup refused[b]
    /\ mode = "recovering" =>
          \/ NoWrite(wal, 1, replay, b)
          \/ \E n \in DOMAIN wal : LastWrite(wal, n, replay, b) /\ device[b] = wal[n].payload

LogInv == ~skipped => \A b \in Block : Survives(b)

IInv == TypeOK /\ LruComplete /\ PoolInv /\ LogInv

--------------------------------------------------------------------------------
\* A step that leaves the log alone, and the device with the old page of a block
\* or with its image.
LEMMA SurvivesQuietStep ==
  ASSUME NEW b \in Block, Survives(b), mode = "running",
         UNCHANGED <<durable, wal, saved, image, may, refused, mode, replay>>,
         device'[b] # device[b] => device'[b] = image[b]
  PROVE  Survives(b)'
  BY DEF Survives, WriteAt, NoWrite, LastWrite, IsPageWrite

\* A step that appends to the log: what it adds for a block is what the block may
\* come back with, and is its image or was refused.
LEMMA SurvivesAppend ==
  ASSUME TypeOK, NEW b \in Block, NEW rec \in Record, Survives(b),
         mode = "running", mode' = mode, wal' = Append(wal, rec), saved' = saved,
         durable' = durable, device'[b] # device[b] => device'[b] = image[b],
         may[b] \subseteq may'[b], image'[b] \in may'[b],
         \/ /\ IsPageWrite(rec) /\ rec.block = b
            /\ rec.payload \in may'[b] /\ rec.payload \in {image'[b]} \cup refused'[b]
         \/ /\ ~(IsPageWrite(rec) /\ rec.block = b)
            /\ image'[b] = image[b] /\ refused'[b] = refused[b]
  PROVE  Survives(b)'
  <1>1. /\ wal' \in Seq(Record) /\ Len(wal') = Len(wal) + 1
        /\ wal'[Len(wal) + 1] = rec /\ \A n \in 1..Len(wal) : wal'[n] = wal[n]
        /\ wal \in Seq(Record) /\ saved \in 0..Len(wal)
    BY Appended DEF TypeOK
  <1>2. /\ \A n \in 1..Len(wal) : WriteAt(wal', n, b) <=> WriteAt(wal, n, b)
        /\ WriteAt(wal', Len(wal) + 1, b) <=> IsPageWrite(rec) /\ rec.block = b
    BY <1>1 DEF WriteAt
  <1>3. ASSUME NEW n \in DOMAIN wal', WriteAt(wal', n, b), NoWrite(wal', n + 1, saved, b)
        PROVE  wal'[n].payload \in may'[b]
    <2>1. CASE n = Len(wal) + 1
      BY <1>1, <1>2, <1>3, <2>1
    <2>2. CASE n # Len(wal) + 1
      <3>1. n \in 1..Len(wal) /\ WriteAt(wal, n, b) /\ NoWrite(wal, n + 1, saved, b)
        BY <1>1, <1>2, <1>3, <2>2 DEF NoWrite
      <3> QED  BY <1>1, <3>1 DEF Survives
    <2> QED  BY <2>1, <2>2
  <1>4. ASSUME NoWrite(wal', 1, saved, b) PROVE device'[b] \in may'[b] /\ durable'[b] \in may'[b]
    <2>1. NoWrite(wal, 1, saved, b)
      BY <1>1, <1>2, <1>4 DEF NoWrite
    <2> QED  BY <2>1 DEF Survives
  <1>5. ASSUME NEW n \in DOMAIN wal', LastWrite(wal', n, Len(wal'), b)
        PROVE  wal'[n].payload \in {image'[b]} \cup refused'[b]
    <2>1. CASE n = Len(wal) + 1
      BY <1>1, <1>2, <1>5, <2>1 DEF LastWrite
    <2>2. CASE n # Len(wal) + 1
      <3>1. n \in 1..Len(wal) /\ ~WriteAt(wal', Len(wal) + 1, b)
        BY <1>1, <1>5, <2>2 DEF LastWrite, NoWrite
      <3>2. LastWrite(wal, n, Len(wal), b)
        BY <1>1, <1>2, <1>5, <3>1 DEF LastWrite, NoWrite
      <3> QED  BY <1>1, <1>2, <3>1, <3>2 DEF Survives
    <2> QED  BY <2>1, <2>2
  <1> QED  BY <1>3, <1>4, <1>5 DEF Survives

\* A commit: everything is on the device, and the last record of a block has its
\* image or was refused.
LEMMA SurvivesCommit ==
  ASSUME TypeOK, NEW b \in Block, Survives(b), mode = "running", mode' = mode,
         wal' = Append(wal, Commit), saved' = Len(wal) + 1, device' = image, durable' = device',
         image' = image, refused' = refused, may'[b] = {image[b]} \cup refused[b]
  PROVE  Survives(b)'
  <1>1. /\ wal' \in Seq(Record) /\ Len(wal') = Len(wal) + 1
        /\ wal'[Len(wal) + 1] = Commit /\ \A n \in 1..Len(wal) : wal'[n] = wal[n]
        /\ wal \in Seq(Record)
    BY Appended, RecordTypes, StorageAssumption DEF TypeOK
  <1>2. /\ \A n \in 1..Len(wal) : WriteAt(wal', n, b) <=> WriteAt(wal, n, b)
        /\ ~WriteAt(wal', Len(wal) + 1, b)
    BY <1>1, RecordTypes, StorageAssumption DEF WriteAt
  <1>3. ASSUME NEW n \in DOMAIN wal', WriteAt(wal', n, b), NoWrite(wal', n + 1, Len(wal), b)
        PROVE  wal'[n].payload \in {image[b]} \cup refused[b]
    <2>1. n \in 1..Len(wal)
      BY <1>1, <1>2, <1>3
    <2>2. LastWrite(wal, n, Len(wal), b)
      BY <1>1, <1>2, <1>3, <2>1 DEF LastWrite, NoWrite
    <2> QED  BY <1>1, <2>1, <2>2 DEF Survives
  <1>4. ASSUME NEW n \in DOMAIN wal', NoWrite(wal', n + 1, Len(wal) + 1, b)
        PROVE  NoWrite(wal', n + 1, Len(wal), b)
    BY <1>1, <1>4 DEF NoWrite
  <1> QED  BY <1>1, <1>3, <1>4 DEF Survives, LastWrite

\* A crash leaves each block of the device as it was or as it was at the last
\* sync, and a prefix of the log with all that was saved.
LEMMA SurvivesCrash ==
  ASSUME TypeOK, NEW b \in Block, Survives(b), NEW n \in saved..Len(wal),
         wal' = SubSeq(wal, 1, n), saved' = saved, may' = may,
         device'[b] = device[b] \/ device'[b] = durable[b], durable' = device',
         mode' = "recovering", replay' = 0
  PROVE  Survives(b)'
  <1>1. /\ wal' \in Seq(Record) /\ Len(wal') = n /\ \A k \in 1..n : wal'[k] = wal[k]
        /\ wal \in Seq(Record) /\ saved \in Nat /\ saved <= n /\ n <= Len(wal) /\ n \in Nat
    BY DEF TypeOK
  <1>2. \A k \in 1..n : WriteAt(wal', k, b) <=> WriteAt(wal, k, b)
    BY <1>1 DEF WriteAt
  <1>3. ASSUME NEW k \in DOMAIN wal', WriteAt(wal', k, b), NoWrite(wal', k + 1, saved, b)
        PROVE  wal'[k].payload \in may'[b]
    <2>1. k \in 1..n /\ k \in DOMAIN wal
      BY <1>1
    <2>2. \A m \in k + 1..saved : m \in 1..n
      BY <1>1, <2>1
    <2>3. WriteAt(wal, k, b) /\ NoWrite(wal, k + 1, saved, b)
      BY <1>2, <1>3, <2>1, <2>2 DEF NoWrite
    <2> QED  BY <1>1, <2>1, <2>3 DEF Survives
  <1>4. ASSUME NoWrite(wal', 1, saved, b) PROVE device'[b] \in may'[b] /\ durable'[b] \in may'[b]
    <2>1. NoWrite(wal, 1, saved, b)
      BY <1>1, <1>2, <1>4 DEF NoWrite
    <2> QED  BY <2>1 DEF Survives
  <1>5. NoWrite(wal', 1, 0, b)
    BY DEF NoWrite
  <1> QED  BY <1>3, <1>4, <1>5 DEF Survives

\* recover applies one record.
LEMMA SurvivesReplay ==
  ASSUME TypeOK, NEW b \in Block, Survives(b), mode = "recovering", replay < Len(wal),
         device' = Replayed(wal[replay + 1]), replay' = replay + 1,
         UNCHANGED <<wal, saved, may, durable, mode, image, refused>>
  PROVE  Survives(b)'
  <1> DEFINE r == replay + 1
  <1>1. r \in 1..Len(wal) /\ r \in DOMAIN wal /\ wal[r] \in Record /\ replay \in Nat
        /\ saved \in 0..Len(wal) /\ wal \in Seq(Record) /\ device \in [Block -> Image]
    BY ElementType DEF TypeOK
  <1>2. device'[b] = IF WriteAt(wal, r, b) THEN wal[r].payload ELSE device[b]
    <2>1. IsPageWrite(wal[r]) => wal[r].block \in Block
      BY <1>1 DEF TypeOK
    <2> QED  BY <1>1, <2>1 DEF Replayed, WriteAt
  <1> HIDE DEF r
  <1>3. ASSUME NoWrite(wal, 1, saved, b) PROVE device'[b] \in may[b]
    <2>1. CASE WriteAt(wal, r, b)
      <3>1. r > saved
        BY <1>1, <1>3, <2>1 DEF NoWrite
      <3>2. NoWrite(wal, r + 1, saved, b)
        BY <1>1, <3>1 DEF NoWrite
      <3> QED  BY <1>1, <1>2, <2>1, <3>2 DEF Survives
    <2>2. CASE ~WriteAt(wal, r, b)
      BY <1>2, <1>3, <2>2 DEF Survives
    <2> QED  BY <2>1, <2>2
  <1>4. \/ NoWrite(wal, 1, r, b)
        \/ \E n \in DOMAIN wal : LastWrite(wal, n, r, b) /\ device'[b] = wal[n].payload
    <2>1. CASE WriteAt(wal, r, b)
      <3>1. LastWrite(wal, r, r, b)
        BY <1>1, <2>1 DEF LastWrite, NoWrite
      <3> QED  BY <1>1, <1>2, <2>1, <3>1
    <2>2. CASE ~WriteAt(wal, r, b)
      <3>1. CASE NoWrite(wal, 1, replay, b)
        BY <1>1, <2>2, <3>1 DEF NoWrite, r
      <3>2. ASSUME NEW n \in DOMAIN wal, LastWrite(wal, n, replay, b), device[b] = wal[n].payload
            PROVE  LastWrite(wal, n, r, b) /\ device'[b] = wal[n].payload
        BY <1>1, <1>2, <2>2, <3>2 DEF LastWrite, NoWrite, r
      <3> QED  BY <3>1, <3>2 DEF Survives
    <2> QED  BY <2>1, <2>2
  <1>5. replay' = r
    BY DEF r
  <1> QED  BY <1>3, <1>4, <1>5 DEF Survives, LastWrite, NoWrite, WriteAt

\* recover returns: a block has the image of its last record, or has none and is
\* as the crash left it.
LEMMA SurvivesRecovered ==
  ASSUME TypeOK, NEW b \in Block, Survives(b), mode = "recovering", replay = Len(wal),
         mode' = "running", image' = device,
         UNCHANGED <<device, durable, wal, saved, replay, may, refused>>
  PROVE  Survives(b)'
  <1>1. wal \in Seq(Record) /\ saved \in 0..Len(wal)
    BY DEF TypeOK
  <1>2. device[b] \in may[b]
    <2>1. CASE NoWrite(wal, 1, Len(wal), b)
      <3>1. NoWrite(wal, 1, saved, b)
        BY <1>1, <2>1 DEF NoWrite
      <3> QED  BY <3>1 DEF Survives
    <2>2. ASSUME NEW n \in DOMAIN wal, LastWrite(wal, n, Len(wal), b), device[b] = wal[n].payload
          PROVE  device[b] \in may[b]
      <3>1. WriteAt(wal, n, b) /\ NoWrite(wal, n + 1, saved, b)
        BY <1>1, <2>2 DEF LastWrite, NoWrite
      <3> QED  BY <2>2, <3>1 DEF Survives
    <2> QED  BY <2>1, <2>2 DEF Survives
  <1>3. ASSUME NEW n \in DOMAIN wal, LastWrite(wal, n, Len(wal), b) PROVE wal[n].payload = device[b]
    <2>1. ~NoWrite(wal, 1, Len(wal), b)
      BY <1>1, <1>3 DEF LastWrite, NoWrite
    <2>2. PICK m \in DOMAIN wal : LastWrite(wal, m, Len(wal), b) /\ device[b] = wal[m].payload
      BY <2>1 DEF Survives
    <2>3. m = n
      BY <1>1, <1>3, <2>2 DEF LastWrite, NoWrite
    <2> QED  BY <2>2, <2>3
  <1> QED  BY <1>2, <1>3 DEF Survives, LastWrite, NoWrite, WriteAt

--------------------------------------------------------------------------------
\* The types of the log and of the ghosts, which the effect on the pool leaves out
LogTypes ==
    /\ wal \in Seq(Record) /\ saved \in 0..Len(wal)
    /\ \A n \in DOMAIN wal : IsPageWrite(wal[n]) => wal[n].block \in Block
    /\ mode \in {"running", "recovering"} /\ replay \in 0..Len(wal)

GhostTypes ==
    /\ durable \in [Block -> Image]
    /\ {image, committed} \subseteq [Block -> Image]
    /\ {may, refused} \subseteq [Block -> SUBSET Image] /\ skipped \in BOOLEAN

LEMMA SplitTypes ==
  TypeOK => LogTypes /\ GhostTypes
  BY DEF TypeOK, LogTypes, GhostTypes

LEMMA AfterPoolEffect ==
  ASSUME PoolEffect, LogTypes', GhostTypes', LogInv' PROVE IInv'
  <1>1. LruComplete' /\ lru' \in Seq(Frame)
    BY DEF PoolEffect, LruComplete, Lists, InUse
  <1>2. \A i \in Frame : frames'[i].state # "Free" => frames'[i].block \in Block
    BY DEF PoolEffect, PoolInv, GoodFrame
  <1>3. TypeOK'
    BY <1>1, <1>2 DEF PoolEffect, LogTypes, GhostTypes, TypeOK
  <1> QED  BY <1>1, <1>3 DEF IInv, PoolEffect

\* The log after an append
LEMMA AppendTypes ==
  ASSUME LogTypes, NEW rec \in Record, IsPageWrite(rec) => rec.block \in Block,
         wal' = Append(wal, rec), mode' = mode, replay' = replay,
         saved' = saved \/ saved' = Len(wal) + 1
  PROVE  LogTypes' /\ \A r : InLog(wal, r) => InLog(wal', r)
  <1>1. /\ wal' \in Seq(Record) /\ Len(wal') = Len(wal) + 1
        /\ wal'[Len(wal) + 1] = rec /\ \A n \in 1..Len(wal) : wal'[n] = wal[n]
        /\ \A r : InLog(wal, r) => InLog(wal', r)
    BY Appended DEF LogTypes
  <1>2. \A n \in DOMAIN wal' : IsPageWrite(wal'[n]) => wal'[n].block \in Block
    <2> SUFFICES ASSUME NEW n \in DOMAIN wal', IsPageWrite(wal'[n]) PROVE wal'[n].block \in Block
      OBVIOUS
    <2>1. n \in 1..Len(wal) \/ n = Len(wal) + 1
      BY <1>1 DEF LogTypes
    <2> QED  BY <1>1, <2>1 DEF LogTypes
  <1> QED  BY <1>1, <1>2 DEF LogTypes

--------------------------------------------------------------------------------
\* A read, or a failed one, keeps the invariant.
LEMMA ReadKeeps ==
  ASSUME IInv, NEW b \in Block, ReadPage(b) \/ ReadFails(b) PROVE IInv' /\ PoolEffect
  <1>0. mode = "running" /\ UNCHANGED <<durable, wal, saved, recovery, crashes, ghosts>>
    BY DEF ReadPage, ReadFails
  <1>1. TypeOK /\ LruComplete /\ PoolInv /\ LogInv /\ LogTypes /\ GhostTypes
    BY SplitTypes DEF IInv
  <1>2. PoolEffect
    <2>1. CASE ReadPage(b)
      BY <1>1, <2>1, ReadPageEffect
    <2>2. CASE ReadFails(b)
      <3>1. FetchFails(b) /\ mode' = mode /\ image' = image /\ wal' = wal
        BY <1>0, <2>2 DEF ReadFails, recovery, ghosts
      <3>2. \A rec : InLog(wal, rec) => InLog(wal', rec)
        BY <3>1
      <3> QED  BY <1>0, <1>1, <3>1, <3>2, FetchFailsEffect
    <2> QED  BY <2>1, <2>2
  <1>3. LogTypes' /\ GhostTypes'
    BY <1>0, <1>1 DEF LogTypes, GhostTypes, recovery, ghosts, IsPageWrite
  <1>4. LogInv'
    <2> SUFFICES ASSUME ~skipped', NEW c \in Block PROVE Survives(c)'
      BY DEF LogInv
    <2>1. Survives(c)
      BY <1>0, <1>1 DEF LogInv, ghosts
    <2>2. device'[c] # device[c] => device'[c] = image[c]
      BY <1>2 DEF PoolEffect
    <2> QED  BY <1>0, <2>1, <2>2, SurvivesQuietStep DEF recovery, ghosts
  <1> QED  BY <1>2, <1>3, <1>4, AfterPoolEffect

\* write_page keeps the invariant: the block may come back with what is logged.
LEMMA WriteKeeps ==
  ASSUME IInv, NEW b \in Block, NEW v \in Image, WritePage(b, v) PROVE IInv' /\ PoolEffect
  <1>0. /\ mode = "running" /\ wal' = Append(wal, PageWrite(b, v)) /\ image' = [image EXCEPT ![b] = v]
        /\ may' = [may EXCEPT ![b] = @ \cup {v}] /\ refused' = [refused EXCEPT ![b] = {}]
        /\ UNCHANGED <<durable, saved, mode, replay, crashes, committed, skipped>>
    BY DEF WritePage, recovery, Logged
  <1>1. TypeOK /\ LruComplete /\ PoolInv /\ LogInv /\ LogTypes /\ GhostTypes
    BY SplitTypes DEF IInv
  <1>2. PoolEffect
    BY <1>1, WritePageEffect
  <1>3. LogTypes'
    BY <1>0, <1>1, RecordTypes, AppendTypes
  <1>4. GhostTypes'
    BY <1>0, <1>1 DEF GhostTypes
  <1>5. LogInv'
    <2> SUFFICES ASSUME ~skipped', NEW c \in Block PROVE Survives(c)'
      BY DEF LogInv
    <2>1. Survives(c)
      BY <1>0, <1>1 DEF LogInv
    <2>2. device'[c] # device[c] => device'[c] = image[c]
      BY <1>2 DEF PoolEffect
    <2>3. image[c] \in may[c]
      BY <1>0, <2>1 DEF Survives
    <2>4. may[c] \subseteq may'[c] /\ image'[c] \in may'[c]
      BY <1>0, <1>1, <2>3 DEF GhostTypes
    <2>5. PageWrite(b, v) \in Record /\ IsPageWrite(PageWrite(b, v))
          /\ PageWrite(b, v).block = b /\ PageWrite(b, v).payload = v
      BY RecordTypes
    <2>6. CASE c = b
      <3>1. v \in may'[c] /\ v \in {image'[c]} \cup refused'[c]
        BY <1>0, <1>1, <2>6 DEF GhostTypes
      <3> QED  BY <1>0, <1>1, <2>1, <2>2, <2>4, <2>5, <2>6, <3>1, SurvivesAppend
    <2>7. CASE c # b
      <3>1. image'[c] = image[c] /\ refused'[c] = refused[c]
        BY <1>0, <1>1, <2>7 DEF GhostTypes
      <3> QED  BY <1>0, <1>1, <2>1, <2>2, <2>4, <2>5, <2>7, <3>1, SurvivesAppend
    <2> QED  BY <2>6, <2>7
  <1> QED  BY <1>2, <1>3, <1>4, <1>5, AfterPoolEffect

\* A write that fails leaves its record in the log: the block may come back with it.
LEMMA WriteFailsKeeps ==
  ASSUME IInv, NEW b \in Block, NEW v \in Image, WriteFails(b, v) PROVE IInv' /\ PoolEffect
  <1>0. /\ mode = "running" /\ wal' = Append(wal, PageWrite(b, v))
        /\ may' = [may EXCEPT ![b] = @ \cup {v}] /\ refused' = [refused EXCEPT ![b] = @ \cup {v}]
        /\ UNCHANGED <<durable, saved, mode, replay, crashes, image, committed, skipped>>
    BY DEF WriteFails, recovery, Logged
  <1>1. TypeOK /\ LruComplete /\ PoolInv /\ LogInv /\ LogTypes /\ GhostTypes
    BY SplitTypes DEF IInv
  <1>2. LogTypes' /\ \A r : InLog(wal, r) => InLog(wal', r)
    BY <1>0, <1>1, RecordTypes, AppendTypes
  <1>3. PoolEffect
    <2>1. CASE FetchFails(b)
      BY <1>0, <1>1, <1>2, <2>1, FetchFailsEffect
    <2>2. CASE UNCHANGED <<device, pool>>
      BY <1>0, <1>1, <1>2, <2>2, IdlePoolEffect DEF pool
    <2> QED  BY <2>1, <2>2 DEF WriteFails
  <1>4. GhostTypes'
    BY <1>0, <1>1 DEF GhostTypes
  <1>5. LogInv'
    <2> SUFFICES ASSUME ~skipped', NEW c \in Block PROVE Survives(c)'
      BY DEF LogInv
    <2>1. Survives(c)
      BY <1>0, <1>1 DEF LogInv
    <2>2. device'[c] # device[c] => device'[c] = image[c]
      BY <1>3 DEF PoolEffect
    <2>3. image[c] \in may[c]
      BY <1>0, <2>1 DEF Survives
    <2>4. may[c] \subseteq may'[c] /\ image'[c] \in may'[c]
      BY <1>0, <1>1, <2>3 DEF GhostTypes
    <2>5. PageWrite(b, v) \in Record /\ IsPageWrite(PageWrite(b, v))
          /\ PageWrite(b, v).block = b /\ PageWrite(b, v).payload = v
      BY RecordTypes
    <2>6. CASE c = b
      <3>1. v \in may'[c] /\ v \in {image'[c]} \cup refused'[c]
        BY <1>0, <1>1, <2>6 DEF GhostTypes
      <3> QED  BY <1>0, <1>1, <2>1, <2>2, <2>4, <2>5, <2>6, <3>1, SurvivesAppend
    <2>7. CASE c # b
      <3>1. image'[c] = image[c] /\ refused'[c] = refused[c]
        BY <1>0, <1>1, <2>7 DEF GhostTypes
      <3> QED  BY <1>0, <1>1, <2>1, <2>2, <2>4, <2>5, <2>7, <3>1, SurvivesAppend
    <2> QED  BY <2>6, <2>7
  <1> QED  BY <1>2, <1>3, <1>4, <1>5, AfterPoolEffect

\* A commit keeps the invariant: from then on a block comes back with its image,
\* or with one whose write was refused.
LEMMA CommitKeeps ==
  ASSUME IInv, CommitOk PROVE IInv' /\ PoolEffect
  <1>0. /\ mode = "running" /\ wal' = Append(wal, Commit) /\ Flush(capacity)
        /\ durable' = device' /\ saved' = Len(wal) + 1 /\ committed' = image
        /\ may' = [b \in Block |-> {image[b]} \cup refused[b]]
        /\ UNCHANGED <<mode, replay, crashes, image, refused, skipped>>
    BY DEF CommitOk, recovery
  <1>1. TypeOK /\ LruComplete /\ PoolInv /\ LogInv /\ LogTypes /\ GhostTypes
    BY SplitTypes DEF IInv
  <1>2. Commit \in Record /\ ~IsPageWrite(Commit)
    BY StorageAssumption DEF Commit, Record, IsPageWrite
  <1>3. LogTypes' /\ \A r : InLog(wal, r) => InLog(wal', r)
    BY <1>0, <1>1, <1>2, AppendTypes
  <1>4. PoolEffect /\ device' = image
    BY <1>0, <1>1, <1>3, FlushEffect, StorageAssumption
  <1>5. GhostTypes'
    BY <1>0, <1>1, <1>4 DEF GhostTypes
  <1>6. LogInv'
    <2> SUFFICES ASSUME ~skipped', NEW c \in Block PROVE Survives(c)'
      BY DEF LogInv
    <2>1. Survives(c)
      BY <1>0, <1>1 DEF LogInv
    <2> QED  BY <1>0, <1>1, <1>4, <2>1, SurvivesCommit
  <1> QED  BY <1>3, <1>4, <1>5, <1>6, AfterPoolEffect

\* A commit that fails half-way keeps the invariant.
LEMMA CommitFailsKeeps ==
  ASSUME IInv, NEW k \in 0..capacity, CommitFails(k) PROVE IInv' /\ PoolEffect
  <1>0. /\ mode = "running" /\ wal' = Append(wal, Commit) /\ Flush(k)
        /\ UNCHANGED <<durable, saved, mode, replay, crashes, image, committed, may, refused, skipped>>
    BY DEF CommitFails, recovery, ghosts
  <1>1. TypeOK /\ LruComplete /\ PoolInv /\ LogInv /\ LogTypes /\ GhostTypes
    BY SplitTypes DEF IInv
  <1>2. Commit \in Record /\ ~IsPageWrite(Commit)
    BY StorageAssumption DEF Commit, Record, IsPageWrite
  <1>3. LogTypes' /\ \A r : InLog(wal, r) => InLog(wal', r)
    BY <1>0, <1>1, <1>2, AppendTypes
  <1>4. PoolEffect
    BY <1>0, <1>1, <1>3, FlushEffect
  <1>5. GhostTypes'
    BY <1>0, <1>1 DEF GhostTypes
  <1>6. LogInv'
    <2> SUFFICES ASSUME ~skipped', NEW c \in Block PROVE Survives(c)'
      BY DEF LogInv
    <2>1. Survives(c)
      BY <1>0, <1>1 DEF LogInv
    <2>2. device'[c] # device[c] => device'[c] = image[c]
      BY <1>4 DEF PoolEffect
    <2>3. image'[c] \in may'[c] /\ may[c] \subseteq may'[c]
          /\ image'[c] = image[c] /\ refused'[c] = refused[c]
      BY <1>0, <2>1 DEF Survives
    <2> QED  BY <1>0, <1>1, <1>2, <2>1, <2>2, <2>3, SurvivesAppend
  <1> QED  BY <1>3, <1>4, <1>5, <1>6, AfterPoolEffect

--------------------------------------------------------------------------------
\* A frame that is not in use agrees with any device and log.
LEMMA FreeFrameGood ==
  ASSUME NEW dev, NEW img, NEW log
  PROVE  /\ FreeFrame \in FrameRecord /\ FreeFrame.block = NoBlock /\ FreeFrame.state = "Free"
         /\ GoodFrame(FreeFrame, dev, img, log)
  <1>1. /\ FreeFrame \in FrameRecord /\ FreeFrame.block = NoBlock /\ FreeFrame.state = "Free"
        /\ FreeFrame.dirty_intent = FALSE
    BY StorageAssumption DEF FreeFrame, FrameRecord, PageState
  <1> HIDE DEF FreeFrame
  <1> QED  BY <1>1, StorageAssumption DEF GoodFrame

\* A crash keeps the invariant, also one in the middle of a replay.
LEMMA CrashKeeps ==
  ASSUME IInv, Crash PROVE IInv'
  <1>0. /\ frames' = [i \in Frame |-> FreeFrame] /\ lru' = <<>>
        /\ mode' = "recovering" /\ replay' = 0 /\ durable' = device'
        /\ UNCHANGED <<saved, image, committed, may, refused, skipped>>
    BY DEF Crash, ghosts
  <1>1. TypeOK /\ LogInv
    BY DEF IInv
  <1>2. PICK n \in saved..Len(wal) : wal' = SubSeq(wal, 1, n)
    BY DEF Crash
  <1>3. PICK lost \in SUBSET Block :
            device' = [b \in Block |-> IF b \in lost THEN durable[b] ELSE device[b]]
    BY DEF Crash
  <1>4. PoolInv' /\ LruComplete' /\ frames' \in [Frame -> FrameRecord] /\ lru' \in Seq(Frame)
    BY <1>0, FreeFrameGood DEF PoolInv, LruComplete, OneFramePerBlock
  <1>5. TypeOK'
    <2>1. device' \in [Block -> Image]
      BY <1>1, <1>3 DEF TypeOK
    <2>2. /\ wal' \in Seq(Record) /\ Len(wal') = n /\ n <= Len(wal) /\ saved \in 0..n
          /\ \A k \in 1..n : wal'[k] = wal[k]
      BY <1>1, <1>2 DEF TypeOK
    <2>3. \A k \in DOMAIN wal' : IsPageWrite(wal'[k]) => wal'[k].block \in Block
      BY <1>1, <2>2 DEF TypeOK
    <2>4. \A i \in Frame : frames'[i].state # "Free" => frames'[i].block \in Block
      BY <1>0 DEF FreeFrame
    <2> QED  BY <1>0, <1>1, <1>4, <2>1, <2>2, <2>3, <2>4 DEF TypeOK
  <1>6. LogInv'
    <2> SUFFICES ASSUME ~skipped', NEW c \in Block PROVE Survives(c)'
      BY DEF LogInv
    <2>1. Survives(c)
      BY <1>0, <1>1 DEF LogInv
    <2>2. device'[c] = device[c] \/ device'[c] = durable[c]
      BY <1>3
    <2> QED  BY <1>0, <1>1, <1>2, <2>1, <2>2, SurvivesCrash
  <1> QED  BY <1>4, <1>5, <1>6 DEF IInv

\* A step of a replay keeps the invariant.
LEMMA ReplayKeeps ==
  ASSUME IInv, Replay PROVE IInv'
  <1>0. /\ mode = "recovering" /\ replay < Len(wal) /\ replay' = replay + 1
        /\ UNCHANGED <<durable, frames, lru, wal, saved, mode, crashes, image, committed, may, refused>>
    BY DEF Replay, pool
  <1>1. TypeOK /\ LruComplete /\ PoolInv /\ LogInv
    BY DEF IInv
  <1>2. wal[replay + 1] \in Record /\ (IsPageWrite(wal[replay + 1]) => wal[replay + 1].block \in Block)
        /\ replay' \in 0..Len(wal)
    BY <1>0, <1>1, ElementType DEF TypeOK
  <1>3. device' \in [Block -> Image] /\ skipped' \in BOOLEAN
    <2>1. CASE device' = Replayed(wal[replay + 1]) /\ UNCHANGED skipped
      BY <1>1, <1>2, <2>1 DEF TypeOK, Replayed, Record
    <2>2. CASE skipped' = TRUE /\ UNCHANGED device
      BY <1>1, <2>2 DEF TypeOK
    <2> QED  BY <2>1, <2>2 DEF Replay
  <1>4. TypeOK'
    BY <1>0, <1>1, <1>2, <1>3 DEF TypeOK, IsPageWrite
  <1>5. PoolInv' /\ LruComplete'
    <2>1. \A i \in Frame : GoodFrame(frames'[i], device', image', wal')
      BY <1>0, <1>1, FreeFrameGood DEF PoolInv
    <2> QED  BY <1>0, <1>1, <2>1 DEF PoolInv, LruComplete, OneFramePerBlock
  <1>6. LogInv'
    <2> SUFFICES ASSUME ~skipped', NEW c \in Block PROVE Survives(c)'
      BY DEF LogInv
    <2>1. device' = Replayed(wal[replay + 1]) /\ ~skipped
      BY DEF Replay
    <2>2. Survives(c)
      BY <1>1, <2>1 DEF LogInv
    <2> QED  BY <1>0, <1>1, <2>1, <2>2, SurvivesReplay
  <1> QED  BY <1>1, <1>4, <1>5, <1>6 DEF IInv

\* The return of recover keeps the invariant.
LEMMA RecoveredKeeps ==
  ASSUME IInv, Recovered PROVE IInv'
  <1>0. /\ mode = "recovering" /\ replay = Len(wal) /\ mode' = "running" /\ image' = device
        /\ UNCHANGED <<device, durable, frames, lru, wal, saved, replay, crashes,
                       committed, may, refused, skipped>>
    BY DEF Recovered, pool
  <1>1. TypeOK /\ LruComplete /\ PoolInv /\ LogInv
    BY DEF IInv
  <1>2. TypeOK'
    BY <1>0, <1>1 DEF TypeOK, IsPageWrite
  <1>3. PoolInv' /\ LruComplete'
    <2>1. \A i \in Frame : frames'[i] = FreeFrame
      BY <1>0, <1>1 DEF PoolInv
    <2>2. \A i \in Frame : GoodFrame(frames'[i], device', image', wal')
      BY <2>1, FreeFrameGood
    <2> QED  BY <1>0, <1>1, <2>2 DEF PoolInv, LruComplete, OneFramePerBlock
  <1>4. LogInv'
    <2> SUFFICES ASSUME ~skipped', NEW c \in Block PROVE Survives(c)'
      BY DEF LogInv
    <2>1. Survives(c)
      BY <1>0, <1>1 DEF LogInv
    <2> QED  BY <1>0, <1>1, <2>1, SurvivesRecovered
  <1> QED  BY <1>2, <1>3, <1>4 DEF IInv

--------------------------------------------------------------------------------
\* The invariant holds at the start and is kept by every step.
LEMMA InitIInv ==
  Init => IInv
  <1> SUFFICES ASSUME Init PROVE IInv
    OBVIOUS
  <1>1. PoolInv /\ LruComplete /\ frames \in [Frame -> FrameRecord] /\ lru \in Seq(Frame)
    BY FreeFrameGood DEF Init, PoolInv, LruComplete, OneFramePerBlock
  <1>2. TypeOK
    <2>1. \A i \in Frame : frames[i].state # "Free" => frames[i].block \in Block
      BY DEF Init, FreeFrame
    <2>2. device \in [Block -> Image] /\ may \in [Block -> SUBSET Image] /\ refused \in [Block -> SUBSET Image]
      BY StorageAssumption DEF Init
    <2>3. wal \in Seq(Record) /\ Len(wal) = 0 /\ DOMAIN wal = {}
      BY DEF Init
    <2>4. /\ saved = 0 /\ replay = 0 /\ mode = "running" /\ skipped = FALSE
          /\ durable = device /\ image = device /\ committed = device
      BY DEF Init
    <2>5. saved \in 0..Len(wal) /\ replay \in 0..Len(wal)
      BY <2>3, <2>4
    <2> QED  BY <1>1, <2>1, <2>2, <2>3, <2>4, <2>5 DEF TypeOK
  <1>3. ASSUME NEW b \in Block PROVE Survives(b)
    BY DEF Init, Survives, NoWrite, LastWrite
  <1> QED  BY <1>1, <1>2, <1>3 DEF IInv, LogInv

LEMMA StepIInv ==
  IInv /\ [Next]_vars => IInv'
  <1> SUFFICES ASSUME IInv, [Next]_vars PROVE IInv'
    OBVIOUS
  <1>1. ASSUME NEW b \in Block, ReadPage(b) \/ ReadFails(b) PROVE IInv'
    BY <1>1, ReadKeeps
  <1>2. ASSUME NEW b \in Block, NEW v \in Image, WritePage(b, v) PROVE IInv'
    BY <1>2, WriteKeeps
  <1>3. ASSUME NEW b \in Block, NEW v \in Image, WriteFails(b, v) PROVE IInv'
    BY <1>3, WriteFailsKeeps
  <1>4. CASE CommitOk
    BY <1>4, CommitKeeps
  <1>5. ASSUME NEW k \in 0..capacity, CommitFails(k) PROVE IInv'
    BY <1>5, CommitFailsKeeps
  <1>6. CASE Crash
    BY <1>6, CrashKeeps
  <1>7. CASE Replay
    BY <1>7, ReplayKeeps
  <1>8. CASE Recovered
    BY <1>8, RecoveredKeeps
  <1>9. CASE UNCHANGED vars
    <2>1. TypeOK' /\ LruComplete'
      BY <1>9 DEF vars, IInv, TypeOK, LruComplete, IsPageWrite
    <2>2. PoolInv'
      BY <1>9 DEF vars, IInv, PoolInv, GoodFrame, OneFramePerBlock, Resident, Holds
    <2>3. LogInv'
      <3>1. \A b \in Block : Survives(b) => Survives(b)'
        BY <1>9 DEF vars, Survives, WriteAt, NoWrite, LastWrite, IsPageWrite
      <3> QED  BY <1>9, <3>1 DEF vars, IInv, LogInv
    <2> QED  BY <2>1, <2>2, <2>3 DEF IInv
  <1> QED  BY <1>1, <1>2, <1>3, <1>4, <1>5, <1>6, <1>7, <1>8, <1>9 DEF Next

\* For any blocks, images, pool size and bounds: the pool is well formed after
\* every call, a read returns what was last written whatever was evicted, flushed
\* or failed in between, and what was committed survives any number of crashes,
\* also during recovery (BufferPool::fetch, flush_all; StorageEngine::commit,
\* recover).
THEOREM StorageIsSound == Spec => []StorageSound
  <1>1. IInv => StorageSound
    <2> SUFFICES ASSUME IInv PROVE StorageSound
      OBVIOUS
    <2>1. PoolConsistent
      BY DEF IInv, PoolInv, PoolConsistent
    <2>2. Coherent
      BY DEF IInv, PoolInv, GoodFrame, Coherent, Holds
    <2>3. CommittedSurvives
      BY DEF IInv, LogInv, Survives, CommittedSurvives
    <2> QED  BY <2>1, <2>2, <2>3 DEF StorageSound
  <1> QED  BY <1>1, InitIInv, StepIInv, PTL DEF Spec

\* The write-ahead rule: while the engine runs, no step (an eviction, a flush that
\* got half-way, a failed fetch) puts a page on the device that is not in the log
\* (StorageEngine::write_page appends before it fetches the frame).
THEOREM WriteAheadHolds == Spec => WriteAhead
  <1> DEFINE A == mode = "running" /\ mode' = "running" =>
                    \A b \in Block : device'[b] # device[b] =>
                        \E n \in DOMAIN wal : wal[n] = PageWrite(b, device'[b])
  <1>1. PoolEffect => A
    BY DEF PoolEffect, InLog
  <1>2. ASSUME IInv, Next PROVE A
    <2>1. ASSUME NEW b \in Block, ReadPage(b) \/ ReadFails(b) PROVE A
      BY <1>1, <1>2, <2>1, ReadKeeps
    <2>2. ASSUME NEW b \in Block, NEW v \in Image, WritePage(b, v) PROVE A
      BY <1>1, <1>2, <2>2, WriteKeeps
    <2>3. ASSUME NEW b \in Block, NEW v \in Image, WriteFails(b, v) PROVE A
      BY <1>1, <1>2, <2>3, WriteFailsKeeps
    <2>4. CASE CommitOk
      BY <1>1, <1>2, <2>4, CommitKeeps
    <2>5. ASSUME NEW k \in 0..capacity, CommitFails(k) PROVE A
      BY <1>1, <1>2, <2>5, CommitFailsKeeps
    <2>6. CASE Crash \/ Replay \/ Recovered
      BY <2>6 DEF Crash, Replay, Recovered
    <2> HIDE DEF A
    <2> QED  BY <1>2, <2>1, <2>2, <2>3, <2>4, <2>5, <2>6 DEF Next
  <1>3. IInv /\ [Next]_vars => [A]_vars
    BY <1>2
  <1>4. Spec => [][A]_vars
    BY <1>3, InitIInv, StepIInv, PTL DEF Spec
  <1> QED  BY <1>4 DEF WriteAhead
================================================================================
