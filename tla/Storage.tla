--------------------------------- MODULE Storage ---------------------------------
(****************************************************************************)
(* The storage engine of tpt-archon-core: a buffer pool with LRU eviction   *)
(* over a block device, and a write-ahead log that is replayed after a      *)
(* crash.                                                                   *)
(*                                                                          *)
(* The log is kept in memory; saving wal_bytes is left to the caller, who   *)
(* is external: it saves the log with each commit.  A crash keeps a prefix  *)
(* of the log that holds at least that (from_bytes cuts a torn record off), *)
(* and of the pages written since the last sync any may be lost.  Any       *)
(* device call may fail.                                                    *)
(*                                                                          *)
(* An image stands for the bytes of a page.  The LSN of a record is its     *)
(* position in the log; frames that the pool has not grown to yet are Free  *)
(* frames at the end.                                                       *)
(****************************************************************************)
EXTENDS Naturals, Sequences, FiniteSets

CONSTANTS Block, Image,
          Zero,             \* the image of a fresh device
          NoBlock,          \* BlockId::MAX
          capacity,
          MaxLog,           \* bound: records in the log
          MaxPins,          \* bound: pins of a frame
          MaxCrashes        \* bound: crashes, not counting those during recovery

ASSUME StorageAssumption ==
    /\ Zero \in Image /\ NoBlock \notin Block
    /\ capacity \in Nat \ {0} /\ MaxLog \in Nat /\ MaxPins \in Nat /\ MaxCrashes \in Nat

Frame == 1..capacity

VARIABLES device,           \* what read_block returns
          durable,          \* what was on the device at the last sync
          frames, lru,      \* the buffer pool
          wal,              \* the log of the running engine
          saved,            \* how many records of it the caller has saved, with the last commit
          mode,             \* running, or in recover
          replay,           \* recover: the number of records replayed
          crashes,
          image,            \* ghost: what was last written to each block
          committed,        \* ghost: image at the last successful commit
          may,              \* ghost: what a block may come back with after a crash
          refused,          \* ghost: images logged for a block by writes refused since
          skipped           \* ghost: a replay has passed over a page it could not write

pool == <<frames, lru>>
recovery == <<mode, replay>>
ghosts == <<image, committed, may, refused, skipped>>
vars == <<device, durable, frames, lru, wal, saved, mode, replay, crashes,
          image, committed, may, refused, skipped>>

PageState == {"Free", "Clean", "Dirty", "Pinned"}

FreeFrame == [block |-> NoBlock, page |-> Zero, state |-> "Free",
              pins |-> 0, dirty_intent |-> FALSE]

PageWrite(b, v) == [kind |-> "PageWrite", block |-> b, payload |-> v]

Commit == [kind |-> "Commit", block |-> NoBlock, payload |-> Zero]

IsPageWrite(rec) == rec.kind = "PageWrite"

Init ==
    /\ device = [b \in Block |-> Zero] /\ durable = device
    /\ frames = [i \in Frame |-> FreeFrame] /\ lru = <<>>
    /\ wal = <<>> /\ saved = 0 /\ mode = "running" /\ replay = 0 /\ crashes = 0
    /\ image = device /\ committed = device
    /\ may = [b \in Block |-> {Zero}] /\ refused = [b \in Block |-> {}]
    /\ skipped = FALSE

--------------------------------------------------------------------------------
\* The buffer pool
Position(i) == CHOOSE p \in DOMAIN lru : lru[p] = i

Without(i) ==
    IF \E p \in DOMAIN lru : lru[p] = i
    THEN SubSeq(lru, 1, Position(i) - 1) \o SubSeq(lru, Position(i) + 1, Len(lru))
    ELSE lru

Touch(i) == Append(Without(i), i)

\* BufferPool::find looks at Free frames too
Holds(i, b) == frames[i].block = b

\* Pinned frames are overlooked
Resident_Mut(b) == \E i \in Frame : Holds(i, b) /\ frames[i].state # "Pinned"

Resident(b) == \E i \in Frame : Holds(i, b)

FirstFree(i) ==
    /\ frames[i].state = "Free"
    /\ \A j \in Frame : j < i => frames[j].state # "Free"

Victim(i) ==
    \E p \in DOMAIN lru :
        /\ lru[p] = i
        /\ frames[i].state # "Pinned"
        /\ \A q \in 1..p - 1 : frames[lru[q]].state = "Pinned"

Acquirable(i) ==
    \/ FirstFree(i)
    \/ /\ \A j \in Frame : frames[j].state # "Free"
       /\ Victim(i)

AllFramesPinned == \A i \in Frame : ~Acquirable(i)

\* A dirty page is dropped on eviction
WrittenBack_Mut(i) == device

WrittenBack(i) ==
    IF frames[i].state = "Dirty"
    THEN [device EXCEPT ![frames[i].block] = frames[i].page]
    ELSE device

Freed(i) == [frames EXCEPT ![i].state = "Free", ![i].dirty_intent = FALSE]

\* pin_frame
PinFrame(f) ==
    [f EXCEPT !.pins = IF f.state = "Pinned" THEN f.pins + 1 ELSE 1, !.state = "Pinned"]

Unpin(f) ==
    IF f.pins > 1 THEN [f EXCEPT !.pins = @ - 1]
                  ELSE [f EXCEPT !.pins = 0,
                                 !.state = IF f.dirty_intent THEN "Dirty" ELSE "Clean"]

Loaded(b, dev) == [block |-> b, page |-> dev[b], state |-> "Pinned",
                   pins |-> 1, dirty_intent |-> FALSE]

\* fetch_mut, the copy of the page and unpin
Modified(f, v) == Unpin([f EXCEPT !.page = v, !.dirty_intent = TRUE])

--------------------------------------------------------------------------------
\* StorageEngine::read_page: the page stays pinned.
ReadPage(b) ==
    /\ mode = "running"
    /\ \/ \E i \in Frame :
             /\ Holds(i, b)
             /\ frames[i].pins < MaxPins
             /\ frames' = [frames EXCEPT ![i] = PinFrame(@)]
             /\ lru' = Touch(i)
             /\ UNCHANGED device
       \/ \E i \in Frame :
             /\ ~Resident(b) /\ Acquirable(i)
             /\ device' = WrittenBack(i)
             /\ frames' = [frames EXCEPT ![i] = Loaded(b, WrittenBack(i))]
             /\ lru' = Touch(i)
    /\ UNCHANGED <<durable, wal, saved, recovery, crashes, ghosts>>

\* The device fails after a frame was acquired: the frame is left Free, with the
\* block and the page it held.
FetchFails(b) ==
    \E i \in Frame :
        /\ ~Resident(b) /\ Acquirable(i)
        /\ device' = WrittenBack(i)
        /\ frames' = Freed(i)
        /\ lru' = Without(i)

ReadFails(b) ==
    /\ mode = "running"
    /\ FetchFails(b)
    /\ UNCHANGED <<durable, wal, saved, recovery, crashes, ghosts>>

\* Only a page that is not resident is logged
Logged_Mut(b, v) == IF Resident(b) THEN wal ELSE Append(wal, PageWrite(b, v))

Logged(b, v) == Append(wal, PageWrite(b, v))

\* StorageEngine::write_page
WritePage(b, v) ==
    /\ mode = "running" /\ Len(wal) < MaxLog
    /\ wal' = Logged(b, v)
    /\ \/ \E i \in Frame :
             /\ Holds(i, b)
             /\ frames' = [frames EXCEPT ![i] = Modified(PinFrame(@), v)]
             /\ lru' = Touch(i)
             /\ UNCHANGED device
       \/ \E i \in Frame :
             /\ ~Resident(b) /\ Acquirable(i)
             /\ device' = WrittenBack(i)
             /\ frames' = [frames EXCEPT ![i] = Modified(Loaded(b, WrittenBack(i)), v)]
             /\ lru' = Touch(i)
    /\ image' = [image EXCEPT ![b] = v]
    /\ may' = [may EXCEPT ![b] = @ \cup {v}]
    /\ refused' = [refused EXCEPT ![b] = {}]
    /\ UNCHANGED <<durable, saved, recovery, crashes, committed, skipped>>

\* The record of a write that fails stays in the log.
WriteFails(b, v) ==
    /\ mode = "running" /\ Len(wal) < MaxLog
    /\ wal' = Logged(b, v)
    /\ \/ FetchFails(b)
       \/ /\ ~Resident(b)
          /\ AllFramesPinned \/ \E i \in Frame : Acquirable(i) /\ frames[i].state = "Dirty"
          /\ UNCHANGED <<device, pool>>
    /\ may' = [may EXCEPT ![b] = @ \cup {v}]
    /\ refused' = [refused EXCEPT ![b] = @ \cup {v}]
    /\ UNCHANGED <<durable, saved, recovery, crashes, image, committed, skipped>>

--------------------------------------------------------------------------------
NeedsFlush(f) == f.state = "Dirty" \/ (f.dirty_intent /\ f.state = "Pinned")

Flushed(f) ==
    [f EXCEPT !.dirty_intent = FALSE, !.state = IF @ = "Dirty" THEN "Clean" ELSE @]

\* flush_all has written the first k frames that need it
Flush(k) ==
    /\ frames' = [i \in Frame |-> IF i <= k /\ NeedsFlush(frames[i]) THEN Flushed(frames[i])
                                  ELSE frames[i]]
    /\ device' = [b \in Block |->
          IF \E i \in 1..k : Holds(i, b) /\ NeedsFlush(frames[i])
          THEN frames[CHOOSE i \in 1..k : Holds(i, b)].page
          ELSE device[b]]
    /\ UNCHANGED lru

\* StorageEngine::commit
CommitOk ==
    /\ mode = "running" /\ Len(wal) < MaxLog
    /\ wal' = Append(wal, Commit)
    /\ Flush(capacity)
    /\ durable' = device'
    /\ saved' = Len(wal) + 1
    /\ committed' = image
    /\ may' = [b \in Block |-> {image[b]} \cup refused[b]]
    /\ UNCHANGED <<recovery, crashes, image, refused, skipped>>

\* A write of the flush, or the sync, fails; the commit record is in the log.
CommitFails(k) ==
    /\ mode = "running" /\ Len(wal) < MaxLog
    /\ wal' = Append(wal, Commit)
    /\ k < capacity => NeedsFlush(frames[k + 1])
    /\ Flush(k)
    /\ UNCHANGED <<durable, saved, recovery, crashes, ghosts>>

--------------------------------------------------------------------------------
\* A new engine over the device, to which recover passes the log that is left
Crash ==
    /\ \/ mode = "running" /\ crashes < MaxCrashes /\ crashes' = crashes + 1
       \/ mode = "recovering" /\ UNCHANGED crashes
    /\ \E lost \in SUBSET Block :
          device' = [b \in Block |-> IF b \in lost THEN durable[b] ELSE device[b]]
    /\ durable' = device'
    /\ \E n \in saved..Len(wal) : wal' = SubSeq(wal, 1, n)
    /\ frames' = [i \in Frame |-> FreeFrame] /\ lru' = <<>>
    /\ mode' = "recovering" /\ replay' = 0
    /\ UNCHANGED <<saved, ghosts>>

\* A page that is already on the device is not written again
Replayed_Mut(rec) == IF IsPageWrite(rec) /\ device[rec.block] = Zero
                     THEN [device EXCEPT ![rec.block] = rec.payload] ELSE device

Replayed(rec) == IF IsPageWrite(rec) THEN [device EXCEPT ![rec.block] = rec.payload] ELSE device

\* StorageEngine::recover, one record; a page that cannot be written is passed over
Replay ==
    /\ mode = "recovering" /\ replay < Len(wal)
    /\ \/ device' = Replayed(wal[replay + 1]) /\ UNCHANGED skipped
       \/ IsPageWrite(wal[replay + 1]) /\ skipped' = TRUE /\ UNCHANGED device
    /\ replay' = replay + 1
    /\ UNCHANGED <<durable, pool, wal, saved, mode, crashes, image, committed, may, refused>>

\* recover returns
Recovered ==
    /\ mode = "recovering" /\ replay = Len(wal)
    /\ mode' = "running"
    /\ image' = device
    /\ UNCHANGED <<device, durable, pool, wal, saved, replay, crashes,
                   committed, may, refused, skipped>>

Next ==
    \/ \E b \in Block :
          \/ ReadPage(b)
          \/ ReadFails(b)
          \/ \E v \in Image : WritePage(b, v) \/ WriteFails(b, v)
    \/ CommitOk
    \/ \E k \in 0..capacity : CommitFails(k)
    \/ Crash
    \/ Replay
    \/ Recovered

Spec == Init /\ [][Next]_vars

--------------------------------------------------------------------------------
FrameRecord == [block : Block \cup {NoBlock}, page : Image, state : PageState,
                pins : Nat, dirty_intent : BOOLEAN]

Record == [kind : {"PageWrite", "Commit"}, block : Block \cup {NoBlock}, payload : Image]

\* The device, the pool and the log are well formed; only frames that hold a
\* block are in use.
TypeOK ==
    /\ device \in [Block -> Image] /\ durable \in [Block -> Image]
    /\ frames \in [Frame -> FrameRecord]
    /\ \A i \in Frame : frames[i].state # "Free" => frames[i].block \in Block
    /\ lru \in Seq(Frame)
    /\ wal \in Seq(Record) /\ saved \in 0..Len(wal)
    /\ \A n \in DOMAIN wal : IsPageWrite(wal[n]) => wal[n].block \in Block
    /\ mode \in {"running", "recovering"} /\ replay \in 0..Len(wal)
    /\ {image, committed} \subseteq [Block -> Image]
    /\ {may, refused} \subseteq [Block -> SUBSET Image] /\ skipped \in BOOLEAN

\* The pool never holds a block twice, not even in a frame that was left Free by
\* a failed read, so that two images of a page can never compete.
OneFramePerBlock ==
    \A i, j \in Frame : frames[i].block = frames[j].block /\ frames[i].block # NoBlock => i = j

\* Eviction finds every frame in use: lru holds each of them once and no other.
LruComplete ==
    /\ \A i \in Frame : frames[i].state # "Free" <=> \E p \in DOMAIN lru : lru[p] = i
    /\ \A p, q \in DOMAIN lru : lru[p] = lru[q] => p = q

\* The buffer pool is well formed after every call, failed ones included.
PoolConsistent == TypeOK /\ OneFramePerBlock /\ LruComplete

\* A read returns the image last written to the block, whether it was evicted,
\* flushed, reloaded or written by a commit that failed half-way in between.
Coherent ==
    mode = "running" =>
        \A b \in Block :
            /\ \A i \in Frame : Holds(i, b) => frames[i].page = image[b]
            /\ ~Resident(b) => device[b] = image[b]

\* The write-ahead rule: while the engine runs, a page reaches the device only
\* with an image that is in the log.
WriteAhead ==
    [][mode = "running" /\ mode' = "running" =>
          \A b \in Block : device'[b] # device[b] =>
              \E n \in DOMAIN wal : wal[n] = PageWrite(b, device'[b])]_vars

\* Provided the caller saves the log with each commit and recover could write
\* every page, a block comes back from a crash, even one during recovery, with
\* its image at the last commit or with one logged after it.
CommittedSurvives ==
    mode = "running" /\ ~skipped => \A b \in Block : image[b] \in may[b]

\* What a caller relies on: the pool is well formed, reads are coherent, and what
\* was committed survives.
StorageSound == PoolConsistent /\ Coherent /\ CommittedSurvives

\* The doc of recover: uncommitted trailing pages are dropped.
UncommittedDropped ==
    [][Recovered /\ ~skipped => \A b \in Block : device[b] = committed[b]]_vars
================================================================================
