--------------------------- MODULE StoragePoolProofs ---------------------------
(****************************************************************************)
(* What every call of the storage engine does to its buffer pool, for any   *)
(* blocks, images and capacity: the lemmas StorageProofs rests on.          *)
(*                                                                          *)
(* PoolInv relates frames, device and log: a frame whose page is not to be  *)
(* written holds what the device holds, any other frame a page that is in   *)
(* the log.                                                                 *)
(****************************************************************************)
EXTENDS Storage, TLAPS

\* An element of a sequence has the type of its elements.
LEMMA ElementType ==
  ASSUME NEW S, NEW q \in Seq(S), NEW i \in 1..Len(q) PROVE q[i] \in S
  OBVIOUS

--------------------------------------------------------------------------------
InLog(log, rec) == \E n \in DOMAIN log : log[n] = rec

\* A frame agrees with the image of its block, and with the device unless it
\* still has to be written, in which case its page is in the log.
GoodFrame(f, dev, img, log) ==
    /\ f \in FrameRecord
    /\ f.state # "Free" => f.block \in Block
    /\ f.state = "Dirty" => f.dirty_intent
    /\ f.state \in {"Free", "Clean"} => ~f.dirty_intent
    /\ f.block \in Block =>
          f.page = img[f.block] /\ (~f.dirty_intent => dev[f.block] = f.page)
    /\ f.dirty_intent => InLog(log, PageWrite(f.block, f.page))

PoolInv ==
    /\ DOMAIN frames = Frame
    /\ \A i \in Frame : GoodFrame(frames[i], device, image, wal)
    /\ OneFramePerBlock
    /\ mode = "running" => \A b \in Block : ~Resident(b) => device[b] = image[b]
    /\ mode = "recovering" => \A i \in Frame : frames[i] = FreeFrame

--------------------------------------------------------------------------------
\* q lists the frames of S, each once.
Lists(q, S) ==
    /\ q \in Seq(Frame)
    /\ \A i \in Frame : i \in S <=> \E p \in DOMAIN q : q[p] = i
    /\ \A p, r \in DOMAIN q : q[p] = q[r] => p = r

\* Taking a frame out of the list leaves the others.
LEMMA WithoutLists ==
  ASSUME NEW i \in Frame, NEW S, Lists(lru, S) PROVE Lists(Without(i), S \ {i})
  <1>1. CASE \E p \in DOMAIN lru : lru[p] = i
    <2> DEFINE x == Position(i)
               a == SubSeq(lru, 1, x - 1)
               b == SubSeq(lru, x + 1, Len(lru))
               w == a \o b
    <2>1. x \in 1..Len(lru) /\ lru[x] = i /\ lru \in Seq(Frame)
      BY <1>1 DEF Position, Lists
    <2>2. a \in Seq(Frame) /\ Len(a) = x - 1 /\ \A p \in 1..x - 1 : a[p] = lru[p]
      BY <2>1
    <2>3. b \in Seq(Frame) /\ Len(b) = Len(lru) - x /\ \A p \in 1..Len(lru) - x : b[p] = lru[x + p]
      BY <2>1
    <2>4. w \in Seq(Frame) /\ Len(w) = Len(lru) - 1
          /\ \A p \in 1..Len(w) : w[p] = IF p < x THEN lru[p] ELSE lru[p + 1]
      <3> HIDE DEF a, b, x
      <3> QED  BY <2>1, <2>2, <2>3
    <2>5. Without(i) = w
      BY <1>1 DEF Without
    <2> HIDE DEF w, x
    <2>6. ASSUME NEW j \in Frame PROVE j \in S \ {i} <=> \E p \in DOMAIN w : w[p] = j
      <3>1. ASSUME NEW p \in DOMAIN w, w[p] = j PROVE j \in S \ {i}
        <4>1. PICK r \in DOMAIN lru : r # x /\ lru[r] = j
          <5>1. p < x => p \in DOMAIN lru /\ p # x /\ lru[p] = j
            BY <2>1, <2>4, <3>1
          <5>2. ~(p < x) => p + 1 \in DOMAIN lru /\ p + 1 # x /\ lru[p + 1] = j
            BY <2>1, <2>4, <3>1
          <5> QED  BY <5>1, <5>2
        <4> QED  BY <2>1, <4>1 DEF Lists
      <3>2. ASSUME j \in S, j # i PROVE \E p \in DOMAIN w : w[p] = j
        <4>1. PICK p \in DOMAIN lru : lru[p] = j
          BY <3>2 DEF Lists
        <4>2. p < x => p \in DOMAIN w /\ w[p] = j
          BY <2>1, <2>4, <4>1
        <4>3. p > x => p - 1 \in DOMAIN w /\ w[p - 1] = j
          BY <2>1, <2>4, <4>1
        <4> QED  BY <2>1, <3>2, <4>1, <4>2, <4>3
      <3> QED  BY <3>1, <3>2
    <2>7. ASSUME NEW p \in DOMAIN w, NEW r \in DOMAIN w, w[p] = w[r] PROVE p = r
      <3> DEFINE y(n) == IF n < x THEN n ELSE n + 1
      <3>1. y(p) \in DOMAIN lru /\ y(r) \in DOMAIN lru /\ lru[y(p)] = lru[y(r)]
        BY <2>1, <2>4, <2>7
      <3>2. y(p) = y(r)
        BY <3>1 DEF Lists
      <3> QED  BY <2>1, <2>4, <3>2
    <2> QED  BY <2>4, <2>5, <2>6, <2>7 DEF Lists
  <1>2. CASE ~\E p \in DOMAIN lru : lru[p] = i
    BY <1>2 DEF Without, Lists
  <1> QED  BY <1>1, <1>2

\* A frame that is touched is in the list.
LEMMA TouchLists ==
  ASSUME NEW i \in Frame, NEW S, Lists(lru, S) PROVE Lists(Touch(i), S \cup {i})
  <1> DEFINE w == Without(i)
  <1>1. Lists(w, S \ {i})
    BY WithoutLists
  <1> HIDE DEF w
  <1>2. w \in Seq(Frame) /\ Append(w, i) \in Seq(Frame) /\ Len(Append(w, i)) = Len(w) + 1
        /\ Append(w, i)[Len(w) + 1] = i /\ \A p \in 1..Len(w) : Append(w, i)[p] = w[p]
    BY <1>1 DEF Lists
  <1>3. ASSUME NEW j \in Frame
        PROVE  j \in S \cup {i} <=> \E p \in DOMAIN Append(w, i) : Append(w, i)[p] = j
    <2>1. DOMAIN w = 1..Len(w) /\ DOMAIN Append(w, i) = 1..Len(w) + 1
      BY <1>2
    <2>2. j \in S \ {i} <=> \E p \in 1..Len(w) : w[p] = j
      BY <1>1, <2>1 DEF Lists
    <2>3. \A p \in 1..Len(w) + 1 : p \in 1..Len(w) \/ p = Len(w) + 1
      BY <1>2
    <2>4. \A p \in 1..Len(w) : p \in 1..Len(w) + 1
      BY <1>2
    <2>5. Len(w) + 1 \in 1..Len(w) + 1
      BY <1>2
    <2> HIDE DEF Lists
    <2> QED  BY <1>2, <2>1, <2>2, <2>3, <2>4, <2>5
  <1>4. ASSUME NEW p \in DOMAIN Append(w, i), NEW r \in DOMAIN Append(w, i),
               Append(w, i)[p] = Append(w, i)[r]
        PROVE  p = r
    BY <1>1, <1>2, <1>4 DEF Lists
  <1> QED  BY <1>2, <1>3, <1>4 DEF Lists, Touch, w

--------------------------------------------------------------------------------
\* pin_frame keeps a good frame good.
LEMMA PinGood ==
  ASSUME NEW f, NEW dev, NEW img, NEW log, GoodFrame(f, dev, img, log), f.block \in Block
  PROVE  /\ GoodFrame(PinFrame(f), dev, img, log)
         /\ PinFrame(f).block = f.block /\ PinFrame(f).state = "Pinned"
  <1> DEFINE n == IF f.state = "Pinned" THEN f.pins + 1 ELSE 1
             g == [f EXCEPT !.pins = n, !.state = "Pinned"]
  <1>1. f \in FrameRecord /\ n \in Nat
    BY DEF GoodFrame, FrameRecord
  <1> HIDE DEF n
  <1>2. g \in FrameRecord /\ g.block = f.block /\ g.page = f.page
        /\ g.dirty_intent = f.dirty_intent /\ g.state = "Pinned"
    BY <1>1 DEF FrameRecord, PageState
  <1>3. PinFrame(f) = g
    BY DEF PinFrame, n
  <1> HIDE DEF g
  <1> QED  BY <1>2, <1>3 DEF GoodFrame

\* A page that was copied into a pinned frame and logged makes a good frame.
LEMMA ModifiedGood ==
  ASSUME NEW f \in FrameRecord, NEW dev, NEW img, NEW log, NEW v \in Image,
         f.block \in Block, f.state = "Pinned", img[f.block] = v, InLog(log, PageWrite(f.block, v))
  PROVE  /\ GoodFrame(Modified(f, v), dev, img, log)
         /\ Modified(f, v).block = f.block /\ Modified(f, v).state # "Free"
  <1> DEFINE g == [f EXCEPT !.page = v, !.dirty_intent = TRUE]
  <1>1. g \in FrameRecord /\ g.block = f.block /\ g.page = v /\ g.dirty_intent = TRUE
        /\ g.state = "Pinned" /\ g.pins \in Nat
    BY DEF FrameRecord, PageState
  <1>2. Modified(f, v) = Unpin(g)
    BY DEF Modified
  <1> HIDE DEF g
  <1>3. Unpin(g) \in FrameRecord /\ Unpin(g).block = f.block /\ Unpin(g).page = v
        /\ Unpin(g).dirty_intent = TRUE /\ Unpin(g).state \in {"Pinned", "Dirty"}
    <2>1. CASE g.pins > 1
      <3>1. Unpin(g) = [g EXCEPT !.pins = g.pins - 1] /\ g.pins - 1 \in Nat
        BY <1>1, <2>1 DEF Unpin
      <3> QED  BY <1>1, <3>1 DEF FrameRecord
    <2>2. CASE ~(g.pins > 1)
      <3> DEFINE h == [g EXCEPT !.pins = 0, !.state = "Dirty"]
      <3>1. h \in FrameRecord /\ h.block = g.block /\ h.page = g.page
            /\ h.dirty_intent = g.dirty_intent /\ h.state = "Dirty"
        BY <1>1 DEF FrameRecord, PageState
      <3>2. Unpin(g) = h
        BY <1>1, <2>2 DEF Unpin
      <3> HIDE DEF h
      <3> QED  BY <1>1, <3>1, <3>2
    <2> QED  BY <2>1, <2>2
  <1> QED  BY <1>2, <1>3 DEF GoodFrame

\* A frame that may be acquired is not pinned.
LEMMA AcquirableNotPinned ==
  ASSUME NEW i \in Frame, Acquirable(i) PROVE frames[i].state # "Pinned"
  BY DEF Acquirable, FirstFree, Victim

\* Writing back a frame that is not pinned leaves the device with the image of
\* its block, and writes only what is in the log.
LEMMA WrittenBackFacts ==
  ASSUME TypeOK, PoolInv, NEW i \in Frame, frames[i].state # "Pinned"
  PROVE  /\ WrittenBack(i) \in [Block -> Image]
         /\ \A c \in Block : WrittenBack(i)[c] = IF c = frames[i].block THEN image[c] ELSE device[c]
         /\ \A c \in Block : WrittenBack(i)[c] # device[c] => InLog(wal, PageWrite(c, WrittenBack(i)[c]))
  <1> DEFINE f == frames[i]
  <1>1. GoodFrame(f, device, image, wal) /\ device \in [Block -> Image]
    BY DEF PoolInv, TypeOK
  <1> HIDE DEF f
  <1>2. WrittenBack(i) = IF f.state = "Dirty" THEN [device EXCEPT ![f.block] = f.page] ELSE device
    BY DEF WrittenBack, f
  <1>3. f.state # "Pinned" /\ f.state \in PageState /\ f.page \in Image
    BY <1>1 DEF f, GoodFrame, FrameRecord
  <1>4. CASE f.state = "Dirty"
    <2>1. f.block \in Block /\ f.page = image[f.block] /\ InLog(wal, PageWrite(f.block, f.page))
      BY <1>1, <1>4 DEF GoodFrame
    <2> QED  BY <1>1, <1>2, <1>3, <1>4, <2>1 DEF f
  <1>5. CASE f.state # "Dirty"
    <2>1. f.block \in Block => device[f.block] = image[f.block]
      BY <1>1, <1>3, <1>5 DEF GoodFrame, PageState
    <2> QED  BY <1>1, <1>2, <1>5, <2>1 DEF f
  <1> QED  BY <1>4, <1>5

\* One frame changes; whatever block it held before is on the device.
FrameStep(i, f) ==
    /\ mode = "running" /\ mode' = "running"
    /\ frames' = [frames EXCEPT ![i] = f]
    /\ GoodFrame(f, device', image', wal')
    /\ f.block = frames[i].block \/ ~Resident(f.block)
    /\ \A c \in Block : c # f.block =>
          image'[c] = image[c] /\ device'[c] = IF c = frames[i].block THEN image[c] ELSE device[c]
    /\ \A rec : InLog(wal, rec) => InLog(wal', rec)

LEMMA FrameStepKeepsPool ==
  ASSUME PoolInv, NEW i \in Frame, NEW f, FrameStep(i, f) PROVE PoolInv'
  <1>1. DOMAIN frames' = Frame /\ frames'[i] = f /\ \A j \in Frame : j # i => frames'[j] = frames[j]
    BY DEF FrameStep, PoolInv
  <1>2. ASSUME NEW j \in Frame, j # i, frames[j].block \in Block
        PROVE  frames[j].block # f.block /\ frames[j].block # frames[i].block
    BY <1>2, StorageAssumption DEF FrameStep, Resident, Holds, PoolInv, OneFramePerBlock
  <1>3. ASSUME NEW j \in Frame PROVE GoodFrame(frames'[j], device', image', wal')
    <2>1. CASE j = i
      BY <1>1, <2>1 DEF FrameStep
    <2>2. CASE j # i
      <3>1. frames'[j] = frames[j] /\ GoodFrame(frames[j], device, image, wal)
        BY <1>1, <2>2 DEF PoolInv
      <3>2. frames[j].block \in Block =>
                image'[frames[j].block] = image[frames[j].block] /\ device'[frames[j].block] = device[frames[j].block]
        BY <1>2, <2>2 DEF FrameStep
      <3>3. \A rec : InLog(wal, rec) => InLog(wal', rec)
        BY DEF FrameStep
      <3> HIDE DEF InLog
      <3> QED  BY <3>1, <3>2, <3>3 DEF GoodFrame
    <2> QED  BY <2>1, <2>2
  <1>4. OneFramePerBlock'
    <2> SUFFICES ASSUME NEW j \in Frame, NEW k \in Frame, j # k,
                        frames'[j].block = frames'[k].block, frames'[j].block # NoBlock
                 PROVE  FALSE
      BY DEF OneFramePerBlock
    <2>1. frames'[j].block \in Block /\ frames'[k].block \in Block
      BY <1>3 DEF GoodFrame, FrameRecord
    <2> QED  BY <1>1, <1>2, <2>1 DEF PoolInv, OneFramePerBlock
  <1>5. ASSUME NEW b \in Block, ~Resident(b)' PROVE device'[b] = image'[b]
    <2>1. b # f.block /\ \A j \in Frame : j # i => frames[j].block # b
      BY <1>1, <1>5 DEF Resident, Holds
    <2>2. CASE b = frames[i].block
      BY <2>1, <2>2 DEF FrameStep
    <2>3. CASE b # frames[i].block
      <3>1. ~Resident(b)
        BY <2>1, <2>3 DEF Resident, Holds
      <3> QED  BY <2>1, <2>3, <3>1 DEF FrameStep, PoolInv
    <2> QED  BY <2>2, <2>3
  <1>6. mode' = "running"
    BY DEF FrameStep
  <1> QED  BY <1>1, <1>3, <1>4, <1>5, <1>6 DEF PoolInv

--------------------------------------------------------------------------------
InUse == {i \in Frame : frames[i].state # "Free"}

\* What a call does to pool and device while the engine runs: a block changes on
\* the device only to its image, which is in the log.
PoolEffect ==
    /\ PoolInv'
    /\ Lists(lru', InUse')
    /\ frames' \in [Frame -> FrameRecord]
    /\ device' \in [Block -> Image]
    /\ \A c \in Block : device'[c] # device[c] =>
          device'[c] = image[c] /\ InLog(wal, PageWrite(c, device'[c]))

LEMMA LruListsInUse ==
  ASSUME TypeOK PROVE LruComplete <=> Lists(lru, InUse)
  BY DEF TypeOK, LruComplete, Lists, InUse

LEMMA FrameStepEffect ==
  ASSUME TypeOK, LruComplete, PoolInv, NEW i \in Frame, NEW f, FrameStep(i, f),
         \/ f.state # "Free" /\ lru' = Touch(i)
         \/ f.state = "Free" /\ lru' = Without(i),
         device' = device \/ (frames[i].state # "Pinned" /\ device' = WrittenBack(i))
  PROVE  PoolEffect
  <1>1. PoolInv'
    BY FrameStepKeepsPool
  <1>2. f \in FrameRecord /\ frames' = [frames EXCEPT ![i] = f] /\ frames \in [Frame -> FrameRecord]
    BY DEF FrameStep, GoodFrame, TypeOK
  <1>3. Lists(lru', InUse')
    <2>1. Lists(lru, InUse)
      BY LruListsInUse
    <2>2. InUse' = IF f.state = "Free" THEN InUse \ {i} ELSE InUse \cup {i}
      BY <1>2 DEF InUse
    <2> QED  BY <2>1, <2>2, WithoutLists, TouchLists
  <1>4. device' \in [Block -> Image] /\ \A c \in Block : device'[c] # device[c] =>
            device'[c] = image[c] /\ InLog(wal, PageWrite(c, device'[c]))
    <2>1. CASE device' = device
      BY <2>1 DEF TypeOK
    <2>2. CASE frames[i].state # "Pinned" /\ device' = WrittenBack(i)
      BY <2>2, WrittenBackFacts
    <2> QED  BY <2>1, <2>2
  <1> QED  BY <1>1, <1>2, <1>3, <1>4 DEF PoolEffect

\* read_page
LEMMA ReadPageEffect ==
  ASSUME TypeOK, LruComplete, PoolInv, NEW b \in Block, ReadPage(b) PROVE PoolEffect
  <1>0. mode = "running" /\ mode' = mode /\ image' = image /\ wal' = wal
    BY DEF ReadPage, recovery, ghosts
  <1>1. ASSUME NEW i \in Frame, Holds(i, b), frames' = [frames EXCEPT ![i] = PinFrame(@)],
               lru' = Touch(i), UNCHANGED device
        PROVE  PoolEffect
    <2>1. GoodFrame(frames[i], device', image', wal') /\ frames[i].block = b
      BY <1>0, <1>1 DEF PoolInv, Holds
    <2>2. GoodFrame(PinFrame(frames[i]), device', image', wal')
          /\ PinFrame(frames[i]).block = b /\ PinFrame(frames[i]).state = "Pinned"
      BY <2>1, PinGood
    <2>3. FrameStep(i, PinFrame(frames[i]))
      BY <1>0, <1>1, <2>1, <2>2 DEF FrameStep
    <2> QED  BY <1>1, <2>2, <2>3, FrameStepEffect
  <1>2. ASSUME NEW i \in Frame, ~Resident(b), Acquirable(i), device' = WrittenBack(i),
               frames' = [frames EXCEPT ![i] = Loaded(b, WrittenBack(i))], lru' = Touch(i)
        PROVE  PoolEffect
    <2> DEFINE f == Loaded(b, WrittenBack(i))
    <2>1. frames[i].state # "Pinned"
      BY <1>2, AcquirableNotPinned
    <2>2. /\ device' \in [Block -> Image]
          /\ \A c \in Block : device'[c] = IF c = frames[i].block THEN image[c] ELSE device[c]
      BY <1>2, <2>1, WrittenBackFacts
    <2>3. b # frames[i].block /\ device[b] = image[b]
      BY <1>0, <1>2 DEF Resident, Holds, PoolInv
    <2>4. f = [block |-> b, page |-> device'[b], state |-> "Pinned", pins |-> 1, dirty_intent |-> FALSE]
      BY <1>2 DEF Loaded
    <2> HIDE DEF f
    <2>5. GoodFrame(f, device', image', wal') /\ f.block = b /\ f.state = "Pinned"
      BY <1>0, <2>2, <2>3, <2>4 DEF GoodFrame, FrameRecord, PageState
    <2>6. FrameStep(i, f)
      BY <1>0, <1>2, <2>2, <2>5 DEF FrameStep, f
    <2> QED  BY <1>2, <2>1, <2>5, <2>6, FrameStepEffect
  <1> QED  BY <1>1, <1>2 DEF ReadPage

\* A failed read or write of the device after a frame was acquired
LEMMA FetchFailsEffect ==
  ASSUME TypeOK, LruComplete, PoolInv, NEW b \in Block, FetchFails(b),
         mode = "running", mode' = mode, image' = image,
         \A rec : InLog(wal, rec) => InLog(wal', rec)
  PROVE  PoolEffect
  <1>1. PICK i \in Frame : /\ Acquirable(i) /\ device' = WrittenBack(i)
                          /\ frames' = Freed(i) /\ lru' = Without(i)
    BY DEF FetchFails
  <1> DEFINE f == [frames[i] EXCEPT !.state = "Free", !.dirty_intent = FALSE]
  <1>2. frames[i].state # "Pinned"
    BY <1>1, AcquirableNotPinned
  <1>3. /\ device' \in [Block -> Image]
        /\ \A c \in Block : device'[c] = IF c = frames[i].block THEN image[c] ELSE device[c]
    BY <1>1, <1>2, WrittenBackFacts
  <1>4. GoodFrame(frames[i], device, image, wal)
    BY DEF PoolInv
  <1>5. f \in FrameRecord /\ f.block = frames[i].block /\ f.page = frames[i].page
        /\ f.state = "Free" /\ f.dirty_intent = FALSE
    BY <1>4 DEF GoodFrame, FrameRecord, PageState
  <1>6. frames' = [frames EXCEPT ![i] = f]
    BY <1>1 DEF Freed, TypeOK, FrameRecord
  <1> HIDE DEF f
  <1>7. GoodFrame(f, device', image', wal')
    BY <1>3, <1>4, <1>5 DEF GoodFrame
  <1>8. FrameStep(i, f)
    BY <1>3, <1>5, <1>6, <1>7 DEF FrameStep
  <1> QED  BY <1>1, <1>2, <1>5, <1>8, FrameStepEffect

--------------------------------------------------------------------------------
\* A log that a record is appended to keeps its records.
LEMMA Appended ==
  ASSUME NEW log \in Seq(Record), NEW new \in Record
  PROVE  /\ Append(log, new) \in Seq(Record)
         /\ Len(Append(log, new)) = Len(log) + 1
         /\ Append(log, new)[Len(log) + 1] = new
         /\ \A n \in 1..Len(log) : Append(log, new)[n] = log[n]
         /\ InLog(Append(log, new), new)
         /\ \A rec : InLog(log, rec) => InLog(Append(log, new), rec)
  <1>1. /\ Append(log, new) \in Seq(Record)
        /\ Len(Append(log, new)) = Len(log) + 1
        /\ Append(log, new)[Len(log) + 1] = new
        /\ \A n \in 1..Len(log) : Append(log, new)[n] = log[n]
    OBVIOUS
  <1>2. DOMAIN log = 1..Len(log) /\ DOMAIN Append(log, new) = 1..Len(log) + 1
    BY <1>1
  <1> QED  BY <1>1, <1>2 DEF InLog

LEMMA RecordTypes ==
  ASSUME NEW b \in Block, NEW v \in Image
  PROVE  /\ PageWrite(b, v) \in Record /\ PageWrite(b, v).block = b /\ PageWrite(b, v).payload = v
         /\ IsPageWrite(PageWrite(b, v)) /\ Commit \in Record /\ ~IsPageWrite(Commit)
  BY StorageAssumption DEF PageWrite, Commit, Record, IsPageWrite

\* write_page: the page is in the log before the frame holds it.
LEMMA WritePageEffect ==
  ASSUME TypeOK, LruComplete, PoolInv, NEW b \in Block, NEW v \in Image, WritePage(b, v)
  PROVE  PoolEffect
  <1>0. mode = "running" /\ mode' = mode /\ wal' = Append(wal, PageWrite(b, v))
        /\ image' = [image EXCEPT ![b] = v]
    BY DEF WritePage, recovery, Logged
  <1>1. InLog(wal', PageWrite(b, v)) /\ \A rec : InLog(wal, rec) => InLog(wal', rec)
    BY <1>0, RecordTypes, Appended DEF TypeOK
  <1>2. image'[b] = v /\ \A c \in Block : c # b => image'[c] = image[c]
    BY <1>0 DEF TypeOK
  <1>3. ASSUME NEW i \in Frame, Holds(i, b),
               frames' = [frames EXCEPT ![i] = Modified(PinFrame(@), v)],
               lru' = Touch(i), UNCHANGED device
        PROVE  PoolEffect
    <2> DEFINE f == Modified(PinFrame(frames[i]), v)
    <2>1. GoodFrame(frames[i], device, image, wal) /\ frames[i].block = b
      BY <1>3 DEF PoolInv, Holds
    <2>2. PinFrame(frames[i]) \in FrameRecord /\ PinFrame(frames[i]).block = b
          /\ PinFrame(frames[i]).state = "Pinned"
      BY <2>1, PinGood DEF GoodFrame
    <2>3. GoodFrame(f, device', image', wal') /\ f.block = b /\ f.state # "Free"
      BY <1>1, <1>2, <2>2, ModifiedGood
    <2>4. frames' = [frames EXCEPT ![i] = f]
      BY <1>3
    <2> HIDE DEF f
    <2>5. FrameStep(i, f)
      BY <1>0, <1>1, <1>2, <1>3, <2>1, <2>3, <2>4 DEF FrameStep
    <2> QED  BY <1>3, <2>3, <2>5, FrameStepEffect
  <1>4. ASSUME NEW i \in Frame, ~Resident(b), Acquirable(i), device' = WrittenBack(i),
               frames' = [frames EXCEPT ![i] = Modified(Loaded(b, WrittenBack(i)), v)],
               lru' = Touch(i)
        PROVE  PoolEffect
    <2> DEFINE g == Loaded(b, WrittenBack(i))
               f == Modified(g, v)
    <2>1. frames[i].state # "Pinned"
      BY <1>4, AcquirableNotPinned
    <2>2. /\ device' \in [Block -> Image]
          /\ \A c \in Block : device'[c] = IF c = frames[i].block THEN image[c] ELSE device[c]
      BY <1>4, <2>1, WrittenBackFacts
    <2>3. g \in FrameRecord /\ g.block = b /\ g.state = "Pinned"
      BY <1>4, <2>2 DEF Loaded, FrameRecord, PageState
    <2> HIDE DEF g
    <2>4. GoodFrame(f, device', image', wal') /\ f.block = b /\ f.state # "Free"
      BY <1>1, <1>2, <2>3, ModifiedGood
    <2>5. frames' = [frames EXCEPT ![i] = f]
      BY <1>4 DEF g
    <2> HIDE DEF f
    <2>6. FrameStep(i, f)
      BY <1>0, <1>1, <1>2, <1>4, <2>2, <2>4, <2>5 DEF FrameStep
    <2> QED  BY <1>4, <2>1, <2>4, <2>6, FrameStepEffect
  <1> QED  BY <1>3, <1>4 DEF WritePage

\* Nothing happens to the pool, and the log keeps its records.
LEMMA IdlePoolEffect ==
  ASSUME TypeOK, LruComplete, PoolInv, UNCHANGED <<device, frames, lru, image, mode>>,
         \A rec : InLog(wal, rec) => InLog(wal', rec)
  PROVE  PoolEffect
  <1>1. Lists(lru', InUse') /\ InUse' = InUse
    BY LruListsInUse DEF InUse
  <1>2. \A i \in Frame : GoodFrame(frames'[i], device', image', wal')
    BY DEF PoolInv, GoodFrame
  <1>3. PoolInv'
    BY <1>2 DEF PoolInv, OneFramePerBlock, Resident, Holds
  <1> QED  BY <1>1, <1>3 DEF PoolEffect, TypeOK

\* flush_all, as far as it got: the blocks written are on the device.
LEMMA FlushEffect ==
  ASSUME TypeOK, LruComplete, PoolInv, NEW k \in 0..capacity, Flush(k),
         mode = "running", mode' = mode, image' = image,
         \A rec : InLog(wal, rec) => InLog(wal', rec)
  PROVE  PoolEffect /\ (k = capacity => device' = image)
  <1>0. ASSUME NEW i \in Frame
        PROVE  /\ GoodFrame(frames[i], device, image, wal)
               /\ NeedsFlush(frames[i]) <=> frames[i].dirty_intent
    BY DEF PoolInv, GoodFrame, NeedsFlush, FrameRecord, PageState
  <1>1. 1..k \subseteq Frame
    BY StorageAssumption DEF Frame
  <1>2. ASSUME NEW b \in Block
        PROVE  device'[b] = IF \E i \in 1..k : frames[i].block = b /\ frames[i].dirty_intent
                            THEN image[b] ELSE device[b]
    <2>1. CASE \E i \in 1..k : Holds(i, b) /\ NeedsFlush(frames[i])
      <3> DEFINE j == CHOOSE i \in 1..k : Holds(i, b)
      <3>1. j \in 1..k /\ Holds(j, b)
        BY <2>1
      <3>2. device'[b] = frames[j].page
        BY <2>1 DEF Flush
      <3> HIDE DEF j
      <3> QED  BY <1>0, <1>1, <2>1, <3>1, <3>2 DEF Holds, GoodFrame
    <2>2. CASE ~\E i \in 1..k : Holds(i, b) /\ NeedsFlush(frames[i])
      BY <1>0, <1>1, <2>2 DEF Flush, Holds
    <2> QED  BY <2>1, <2>2
  <1>3. ASSUME NEW i \in Frame
        PROVE  /\ frames'[i] \in FrameRecord
               /\ frames'[i].block = frames[i].block /\ frames'[i].page = frames[i].page
               /\ i <= k => ~frames'[i].dirty_intent /\ frames'[i].state # "Dirty"
               /\ i > k => frames'[i] = frames[i]
               /\ frames'[i].state = "Free" <=> frames[i].state = "Free"
    <2> DEFINE f == frames[i]
               x == IF f.state = "Dirty" THEN "Clean" ELSE f.state
               g == [f EXCEPT !.dirty_intent = FALSE, !.state = x]
    <2>1. f \in FrameRecord /\ x \in PageState /\ x # "Dirty" /\ (x = "Free" <=> f.state = "Free")
      BY <1>0 DEF GoodFrame, FrameRecord, PageState
    <2> HIDE DEF x
    <2>2. g \in FrameRecord /\ g.block = f.block /\ g.page = f.page /\ ~g.dirty_intent
          /\ g.state = x
      BY <2>1 DEF FrameRecord
    <2>3. g = Flushed(f)
      BY DEF Flushed, x
    <2>4. frames'[i] = IF i <= k /\ NeedsFlush(f) THEN Flushed(f) ELSE f
      BY DEF Flush
    <2>5. NeedsFlush(f) <=> f.dirty_intent
      BY <1>0
    <2>6. f.state = "Dirty" => f.dirty_intent
      BY <1>0 DEF GoodFrame
    <2>7. i > k => ~(i <= k)
      BY DEF Frame
    <2> HIDE DEF f, g
    <2> QED  BY <2>1, <2>2, <2>3, <2>4, <2>5, <2>6, <2>7 DEF f
  <1>4. ASSUME NEW i \in Frame PROVE GoodFrame(frames'[i], device', image', wal')
    <2>1. GoodFrame(frames[i], device, image, wal)
      BY <1>0
    <2>2. frames[i].block \in Block /\ i <= k => device'[frames[i].block] = image[frames[i].block]
      BY <1>1, <1>2, <2>1 DEF GoodFrame, Frame
    <2>3. frames[i].block \in Block /\ ~frames[i].dirty_intent => device'[frames[i].block] = image[frames[i].block]
      BY <1>2, <2>1 DEF GoodFrame
    <2>4. i <= k \/ i > k
      BY DEF Frame
    <2> QED  BY <1>3, <2>1, <2>2, <2>3, <2>4 DEF GoodFrame
  <1>5. \A b \in Block : Resident(b)' <=> Resident(b)
    BY <1>3 DEF Resident, Holds
  <1>6. PoolInv'
    <2>1. DOMAIN frames' = Frame
      BY DEF Flush
    <2>2. OneFramePerBlock'
      BY <1>3 DEF PoolInv, OneFramePerBlock
    <2>3. ASSUME NEW b \in Block, ~Resident(b)' PROVE device'[b] = image'[b]
      BY <1>1, <1>2, <1>5, <2>3 DEF PoolInv
    <2> QED  BY <1>4, <2>1, <2>2, <2>3 DEF PoolInv
  <1>7. Lists(lru', InUse')
    <2>1. InUse' = InUse /\ lru' = lru
      BY <1>3 DEF InUse, Flush
    <2> QED  BY <2>1, LruListsInUse
  <1>8. device' \in [Block -> Image]
    <2>1. DOMAIN device' = Block /\ device' = [b \in Block |-> device'[b]]
      BY DEF Flush
    <2>2. \A b \in Block : device'[b] \in Image
      BY <1>2 DEF TypeOK
    <2> QED  BY <2>1, <2>2
  <1>9. ASSUME NEW b \in Block, device'[b] # device[b]
        PROVE  device'[b] = image[b] /\ InLog(wal, PageWrite(b, device'[b]))
    <2>1. PICK i \in 1..k : frames[i].block = b /\ frames[i].dirty_intent
      BY <1>2, <1>9
    <2>2. GoodFrame(frames[i], device, image, wal)
      BY <1>0, <1>1, <2>1
    <2> QED  BY <1>2, <1>9, <2>1, <2>2 DEF GoodFrame
  <1>10. frames' \in [Frame -> FrameRecord]
    BY <1>3 DEF Flush
  <1>11. ASSUME k = capacity PROVE device' = image
    <2>1. ASSUME NEW b \in Block PROVE device'[b] = image[b]
      <3>1. CASE Resident(b)
        <4>1. PICK i \in Frame : frames[i].block = b
          BY <3>1 DEF Resident, Holds
        <4>2. GoodFrame(frames[i], device, image, wal) /\ i \in 1..k
          BY <1>0, <1>11 DEF Frame
        <4> QED  BY <1>2, <4>1, <4>2 DEF GoodFrame
      <3>2. CASE ~Resident(b)
        BY <1>1, <1>2, <3>2 DEF PoolInv
      <3> QED  BY <3>1, <3>2
    <2>2. image \in [Block -> Image]
      BY DEF TypeOK
    <2> QED  BY <1>8, <2>1, <2>2
  <1> QED  BY <1>6, <1>7, <1>8, <1>9, <1>10, <1>11 DEF PoolEffect
================================================================================
