------------------------------ MODULE KernelProofs ------------------------------
(****************************************************************************)
(* Proofs about the kernel, for any tasks, channels, pages and number of    *)
(* frames.                                                                  *)
(****************************************************************************)
EXTENDS Kernel, SequenceTheorems, FiniteSetTheorems, TLAPS

Entry == [id : Nat, todo : Seq(Calls)]

\* An entry of the queue has calls to make.
Queue ==
    /\ ready \in Seq(Entry) /\ \A k \in DOMAIN ready : ready[k].todo # <<>>
    /\ nextId \in Nat

\* An inbox belongs to a channel, and waits for what was sent and not received.
MailTypes ==
    /\ DOMAIN inboxes \subseteq Channels /\ inboxes \in [DOMAIN inboxes -> Seq(Nat)]
    /\ sent \in [Channels -> Seq(Nat)] /\ received \in [Channels -> Seq(Nat)]

Mail == MailTypes /\ \A c \in Channels : sent[c] = received[c] \o Inbox(c)

\* The pages that are pinned are finitely many, whatever pages there are.
Mapping ==
    /\ pins \in [Pages -> Nat] /\ IsFiniteSet(Pinned)
    /\ Cardinality(Pinned) <= Frames

Issuing ==
    /\ issuer \in [next_serial : Nat, live : SUBSET Nat]
    /\ \A s \in issuer.live : s < issuer.next_serial

KernelInv == Queue /\ Mail /\ Mapping /\ Issuing

--------------------------------------------------------------------------------
\* register_channel keeps the messages that wait.
LEMMA RegisterKeepsMail ==
  ASSUME Mail, NEW c \in Channels, inboxes' = RegisterChannel(c), UNCHANGED <<sent, received>>
  PROVE  Mail'
  <1>1. DOMAIN inboxes' = DOMAIN inboxes \cup {c}
    BY DEF RegisterChannel
  <1>2. \A d \in DOMAIN inboxes' : inboxes'[d] = Inbox(d)
    BY <1>1 DEF RegisterChannel, Inbox
  <1>3. \A d : Inbox(d)' = Inbox(d)
    BY <1>1, <1>2 DEF Inbox
  <1>4. \A d \in Channels : Inbox(d) \in Seq(Nat)
    BY DEF Mail, MailTypes, Inbox
  <1>5. inboxes' \in [DOMAIN inboxes' -> Seq(Nat)]
    BY <1>1, <1>2, <1>4 DEF RegisterChannel, Mail, MailTypes
  <1> QED  BY <1>1, <1>3, <1>5 DEF Mail, MailTypes

\* What is appended to the second of two sequences comes behind both.
LEMMA AppendBehind ==
  ASSUME NEW s \in Seq(Nat), NEW t \in Seq(Nat), NEW x \in Nat
  PROVE  Append(s \o t, x) = s \o Append(t, x)
  <1> DEFINE a == Append(s \o t, x)
             b == s \o Append(t, x)
  <1>1. /\ a \in Seq(Nat) /\ Len(a) = Len(s) + Len(t) + 1
        /\ b \in Seq(Nat) /\ Len(b) = Len(s) + Len(t) + 1
    OBVIOUS
  <1>2. ASSUME NEW i \in 1..(Len(s) + Len(t) + 1) PROVE a[i] = b[i]
    <2>1. CASE i <= Len(s)
      BY <2>1
    <2>2. CASE i > Len(s) /\ i <= Len(s) + Len(t)
      BY <2>2
    <2>3. CASE i = Len(s) + Len(t) + 1
      BY <2>3
    <2> QED  BY <2>1, <2>2, <2>3
  <1> HIDE DEF a, b
  <1>3. a = b
    BY <1>1, <1>2, SeqEqual
  <1> QED  BY <1>3 DEF a, b

\* send puts a message behind those that wait.
LEMMA SendKeepsMail ==
  ASSUME Mail, NEW c \in DOMAIN inboxes, NEW id \in Nat,
         inboxes' = [inboxes EXCEPT ![c] = Append(@, id)],
         sent' = [sent EXCEPT ![c] = Append(@, id)], UNCHANGED received
  PROVE  Mail'
  <1>1. c \in Channels /\ inboxes[c] \in Seq(Nat) /\ sent[c] \in Seq(Nat) /\ received[c] \in Seq(Nat)
    BY DEF Mail, MailTypes
  <1>2. MailTypes'
    BY <1>1 DEF Mail, MailTypes
  <1>3. sent'[c] = received'[c] \o Inbox(c)'
    <2>1. Inbox(c)' = Append(inboxes[c], id) /\ sent'[c] = Append(sent[c], id) /\ received' = received
      BY <1>1 DEF Inbox, Mail, MailTypes
    <2>2. sent[c] = received[c] \o inboxes[c]
      BY <1>1 DEF Mail, Inbox
    <2>3. Append(received[c] \o inboxes[c], id) = received[c] \o Append(inboxes[c], id)
      BY <1>1, AppendBehind
    <2> QED  BY <2>1, <2>2, <2>3
  <1>4. ASSUME NEW d \in Channels, d # c PROVE sent'[d] = received'[d] \o Inbox(d)'
    <2>1. Inbox(d)' = Inbox(d) /\ sent'[d] = sent[d]
      BY <1>4 DEF Inbox, Mail, MailTypes
    <2> QED  BY <2>1 DEF Mail
  <1> QED  BY <1>2, <1>3, <1>4 DEF Mail

\* receive takes all that wait, in order.
LEMMA ReceiveKeepsMail ==
  ASSUME Mail, NEW c \in DOMAIN inboxes,
         inboxes' = [inboxes EXCEPT ![c] = <<>>],
         received' = [received EXCEPT ![c] = @ \o inboxes[c]], UNCHANGED sent
  PROVE  Mail'
  <1>1. c \in Channels /\ inboxes[c] \in Seq(Nat) /\ sent[c] \in Seq(Nat) /\ received[c] \in Seq(Nat)
    BY DEF Mail, MailTypes
  <1>2. received[c] \o inboxes[c] \in Seq(Nat)
    BY <1>1
  <1>3. MailTypes'
    BY <1>1, <1>2 DEF Mail, MailTypes
  <1>4. sent'[c] = received'[c] \o Inbox(c)'
    <2>1. Inbox(c)' = <<>> /\ received'[c] = received[c] \o inboxes[c] /\ sent' = sent
      BY <1>1 DEF Inbox, Mail, MailTypes
    <2>2. sent[c] = received[c] \o inboxes[c]
      BY <1>1 DEF Mail, Inbox
    <2>3. (received[c] \o inboxes[c]) \o <<>> = received[c] \o inboxes[c]
      BY <1>2, ConcatEmptySeq
    <2> QED  BY <2>1, <2>2, <2>3
  <1>5. ASSUME NEW d \in Channels, d # c PROVE sent'[d] = received'[d] \o Inbox(d)'
    <2>1. Inbox(d)' = Inbox(d) /\ received'[d] = received[d]
      BY <1>5 DEF Inbox, Mail, MailTypes
    <2> QED  BY <2>1 DEF Mail
  <1> QED  BY <1>3, <1>4, <1>5 DEF Mail

\* A page is mapped only where it has, or finds, a frame.
LEMMA MapKeepsMapping ==
  ASSUME Mapping, NEW b \in Pages, b \in Pinned \/ Cardinality(Pinned) < Frames,
         pins' = [pins EXCEPT ![b] = @ + 1]
  PROVE  Mapping'
  <1>1. pins' \in [Pages -> Nat] /\ Pinned' = Pinned \cup {b}
    BY DEF Mapping, Pinned
  <1>2. CASE b \in Pinned
    <2>1. Pinned' = Pinned
      BY <1>1, <1>2
    <2> QED  BY <1>1, <2>1 DEF Mapping
  <1>3. CASE b \notin Pinned
    <2>1. IsFiniteSet(Pinned') /\ Cardinality(Pinned') = Cardinality(Pinned) + 1 /\ Cardinality(Pinned) \in Nat
      BY <1>1, <1>3, FS_AddElement, FS_CardinalityType DEF Mapping
    <2> QED  BY <1>1, <1>3, <2>1, KernelAssumption DEF Mapping
  <1> QED  BY <1>2, <1>3

LEMMA UnmapKeepsMapping ==
  ASSUME Mapping, NEW b \in Pages, pins' = Unmapped(b)
  PROVE  Mapping'
  <1>1. pins' \in [Pages -> Nat] /\ Pinned' \subseteq Pinned
    BY DEF Mapping, Pinned, Unmapped
  <1>2. IsFiniteSet(Pinned') /\ Cardinality(Pinned') <= Cardinality(Pinned)
        /\ Cardinality(Pinned') \in Nat /\ Cardinality(Pinned) \in Nat
    BY <1>1, FS_Subset, FS_CardinalityType DEF Mapping
  <1> QED  BY <1>1, <1>2, KernelAssumption DEF Mapping

\* mint gives out a serial that was never used, revoke takes one back.
LEMMA IssuerKeeps ==
  ASSUME Issuing, issuer' = Mint \/ \E serial : issuer' = Revoke(serial)
  PROVE  Issuing'
  <1>1. CASE issuer' = Mint
    BY <1>1 DEF Issuing, Mint
  <1>2. ASSUME NEW serial, issuer' = Revoke(serial) PROVE Issuing'
    BY <1>2 DEF Issuing, Revoke
  <1> QED  BY <1>1, <1>2

--------------------------------------------------------------------------------
\* A call of a task, refused or not, keeps mail, mappings and serials in order.
LEMMA PerformKeeps ==
  ASSUME Mail, Mapping, Issuing, NEW op \in Calls, NEW id \in Nat, Perform(op, id)
  PROVE  Mail' /\ Mapping' /\ Issuing'
  <1>0. /\ op.call \in {"register", "send", "receive"} => op.channel \in Channels
        /\ op.call \in {"map", "unmap"} => op.page \in Pages
    BY KernelAssumption
  <1>1. UNCHANGED <<inboxes, sent, received>> => Mail'
    BY DEF Mail, MailTypes, Inbox
  <1>2. UNCHANGED pins => Mapping'
    BY DEF Mapping, Pinned
  <1>3. UNCHANGED issuer => Issuing'
    BY DEF Issuing
  <1>4. CASE op.call = "register"
    <2>1. inboxes' = RegisterChannel(op.channel) /\ UNCHANGED <<issuer, pins, sent, received>>
      BY <1>4 DEF Perform
    <2> QED  BY <1>0, <1>2, <1>3, <1>4, <2>1, RegisterKeepsMail
  <1>5. CASE op.call = "mint"
    <2>1. issuer' = Mint /\ UNCHANGED <<inboxes, pins, sent, received>>
      BY <1>5 DEF Perform
    <2> QED  BY <1>1, <1>2, <2>1, IssuerKeeps
  <1>6. CASE op.call = "revoke"
    <2>1. issuer' = Revoke(op.serial) /\ UNCHANGED <<inboxes, pins, sent, received>>
      BY <1>6 DEF Perform
    <2> QED  BY <1>1, <1>2, <2>1, IssuerKeeps
  <1>7. CASE op.call = "send" /\ SendAllowed(op.cap, op.channel)
    <2>1. /\ inboxes' = [inboxes EXCEPT ![op.channel] = Append(@, id)]
          /\ sent' = [sent EXCEPT ![op.channel] = Append(@, id)]
          /\ UNCHANGED <<issuer, pins, received>>
      BY <1>7 DEF Perform
    <2>2. op.channel \in DOMAIN inboxes
      BY <1>7 DEF SendAllowed
    <2> QED  BY <1>2, <1>3, <2>1, <2>2, SendKeepsMail
  <1>8. CASE op.call = "receive" /\ ReceiveAllowed(op.cap, op.channel)
    <2>1. /\ inboxes' = [inboxes EXCEPT ![op.channel] = <<>>]
          /\ received' = [received EXCEPT ![op.channel] = @ \o inboxes[op.channel]]
          /\ UNCHANGED <<issuer, pins, sent>>
      BY <1>8 DEF Perform
    <2>2. op.channel \in DOMAIN inboxes
      BY <1>8 DEF ReceiveAllowed
    <2> QED  BY <1>2, <1>3, <2>1, <2>2, ReceiveKeepsMail
  <1>9. CASE op.call = "map" /\ MapAllowed(op.cap, op.page, op.right)
    <2>1. pins' = [pins EXCEPT ![op.page] = @ + 1] /\ UNCHANGED <<issuer, inboxes, sent, received>>
      BY <1>9 DEF Perform
    <2>2. op.page \in Pages /\ (op.page \in Pinned \/ Cardinality(Pinned) < Frames)
      BY <1>0, <1>9 DEF MapAllowed
    <2> QED  BY <1>1, <1>3, <2>1, <2>2, MapKeepsMapping
  <1>10. CASE op.call = "unmap"
    <2>1. pins' = Unmapped(op.page) /\ UNCHANGED <<issuer, inboxes, sent, received>>
      BY <1>10 DEF Perform
    <2> QED  BY <1>0, <1>1, <1>3, <1>10, <2>1, UnmapKeepsMapping
  <1>11. CASE /\ op.call \notin {"register", "mint", "revoke", "unmap"}
              /\ ~(op.call = "send" /\ SendAllowed(op.cap, op.channel))
              /\ ~(op.call = "receive" /\ ReceiveAllowed(op.cap, op.channel))
              /\ ~(op.call = "map" /\ MapAllowed(op.cap, op.page, op.right))
    <2>1. UNCHANGED <<issuer, inboxes, pins, sent, received>>
      BY <1>11 DEF Perform
    <2> QED  BY <1>1, <1>2, <1>3, <2>1
  <1> QED  BY <1>4, <1>5, <1>6, <1>7, <1>8, <1>9, <1>10, <1>11

\* The queue after a task was spawned, or polled
LEMMA QueueAppend ==
  ASSUME NEW q \in Seq(Entry), \A k \in DOMAIN q : q[k].todo # <<>>,
         NEW e \in Entry, e.todo # <<>>
  PROVE  Append(q, e) \in Seq(Entry) /\ \A k \in DOMAIN Append(q, e) : Append(q, e)[k].todo # <<>>
  <1>1. /\ Append(q, e) \in Seq(Entry) /\ Len(Append(q, e)) = Len(q) + 1
        /\ Append(q, e)[Len(q) + 1] = e /\ \A k \in 1..Len(q) : Append(q, e)[k] = q[k]
    OBVIOUS
  <1>2. \A k \in DOMAIN Append(q, e) : k \in DOMAIN q \/ k = Len(q) + 1
    BY <1>1
  <1> QED  BY <1>1, <1>2

LEMMA QueueTail ==
  ASSUME NEW q \in Seq(Entry), q # <<>>, \A k \in DOMAIN q : q[k].todo # <<>>
  PROVE  /\ Head(q) \in Entry /\ Head(q).todo # <<>>
         /\ Tail(q) \in Seq(Entry) /\ \A k \in DOMAIN Tail(q) : Tail(q)[k].todo # <<>>
  <1>1. /\ Head(q) \in Entry /\ Head(q) = q[1] /\ 1 \in DOMAIN q /\ Tail(q) \in Seq(Entry)
        /\ Len(Tail(q)) = Len(q) - 1 /\ \A k \in 1..Len(q) - 1 : Tail(q)[k] = q[k + 1] /\ k + 1 \in DOMAIN q
    OBVIOUS
  <1>2. \A k \in DOMAIN Tail(q) : k \in 1..Len(q) - 1
    BY <1>1
  <1> QED  BY <1>1, <1>2

LEMMA SpawnKeeps ==
  ASSUME KernelInv, NEW p \in Programs, Spawn(p) PROVE KernelInv'
  <1> DEFINE e == [id |-> nextId, todo |-> p]
  <1>1. e \in Entry /\ e.todo # <<>>
    BY KernelAssumption DEF KernelInv, Queue, Entry
  <1>2. ready' = Append(ready, e) /\ nextId' = nextId + 1 /\ UNCHANGED <<issuer, inboxes, pins, sent, received>>
    BY DEF Spawn
  <1> HIDE DEF e
  <1>3. Queue'
    BY <1>1, <1>2, QueueAppend DEF KernelInv, Queue
  <1>4. Mail' /\ Mapping' /\ Issuing'
    BY <1>2 DEF KernelInv, Mail, MailTypes, Inbox, Mapping, Pinned, Issuing
  <1> QED  BY <1>3, <1>4 DEF KernelInv

LEMMA TickKeeps ==
  ASSUME KernelInv, Tick PROVE KernelInv'
  <1> DEFINE e == Head(ready)
             rest == IF Waits(Head(e.todo)) THEN e.todo ELSE Tail(e.todo)
             f == [e EXCEPT !.todo = rest]
  <1>1. ready # <<>> /\ Perform(Head(e.todo), e.id) /\ ready' = Requeue(f, rest = <<>>) /\ nextId' = nextId
    BY DEF Tick
  <1>2. /\ e \in Entry /\ e.todo # <<>>
        /\ Tail(ready) \in Seq(Entry) /\ \A k \in DOMAIN Tail(ready) : Tail(ready)[k].todo # <<>>
    BY <1>1, QueueTail DEF KernelInv, Queue
  <1> HIDE DEF e
  <1>3. e.id \in Nat /\ e.todo \in Seq(Calls) /\ Head(e.todo) \in Calls /\ Tail(e.todo) \in Seq(Calls)
    BY <1>2 DEF Entry
  <1>4. rest \in Seq(Calls)
    BY <1>3
  <1> HIDE DEF rest
  <1>5. f \in Entry /\ f.todo = rest
    BY <1>2, <1>4 DEF Entry
  <1> HIDE DEF f
  <1>6. Queue'
    <2>1. CASE rest = <<>>
      <3>1. ready' = Tail(ready)
        BY <1>1, <2>1 DEF Requeue
      <3> QED  BY <1>1, <1>2, <3>1 DEF KernelInv, Queue
    <2>2. CASE rest # <<>>
      <3>1. ready' = Append(Tail(ready), f)
        BY <1>1, <2>2 DEF Requeue
      <3> QED  BY <1>1, <1>2, <1>5, <2>2, <3>1, QueueAppend DEF KernelInv, Queue
    <2> QED  BY <2>1, <2>2
  <1>7. Mail' /\ Mapping' /\ Issuing'
    BY <1>1, <1>3, PerformKeeps DEF KernelInv
  <1> QED  BY <1>6, <1>7 DEF KernelInv

LEMMA InitKernelInv ==
  KernelInit => KernelInv
  <1> SUFFICES ASSUME KernelInit PROVE KernelInv
    OBVIOUS
  <1>1. Queue
    BY DEF KernelInit, Queue
  <1>2. Mail
    <2>1. DOMAIN inboxes = {} /\ \A c : Inbox(c) = <<>>
      BY DEF KernelInit, Inbox
    <2>2. <<>> \o <<>> = <<>>
      OBVIOUS
    <2>3. /\ sent \in [Channels -> Seq(Nat)] /\ received \in [Channels -> Seq(Nat)]
          /\ \A c \in Channels : sent[c] = <<>> /\ received[c] = <<>>
      BY DEF KernelInit
    <2>4. inboxes \in [DOMAIN inboxes -> Seq(Nat)]
      BY <2>1 DEF KernelInit
    <2> QED  BY <2>1, <2>2, <2>3, <2>4 DEF Mail, MailTypes
  <1>3. Mapping
    <2>1. Pinned = {}
      BY DEF KernelInit, Pinned
    <2> QED  BY <2>1, FS_EmptySet, KernelAssumption DEF KernelInit, Mapping
  <1>4. Issuing
    BY DEF KernelInit, Issuing
  <1> QED  BY <1>1, <1>2, <1>3, <1>4 DEF KernelInv

\* For any tasks, whatever they call in whatever order they are polled: a message
\* that send accepted is received once and in order or waits in its inbox, no more
\* pages are mapped than there are frames, and no serial is given out twice
\* (MessageRouter, CorePageCache, CapabilityIssuer).
THEOREM MailIsInOrder == KernelSpec => []MailInOrder
  <1>1. KernelInv /\ [KernelNext]_kernelVars => KernelInv'
    <2>1. KernelInv /\ UNCHANGED kernelVars => KernelInv'
      BY DEF kernelVars, KernelInv, Queue, Mail, MailTypes, Inbox, Mapping, Pinned, Issuing
    <2> QED  BY <2>1, SpawnKeeps, TickKeeps DEF KernelNext
  <1>2. KernelInv => MailInOrder
    BY DEF KernelInv, Mail, Mapping, Issuing, MailInOrder
  <1> QED  BY <1>1, <1>2, InitKernelInv, PTL DEF KernelSpec
================================================================================
