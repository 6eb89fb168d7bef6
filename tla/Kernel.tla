------------------------------- MODULE Kernel -------------------------------
(* tpt-archon-kernel over tpt-archon-bridge: the cooperative round-robin    *)
(* scheduler, capability-bearing messages between channels, and the page    *)
(* cache that kernel and storage engine share.                              *)
(*                                                                          *)
(* A task is a list of calls, one per poll (Task::poll is the client's      *)
(* code: external).  A call that is refused is given up, except that a task *)
(* which finds every frame pinned returns Pending and tries again.  The     *)
(* buffer pool is taken as its users see it: a page can be mapped when it   *)
(* is resident or when some frame is not pinned.                            *)
EXTENDS Naturals, FiniteSets, Sequences

CONSTANTS
    Programs,    \* the tasks that may be spawned: sequences of calls
    MaxTasks,    \* bound: tasks ever spawned
    Channels, Pages,
    Frames       \* the frames of the buffer pool

\* The calls of the tasks
Calls == UNION {{p[k] : k \in DOMAIN p} : p \in Programs}

ASSUME KernelAssumption ==
    /\ \A p \in Programs : p \in Seq(Calls) /\ p # <<>>
    /\ \A op \in Calls :
          /\ op.call \in {"register", "send", "receive"} => op.channel \in Channels
          /\ op.call \in {"map", "unmap"} => op.page \in Pages
    /\ Frames \in Nat

VARIABLES
    ready,       \* the queue: sequence of [id, todo]
    nextId,
    issuer,      \* CapabilityIssuer: [next_serial, live]
    inboxes,     \* MessageRouter: [registered channels -> messages]
    pins,        \* UnifiedPageCache: [Pages -> pins]
    sent, received   \* history: [Channels -> messages], in the order of the calls

kernelVars == <<ready, nextId, issuer, inboxes, pins, sent, received>>

\* Capability::authorizes, with Right::allows_read and allows_write.
Authorizes(cap, resource, right) ==
    cap.resource = resource /\ right \in cap.rights

Page(b) == <<"Page", b>>
Channel(c) == <<"Channel", c>>

KernelInit ==
    /\ ready = <<>> /\ nextId = 0
    /\ issuer = [next_serial |-> 0, live |-> {}]
    /\ inboxes = <<>>
    /\ pins = [b \in Pages |-> 0]
    /\ sent = [c \in Channels |-> <<>>]
    /\ received = [c \in Channels |-> <<>>]

-----------------------------------------------------------------------------
(* The calls of a task, as (guard, effect) pairs: where the guard fails the *)
(* call returns an error and changes nothing.                               *)

\* CapabilityIssuer::mint and revoke: serials are never used again.
Mint == [next_serial |-> issuer.next_serial + 1,
         live |-> issuer.live \cup {issuer.next_serial}]
Revoke(serial) == [issuer EXCEPT !.live = @ \ {serial}]

\* A mutant: registering a channel again empties its inbox.
RegisterChannel_Mut(c) == [d \in DOMAIN inboxes \cup {c} |-> IF d # c THEN inboxes[d] ELSE <<>>]

\* MessageRouter::register_channel: an inbox that exists is kept.
RegisterChannel(c) ==
    [d \in DOMAIN inboxes \cup {c} |-> IF d \in DOMAIN inboxes THEN inboxes[d] ELSE <<>>]

\* MessageRouter::send and receive.
SendAllowed(cap, c) == Authorizes(cap, Channel(c), "write") /\ c \in DOMAIN inboxes
ReceiveAllowed(cap, c) == Authorizes(cap, Channel(c), "read") /\ c \in DOMAIN inboxes

\* CorePageCache::map_read and map_write: fetch pins the page, and fails when
\* the page is not resident and every frame is pinned.
Pinned == {b \in Pages : pins[b] > 0}
MapAllowed(cap, b, right) ==
    /\ Authorizes(cap, Page(b), right)
    /\ b \in Pinned \/ Cardinality(Pinned) < Frames

\* A mutant: the last pin is never released.
Unmapped_Mut(b) == [pins EXCEPT ![b] = IF @ > 1 THEN @ - 1 ELSE @]

\* unmap: BufferPool::unpin leaves a page that is not pinned alone.
Unmapped(b) == [pins EXCEPT ![b] = IF @ > 0 THEN @ - 1 ELSE 0]

\* What one call does.
Perform(op, id) ==
    CASE op.call = "register" ->
            /\ inboxes' = RegisterChannel(op.channel)
            /\ UNCHANGED <<issuer, pins, sent, received>>
      [] op.call = "mint" ->
            /\ issuer' = Mint
            /\ UNCHANGED <<inboxes, pins, sent, received>>
      [] op.call = "revoke" ->
            /\ issuer' = Revoke(op.serial)
            /\ UNCHANGED <<inboxes, pins, sent, received>>
      [] op.call = "send" /\ SendAllowed(op.cap, op.channel) ->
            /\ inboxes' = [inboxes EXCEPT ![op.channel] = Append(@, id)]
            /\ sent' = [sent EXCEPT ![op.channel] = Append(@, id)]
            /\ UNCHANGED <<issuer, pins, received>>
      [] op.call = "receive" /\ ReceiveAllowed(op.cap, op.channel) ->
            /\ inboxes' = [inboxes EXCEPT ![op.channel] = <<>>]
            /\ received' = [received EXCEPT ![op.channel] = @ \o inboxes[op.channel]]
            /\ UNCHANGED <<issuer, pins, sent>>
      [] op.call = "map" /\ MapAllowed(op.cap, op.page, op.right) ->
            /\ pins' = [pins EXCEPT ![op.page] = @ + 1]
            /\ UNCHANGED <<issuer, inboxes, sent, received>>
      [] op.call = "unmap" ->
            /\ pins' = Unmapped(op.page)
            /\ UNCHANGED <<issuer, inboxes, sent, received>>
      [] OTHER -> UNCHANGED <<issuer, inboxes, pins, sent, received>>

\* Whether the task has to wait for a frame.
Waits(op) ==
    /\ op.call = "map"
    /\ Authorizes(op.cap, Page(op.page), op.right)
    /\ ~MapAllowed(op.cap, op.page, op.right)

-----------------------------------------------------------------------------
(* Scheduler. *)

Spawn(p) ==
    /\ nextId < MaxTasks
    /\ ready' = Append(ready, [id |-> nextId, todo |-> p])
    /\ nextId' = nextId + 1
    /\ UNCHANGED <<issuer, inboxes, pins, sent, received>>

\* tick: Pending puts the entry back at the end, Ready drops it.
Requeue(entry, done) == IF done THEN Tail(ready) ELSE Append(Tail(ready), entry)

Tick ==
    /\ ready # <<>>
    /\ \E e \in {Head(ready)} :
       \E todo \in {IF Waits(Head(e.todo)) THEN e.todo ELSE Tail(e.todo)} :
          /\ Perform(Head(e.todo), e.id)
          /\ ready' = Requeue([e EXCEPT !.todo = todo], todo = <<>>)
    /\ UNCHANGED nextId

KernelNext == (\E p \in Programs : Spawn(p)) \/ Tick

\* run_to_completion ticks as long as there is a task.
Fairness == WF_kernelVars(Tick)

KernelSpec == KernelInit /\ [][KernelNext]_kernelVars /\ Fairness

-----------------------------------------------------------------------------
(* Properties. *)

Inbox(c) == IF c \in DOMAIN inboxes THEN inboxes[c] ELSE <<>>

\* Every message that send accepted is received once and in the order of the
\* calls, or waits in its inbox, through registrations of a channel that is in
\* use; a page is mapped only while a frame holds it; serials stay unique.
MailInOrder ==
    /\ \A c \in Channels : sent[c] = received[c] \o Inbox(c)
    /\ Cardinality(Pinned) <= Frames
    /\ \A s \in issuer.live : s < issuer.next_serial

\* "The scheduler always makes progress if any task is runnable", and
\* run_to_completion terminates (scheduler.rs): no task starves another, so
\* every task ends although tasks wait for frames that other tasks pin.
TasksComplete == (ready # <<>>) ~> (ready = <<>>)
=============================================================================
