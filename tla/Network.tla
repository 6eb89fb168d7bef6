------------------------------ MODULE Network ------------------------------
(* koinon-network: nodes that dial each other over TCP, register peers by a *)
(* handshake and flood blocks and transactions by gossip.                   *)
(*                                                                          *)
(* A connection is a pair of ends <<c, 1>> (the dialer's) and <<c, 2>> (the *)
(* listener's); wire[e] is what is on its way to end e.  NetworkNode::poll  *)
(* is one action, from the accept to the detection of lost peers: it finds  *)
(* in the transport's channel what the reader tasks have put there by then, *)
(* which is some prefix of every wire.  Faults are a connection that        *)
(* breaks, a peer whose timeout expires, a node that shuts down.            *)
EXTENDS Naturals, FiniteSets, FiniteSetsExt, Functions, Sequences, SequencesExt, TLC

CONSTANTS
    Nodes,          \* the nodes, which are also the peer ids
    Dials,          \* pairs <<n, m>>: n may call connect_to_seed(m)
    Configs,        \* [Nodes -> NetworkConfig]: the configurations to consider
    Hashes,         \* what is gossiped
    Height,         \* [Hashes -> Nat]: height of a block, 0 for a transaction
    Kind,           \* [Hashes -> Kinds]: kind of a transaction
    Fanout,         \* peers a message is passed on to (3 in the code)
    MaxConns,       \* bound: connections ever dialled
    MaxFaults       \* bound: connections that break, peers that time out and
                    \* nodes that shut down, together

NetworkAssumption ==
    /\ Dials \subseteq Nodes \X Nodes
    /\ {Fanout, MaxConns, MaxFaults} \subseteq Nat
    /\ \A cfg \in Configs, n \in Nodes : cfg[n].maxSeen > 0

VARIABLES
    config,   \* [Nodes -> chain id, protocol version, max_peers, max_seen, and the
              \* hashes its application will broadcast]
    node,     \* [Nodes -> the NetworkNode, its gossip layer and its peer manager]
    conns,    \* the connections, in the order they were dialled
    wire,     \* [ends -> frames on their way to that end]
    faults,   \* how many faults there have been
    early     \* history: hashes broadcast before every link was registered

vars == <<config, node, conns, wire, faults, early>>

Ends == (1 .. MaxConns) \X {1, 2}
OtherEnd(e) == <<e[1], 3 - e[2]>>
Owner(e) == conns[e[1]].ends[e[2]]

\* message.rs: the numbers WireTx::from gives to the kinds of a transaction.
Kinds == <<"TransferOikos", "TransferKoin", "MintKoin", "BurnKoin", "EscrowCreate",
           "EscrowRelease", "EscrowCancel", "StreamStart", "StreamStop", "RfpPublish",
           "RfpRespond", "MandateCreate", "MandateSpend">>
WireKind(kind) == (CHOOSE i \in DOMAIN Kinds : Kinds[i] = kind) - 1

\* message.rs: what Transaction::try_from makes of such a number.
DagKind(w) == CASE w = 11 -> "MintKoin"
                [] w \in 0 .. 12 /\ w # 11 -> Kinds[w + 1]
                [] OTHER -> "invalid tx kind discriminator"

Handshake(n) == [type |-> "Handshake", chain |-> config[n].chain, from |-> n, version |-> config[n].version]
HandshakeAck(chain, n, height) ==
    [type |-> "HandshakeAck", chain |-> chain, from |-> n, height |-> height]
News(h) == [type |-> IF Height[h] > 0 THEN "NewBlock" ELSE "NewTransaction", hash |-> h]

Init ==
    /\ config \in Configs
    /\ node = [n \in Nodes |->
                [peers |-> <<>>, seen |-> <<>>, queue |-> <<>>, toPeer |-> <<>>,
                 toConn |-> <<>>, best |-> 0, down |-> FALSE, told |-> {},
                 passed |-> [h \in Hashes |-> 0], dropped |-> [h \in Hashes |-> 0]]]
    /\ conns = <<>>
    /\ wire = [e \in Ends |-> <<>>]
    /\ faults = 0
    /\ early = {}

-----------------------------------------------------------------------------
(* Transport. *)

\* Frames written to a list of ends; a write to a broken connection is an
\* error, which poll drops.
Written(w, out) ==
    FoldLeft(LAMBDA acc, s : IF conns'[s.at[1]].up
                             THEN [acc EXCEPT ![OtherEnd(s.at)] = Append(@, s.msg)]
                             ELSE acc,
             w, out)

\* connect_to_seed: the connection is made and the handshake written to it.
ConnectToSeed(n, m) ==
    /\ <<n, m>> \in Dials
    /\ Len(conns) < MaxConns
    /\ conns' = Append(conns, [ends |-> <<n, m>>, accepted |-> FALSE, up |-> TRUE])
    /\ wire' = Written(wire, <<[at |-> <<Len(conns) + 1, 1>>, msg |-> Handshake(n)]>>)
    /\ UNCHANGED <<config, node, faults, early>>

\* The ends of n with frames to read.
OpenEnds(n) == {e \in Ends : /\ e[1] <= Len(conns) /\ Owner(e) = n
                             /\ e[2] = 2 => conns[e[1]].accepted
                             /\ wire[e] # <<>>}

\* How many frames of each the reader tasks have put in n's channel by the
\* time poll drains it.
Cuts(n) ==
    {cut \in [OpenEnds(n) -> 0 .. Max({0} \cup {Len(wire[e]) : e \in OpenEnds(n)})] :
        \A e \in OpenEnds(n) : cut[e] <= Len(wire[e])}

\* transport.poll: the channel's content, for an order of the ends.
Drain(order, cut) ==
    FoldLeft(LAMBDA got, e : got \o [i \in 1 .. cut[e] |-> [at |-> e, msg |-> wire[e][i]]],
             <<>>, order)

\* The connection breaks: frames in flight are lost, both reader tasks end
\* and the entries in the nodes' maps stay.
Break(c) ==
    /\ faults < MaxFaults
    /\ conns[c].up
    /\ conns' = [conns EXCEPT ![c].up = FALSE]
    /\ wire' = [wire EXCEPT ![<<c, 1>>] = <<>>, ![<<c, 2>>] = <<>>]
    /\ faults' = faults + 1
    /\ UNCHANGED <<config, node, early>>

-----------------------------------------------------------------------------
(* Peer manager. *)

\* add_peer refuses the node itself and a new peer beyond the limit.
AddPeerAllowed(n, s, p) ==
    p # n /\ (Cardinality(DOMAIN s.peers) < config[n].maxPeers \/ p \in DOMAIN s.peers)

\* update_height: an unknown peer is left alone, a known one is also fresh.
UpdateHeight(s, p, height) ==
    IF p \in DOMAIN s.peers
    THEN [s EXCEPT !.peers[p] = height, !.fresh = @ \cup {p}]
    ELSE s

\* get_random_peers: any Fanout of the peers, or all of them when they are fewer.
RandomPeers(s) ==
    kSubset(Min({Fanout, Cardinality(DOMAIN s.peers)}), DOMAIN s.peers)

\* A mutant: a peer is registered without the way back to its connection.
Register_Mut(s, e, p) ==
    [s EXCEPT !.peers = (p :> 0) @@ @,
              !.fresh = @ \cup {p},
              !.toPeer = (e :> p) @@ @,
              !.told = @ \cup {<<"PeerConnected", p>>}]

\* Registration of peer p on end e, as both handshake arms of poll do it.
Register(s, e, p) ==
    [s EXCEPT !.peers = (p :> 0) @@ @,
              !.fresh = @ \cup {p},
              !.toPeer = (e :> p) @@ @,
              !.toConn = (p :> e) @@ @,
              !.told = @ \cup {<<"PeerConnected", p>>}]

-----------------------------------------------------------------------------
(* Gossip layer. *)

\* mark_seen and prune_seen: the newest max_seen hashes, oldest first (and,
\* as history, how often one had to go).
MarkSeen(n, s, h) ==
    LET seen == Append(s.seen, h)
    IN  IF Len(seen) <= config[n].maxSeen THEN [s EXCEPT !.seen = seen]
        ELSE [s EXCEPT !.seen = Tail(seen), !.dropped[Head(seen)] = @ + 1]

\* The states in which h is queued for a random choice of the peers (and, as
\* history, how often it was).
Queued(s, h, except) ==
    { [s EXCEPT !.queue = @ \o SetToSeq({[to |-> p, msg |-> News(h)] : p \in picked \ except}),
                !.passed[h] = @ + 1]
      : picked \in RandomPeers(s) }

\* A mutant: a hash is passed on whether or not it was seen before.
PassOn_Mut(n, s, h, except) ==
    Queued(IF h \in Range(s.seen) THEN s ELSE MarkSeen(n, s, h), h, except)

\* gossip_block, gossip_transaction and the NewBlock and NewTransaction arms
\* of handle_message: a hash not seen before is marked and queued.
PassOn(n, s, h, except) ==
    IF h \in Range(s.seen) THEN {s} ELSE Queued(MarkSeen(n, s, h), h, except)

Respond(s, e, msg) == [s EXCEPT !.out = Append(@, [at |-> e, msg |-> msg])]

\* handle_message, for a connection that has a registered peer.
HandleMessage(n, s, e, msg, myHeight) ==
    CASE msg.type \in {"NewBlock", "NewTransaction"} -> PassOn(n, s, msg.hash, {s.toPeer[e]})
      [] msg.type = "Handshake" -> {Respond(s, e, HandshakeAck(msg.chain, n, myHeight))}
      [] msg.type = "HandshakeAck" -> {UpdateHeight(s, s.toPeer[e], msg.height)}

\* The arms of poll for a connection without a peer.
Introduce(n, s, e, msg, myHeight) ==
    CASE msg.type = "Handshake" ->
            IF /\ msg.chain = config[n].chain /\ msg.version = config[n].version
               /\ AddPeerAllowed(n, s, msg.from)
            THEN Respond(Register(s, e, msg.from), e, HandshakeAck(config[n].chain, n, myHeight))
            ELSE s
      [] msg.type = "HandshakeAck" ->
            IF msg.chain = config[n].chain /\ AddPeerAllowed(n, s, msg.from)
            THEN [UpdateHeight(Register(s, e, msg.from), msg.from, msg.height) EXCEPT
                    !.told = @ \cup (IF msg.height > myHeight
                                     THEN {<<"SyncNeeded", msg.height>>} ELSE {})]
            ELSE s
      [] OTHER -> s

\* The states one message of the channel can lead to.
Receive(n, s, m, myHeight) ==
    IF m.at \in DOMAIN s.toPeer
    THEN HandleMessage(n, s, m.at, m.msg, myHeight)
    ELSE {Introduce(n, s, m.at, m.msg, myHeight)}

-----------------------------------------------------------------------------
(* NetworkNode. *)

\* The hashes some node has dropped from its seen set.
Evicted == {h \in Hashes : \E n \in Nodes : node[n].dropped[h] > 0}

\* Every dialled link between two live nodes has both peers registered.
AllRegistered ==
    /\ \A d \in Dials : \E c \in DOMAIN conns : conns[c].ends = d
    /\ \A c \in DOMAIN conns : \A i \in {1, 2} :
          conns[c].ends[3 - i] \in DOMAIN node[conns[c].ends[i]].peers

\* broadcast_block and broadcast_transaction, called by the application.
Broadcast(n, h) ==
    /\ h \in config[n].news
    /\ h \notin Range(node[n].seen)
    /\ h \notin Evicted
    /\ \E s \in PassOn(n, node[n], h, {}) :
          node' = [node EXCEPT ![n] = [s EXCEPT !.best = Max({@, Height[h]})]]
    /\ early' = IF AllRegistered THEN early ELSE early \cup {h}
    /\ UNCHANGED <<config, conns, wire, faults>>

\* The oldest connection waiting in n's listen queue, if there is one.
Waiting(n) ==
    LET pending == {c \in DOMAIN conns : conns[c].ends[2] = n /\ ~conns[c].accepted}
    IN  IF pending = {} THEN {} ELSE {Min(pending)}

\* The states of n after the messages of its channel, taken in order.
Received(n, s, messages) ==
    FoldLeft(LAMBDA S, m : UNION {Receive(n, t, m, s.best) : t \in S}, {s}, messages)

\* A mutant: the queue is sent to the connection of the first peer.
Drained_Mut(s) ==
    LET sent == SelectSeq(s.queue, LAMBDA q : q.to \in DOMAIN s.toConn)
    IN  [i \in DOMAIN sent |->
            [at |-> s.toConn[CHOOSE p \in DOMAIN s.toConn : TRUE], msg |-> sent[i].msg]]

\* The gossip queue, addressed to the connections of its peers.
Drained(s) ==
    LET sent == SelectSeq(s.queue, LAMBDA q : q.to \in DOMAIN s.toConn)
    IN  [i \in DOMAIN sent |-> [at |-> s.toConn[sent[i].to], msg |-> sent[i].msg]]

\* Stale peers go from the peer manager only; a peer without a connection is
\* reported lost.
Pruned(s, stale) ==
    LET left == DOMAIN s.peers \ stale
        lost == left \ DOMAIN s.toConn
    IN  [s EXCEPT !.peers = Restrict(@, left \ lost),
                  !.told = @ \cup {<<"PeerDisconnected", p>> : p \in lost}]

\* A node as poll starts: the connection it accepts has been greeted.
Begun(n) ==
    node[n] @@ [fresh |-> {},
                out |-> SetToSeq({[at |-> <<c, 2>>, msg |-> Handshake(n)] : c \in Waiting(n)})]

\* The fields of a node that outlive a poll.
Kept(s) == [peers |-> s.peers, seen |-> s.seen, queue |-> <<>>, toPeer |-> s.toPeer,
            toConn |-> s.toConn, best |-> s.best, down |-> s.down, told |-> s.told,
            passed |-> s.passed, dropped |-> s.dropped]

\* poll: accept one connection and greet it, handle the whole channel, send
\* the responses and then the gossip queue, prune.
Poll(n) ==
    /\ ~node[n].down
    /\ \E order \in SetToSeqs(OpenEnds(n)), cut \in Cuts(n) :
       \E s \in Received(n, Begun(n), Drain(order, cut)) :
       \E stale \in SUBSET (DOMAIN s.peers \ s.fresh) :
          /\ faults' = faults + Cardinality(stale)
          /\ faults' <= MaxFaults
          /\ conns' = [c \in DOMAIN conns |->
                        IF c \in Waiting(n) THEN [conns[c] EXCEPT !.accepted = TRUE] ELSE conns[c]]
          /\ wire' = Written([e \in Ends |-> IF e \in DOMAIN cut
                                            THEN SubSeq(wire[e], cut[e] + 1, Len(wire[e]))
                                            ELSE wire[e]],
                             s.out \o Drained(s))
          /\ node' = [node EXCEPT ![n] = Kept(Pruned(s, stale))]
    /\ UNCHANGED <<config, early>>

\* shutdown only stops poll; the connections stay open.
Shutdown(n) ==
    /\ ~node[n].down
    /\ faults < MaxFaults
    /\ faults' = faults + 1
    /\ node' = [node EXCEPT ![n].down = TRUE]
    /\ UNCHANGED <<config, conns, wire, early>>

Next ==
    \/ \E n, m \in Nodes : ConnectToSeed(n, m)
    \/ \E c \in DOMAIN conns : Break(c)
    \/ \E n \in Nodes, h \in Hashes : Broadcast(n, h)
    \/ \E n \in Nodes : Poll(n)
    \/ \E n \in Nodes : Shutdown(n)

Spec == Init /\ [][Next]_vars

-----------------------------------------------------------------------------
(* Properties. *)

\* The peer manager and the two connection maps agree, after reconnections,
\* timeouts and breaks: a registered peer has a connection, the connection is
\* recorded as that peer's, and it does lead to that peer, which runs the same
\* chain.  So a queued message goes where it is addressed, and poll never
\* finds the lost peer it looks for (PeerDisconnected is never raised).  The
\* peers never exceed max_peers, and are never of another chain.
RegistriesAgree ==
    \A n \in Nodes :
        /\ Cardinality(DOMAIN node[n].peers) <= config[n].maxPeers
        /\ \A p \in DOMAIN node[n].peers :
              /\ p # n /\ config[p].chain = config[n].chain
              /\ p \in DOMAIN node[n].toConn
              /\ node[n].toPeer[node[n].toConn[p]] = p
        /\ \A e \in DOMAIN node[n].toPeer :
              Owner(e) = n /\ Owner(OtherEnd(e)) = node[n].toPeer[e]
        /\ \A p \in Nodes : <<"PeerDisconnected", p>> \notin node[n].told

\* The flood is bounded: a node passes a hash on once, and once more only for
\* every time the bounded seen set has dropped it, whatever copies of it reach
\* the node over several connections or from its own application; and what is
\* on a wire has been passed on by the node that sent it.
FloodBounded ==
    /\ \A n \in Nodes, h \in Hashes : node[n].passed[h] <= 1 + node[n].dropped[h]
    /\ \A e \in Ends : \A i \in DOMAIN wire[e] :
          wire[e][i].type \in {"NewBlock", "NewTransaction"}
              => node[Owner(OtherEnd(e))].passed[wire[e][i].hash] > 0

\* The registries agree and the flood is bounded.
NetworkSound == RegistriesAgree /\ FloodBounded

\* Once the network is at rest, what was broadcast after every link had its
\* peers registered has reached every node, unless
\* a connection breaks, a peer times out, a node shuts down or the hash is
\* dropped from a seen set: poll never sends a message twice, so the loss of
\* a send is final (the error of send is dropped at the drain of the queue).
Delivered ==
    LET atRest == /\ \A e \in Ends : wire[e] = <<>>
                  /\ \A n \in Nodes : node[n].queue = <<>>
    IN  \A h \in Hashes \ (early \cup Evicted) :
            atRest /\ faults = 0 /\ (\E n \in Nodes : h \in Range(node[n].seen))
                => \A n \in Nodes : h \in Range(node[n].seen)

=============================================================================
