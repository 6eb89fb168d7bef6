--------------------------------- MODULE MCNode ---------------------------------
(****************************************************************************)
(* The parts of a koinon node side by side: part says whether the DAG in    *)
(* the hands of careful callers, the node's own settlement loop, the        *)
(* network, the line server or the tables run.                              *)
(****************************************************************************)
EXTENDS Dag, Integers, TLC

CONSTANTS a, b, c, h1, h2       \* the nodes of the network, and what they gossip

VARIABLES part,
          loopNodes, loopTips,
          config, node, conns, wire, faults, early,
          lines, answers, mempool, chain, minted, rewarded, sent, lost,
          accounts, txs, mandates, writes, savedAccounts, savedTxs, savedMandates

loopVars    == <<loopNodes, loopTips>>
networkVars == <<config, node, conns, wire, faults, early>>
apiVars     == <<lines, answers, mempool, chain, minted, rewarded, sent, lost>>
storeVars   == <<accounts, txs, mandates, writes, savedAccounts, savedTxs, savedMandates>>

--------------------------------------------------------------------------------
Loop == INSTANCE NodeSettlement WITH nodes <- loopNodes, tips <- loopTips

(* Three nodes: a and c dial b, and both announce a block.  c's seen set holds *)
(* one hash, so that its transaction drives out the block; or b takes one     *)
(* peer only; or a is of another protocol version and c of another chain.     *)
Agreed == [n \in {a, b, c} |-> [chain |-> 1, version |-> 1, maxPeers |-> 2, maxSeen |-> 2,
                                news |-> IF n = b THEN {} ELSE {h1}]]

Nodes   == {a, b, c}
Hashes  == {h1, h2}
Dials   == {<<a, b>>, <<c, b>>}
Configs == {[Agreed EXCEPT ![c].maxSeen = 1, ![c].news = Hashes],
            [Agreed EXCEPT ![b].maxPeers = 1, ![a].news = {}],
            [Agreed EXCEPT ![a].version = 2, ![c].chain = 2]}
Height  == (h1 :> 1) @@ (h2 :> 0)
Kind    == (h1 :> "none") @@ (h2 :> "MandateCreate")

Net == INSTANCE Network WITH Fanout <- 2, MaxConns <- 2, MaxFaults <- 1

ASSUME NodeAssumption == Net!NetworkAssumption

(* Two clients: repeated hashes, a hash of the wrong length, a missing        *)
(* parameter, a method nobody knows.                                          *)
Request(method, param, id) == [method |-> method, param |-> param, id |-> id]

Api == INSTANCE NodeApi WITH
    Clients  <- {"c1", "c2"},
    Hashes   <- {"h1"},
    Requests <- {Request("submit_tx", "h1", 1), Request("submit_tx", "short", 2),
                 Request("status", "missing", 1), Request("accounts", "a1", 0),
                 Request("validator", "v9", 3), Request("treasury", "missing", 3),
                 Request("block", "missing", 3), Request("halt", "missing", 4)},
    Accounts <- {"a1"}, Validators <- {"v1"},
    Reward <- 2, Treasury <- 1, Cap <- 3, MaxLines <- 3, MaxBlocks <- 2

(* A key that fits its column and one that does not, the kinds at both ends   *)
(* of the list, and scopes with and without text.                             *)
Scope(name, text) == [scope |-> name, text |-> text]

Store == INSTANCE ChainStore WITH
    Ids <- {1, 9}, MaxI64 <- 8,
    Accounts <- {[koin |-> -3, nonce |-> 0], [koin |-> 7, nonce |-> 9]},
    Hashes <- {"h1", "h2"},
    Transactions <- {[kind |-> "TransferOikos", nonce |-> 1, parents |-> << >>],
                     [kind |-> "MandateCreate", nonce |-> 1, parents |-> <<"h1">>],
                     [kind |-> "MandateSpend", nonce |-> 9, parents |-> <<"h1", "h2">>]},
    MandateSet <- {[budget |-> 5, spent |-> 2, active |-> TRUE,
                    scopes |-> <<Scope("RfpRespond", << >>)>>],
                   [budget |-> 5, spent |-> 5, active |-> FALSE,
                    scopes |-> <<Scope("DelegateTo", <<"did:a">>), Scope("MintKoin", << >>)>>],
                   [budget |-> 1, spent |-> 0, active |-> TRUE,
                    scopes |-> <<Scope("Custom", <<"only", "TransferKoin">>),
                                 Scope("Custom", <<"audit">>)>>]},
    MaxWrites <- 4

--------------------------------------------------------------------------------
NetworkIdle == Net!Init /\ config = CHOOSE cfg \in Configs : TRUE

MCInit ==
    /\ part \in {"dag", "loop", "network", "api", "store"}
    /\ Init /\ Loop!Init /\ Api!Init /\ Store!Init
    /\ IF part = "network" THEN Net!Init ELSE NetworkIdle

MCNext ==
    /\ UNCHANGED part
    /\ \/ part = "dag"     /\ Next          /\ UNCHANGED <<loopVars, networkVars, apiVars, storeVars>>
       \/ part = "loop"    /\ Loop!NodeNext /\ UNCHANGED <<vars, networkVars, apiVars, storeVars>>
       \/ part = "network" /\ Net!Next      /\ UNCHANGED <<vars, loopVars, apiVars, storeVars>>
       \/ part = "api"     /\ Api!Next      /\ UNCHANGED <<vars, loopVars, networkVars, storeVars>>
       \/ part = "store"   /\ Store!Next    /\ UNCHANGED <<vars, loopVars, networkVars, apiVars>>

MCSpec ==
    /\ MCInit
    /\ [][MCNext]_<<part, vars, loopVars, networkVars, apiVars, storeVars>>
    /\ Loop!Fairness

--------------------------------------------------------------------------------
(* What the node's loop was given it settles in the end, as NodeSettlement   *)
(* states it.                                                                 *)
EventuallySettled == Loop!EventuallySettled

(* The peers a node has registered are the ones it is connected to, and a     *)
(* node passes a hash on once, as Network states it.                          *)
NetworkSound == part = "network" => Net!NetworkSound

(* What was broadcast has reached every node, as Network states it.           *)
Delivered == part = "network" => Net!Delivered

(* A connection is answered line by line, and an acknowledged transaction is  *)
(* not lost, as NodeApi states it.                                            *)
AnsweredInOrder == part = "api" => Api!AnsweredInOrder

(* The tables give back what was saved, as ChainStore states it.              *)
ReadsBack == part = "store" => Store!ReadsBack
================================================================================
