--------------------------------- MODULE NodeApi ---------------------------------
(****************************************************************************)
(* The JSON-RPC server of koinon-node and the block loop of its main, which *)
(* share the block producer behind one mutex.  Every connection has its own *)
(* thread, which reads a line, handles it and writes the answer before it   *)
(* reads the next; every handler that reads the producer does so under the  *)
(* mutex, so a request is one step.                                         *)
(*                                                                          *)
(* A line is blank, unparsable (not JSON, without a method or params, or    *)
(* with an id that is no u64), or a request.  A transaction's hash is       *)
(* missing, badly written or one of Hashes.                                 *)
(****************************************************************************)
EXTENDS Integers, SequencesExt

CONSTANTS Clients, Hashes,
          Requests,             \* requests a client may send
          Accounts, Validators, \* ids the node's state has an entry for
          Reward,               \* base reward of a block
          Treasury,             \* genesis.treasury_balance
          Cap,                  \* OIKOS_MAX_SUPPLY
          MaxLines,             \* bound: lines of all connections
          MaxBlocks             \* bound: productions

NoId == 0               \* None

Blank == [method |-> "blank", param |-> "missing", id |-> NoId]

Garbage == [method |-> "garbage", param |-> "missing", id |-> NoId]

VARIABLES lines,        \* what each client has sent and the server not read
          answers,      \* what the server has written to each
          mempool,      \* Vec<Transaction>: hashes in order, repetitions included
          chain,        \* the transactions of the blocks produced
          minted,       \* conservation.minted of the node's own tracker
          rewarded,     \* minted of the reward processor's tracker
          sent,         \* ghost: the requests handled, per client, blank lines left out
          lost          \* ghost: transactions of productions that failed

vars == <<lines, answers, mempool, chain, minted, rewarded, sent, lost>>

Init ==
    /\ lines = [c \in Clients |-> << >>] /\ answers = [c \in Clients |-> << >>]
    /\ mempool = << >> /\ chain = << >> /\ minted = Treasury /\ rewarded = 0
    /\ sent = [c \in Clients |-> << >>] /\ lost = << >>

Send(c, line) ==
    /\ MapThenSumSet(LAMBDA d : Len(lines[d]) + Len(sent[d]), Clients) < MaxLines
    /\ lines' = [lines EXCEPT ![c] = Append(@, line)]
    /\ UNCHANGED <<answers, mempool, chain, minted, rewarded, sent, lost>>

--------------------------------------------------------------------------------
Ok(result, id) == [ok |-> TRUE, result |-> result, id |-> id]

Err(id) == [ok |-> FALSE, result |-> "none", id |-> id]

\* A method that looks up the entry its parameter names
Lookup(entries, req) == IF req.param \in entries THEN Ok(req.param, req.id) ELSE Err(req.id)

HandleGetAccount(req) == Lookup(Accounts, req)

HandleGetValidator(req) == Lookup(Validators, req)

\* The methods that show a part of the state, or the emission schedule, as it is
HandleList(req) == Ok(req.method, req.id)

\* A method that wants its parameter and answers without looking anything up
Stub(req) == IF req.param = "missing" THEN Err(req.id) ELSE Ok("stub", req.id)

Status == [minted |-> minted, mempool_size |-> Len(mempool)]

\* handle_submit_tx refuses only a hash that is missing or of the wrong length;
\* every other field that is missing or of the wrong type takes a default.
Accepts(req) == req.method = "submit_tx" /\ req.param \in Hashes

\* handle_request, and the error for a line that is no request
Answer(req) ==
    CASE req.method \in {"health", "emission", "validators", "mandates", "treasury"} ->
             HandleList(req)
      [] req.method = "status"         -> Ok(Status, req.id)
      [] req.method \in {"block", "tx"} -> Stub(req)
      [] req.method = "accounts"       -> HandleGetAccount(req)
      [] req.method = "validator"      -> HandleGetValidator(req)
      [] req.method = "submit_tx"      -> IF Accepts(req) THEN Ok(req.param, req.id) ELSE Err(req.id)
      [] OTHER                         -> Err(req.id)

\* The transaction is pushed only when it is not pending already
Submitted_Mut(req) ==
    IF Accepts(req) /\ ~Contains(mempool, req.param) THEN Append(mempool, req.param) ELSE mempool

Submitted(req) == IF Accepts(req) THEN Append(mempool, req.param) ELSE mempool

\* handle_connection, one line
Handle(c) ==
    LET line == Head(lines[c]) IN
    /\ lines[c] # << >>
    /\ lines' = [lines EXCEPT ![c] = Tail(@)]
    /\ \/ line = Blank /\ UNCHANGED <<answers, mempool, sent>>
       \/ /\ line # Blank
          /\ answers' = [answers EXCEPT ![c] = Append(@, Answer(line))]
          /\ sent' = [sent EXCEPT ![c] = Append(@, line)]
          /\ mempool' = Submitted(line)
    /\ UNCHANGED <<chain, minted, rewarded, lost>>

\* The loop of main: produce_block takes the whole mempool.  The reward may be
\* refused and the store may fail, after the mempool was drained.
ProduceBlock ==
    /\ Len(chain) + Len(lost) < MaxBlocks
    /\ mempool' = << >>
    /\ IF rewarded + Reward > Cap
       THEN lost' = Append(lost, mempool) /\ UNCHANGED <<chain, minted, rewarded>>
       ELSE /\ rewarded' = rewarded + Reward
            /\ minted' = IF minted + Reward > Cap THEN minted ELSE minted + Reward
            /\ \/ chain' = Append(chain, mempool) /\ UNCHANGED lost
               \/ lost' = Append(lost, mempool) /\ UNCHANGED chain
    /\ UNCHANGED <<lines, answers, sent>>

Next ==
    \/ \E c \in Clients, line \in Requests \cup {Blank, Garbage} : Send(c, line)
    \/ \E c \in Clients : Handle(c)
    \/ ProduceBlock

Spec == Init /\ [][Next]_vars

--------------------------------------------------------------------------------
\* The hashes a client was told are submitted
Acknowledged(c) ==
    LET acks == {i \in DOMAIN answers[c] : sent[c][i].method = "submit_tx" /\ answers[c][i].ok}
    IN  [i \in 1..Cardinality(acks) |-> answers[c][SetToSortSeq(acks, <)[i]].result]

Count(s, h) == Cardinality({i \in DOMAIN s : s[i] = h})

\* Every connection is answered once for each line that is not blank, in order
\* and with the request's own id; and whatever the connections and the block loop
\* interleave, each acknowledgement of a hash stands for one transaction that is
\* waiting, in a block, or was taken by a production that failed.
AnsweredInOrder ==
    /\ \A c \in Clients :
          /\ Len(answers[c]) = Len(sent[c])
          /\ \A i \in DOMAIN answers[c] : answers[c][i].id = sent[c][i].id
          /\ \A i, j \in DOMAIN answers[c] :
                (i < j /\ sent[c][i].method = "status" /\ sent[c][j].method = "status")
                    => answers[c][i].result.minted <= answers[c][j].result.minted
    /\ \A h \in Hashes :
          MapThenSumSet(LAMBDA c : Count(Acknowledged(c), h), Clients)
              = Count(mempool, h) + Count(FlattenSeq(chain), h) + Count(FlattenSeq(lost), h)
================================================================================
