------------------------------- MODULE ChainStore -------------------------------
(****************************************************************************)
(* The tables of koinon-node's StateStore as rows, written by upserts and   *)
(* read back by gets and lists, over any number of save and load rounds.    *)
(* Amounts are stored as decimal text, which is exact; a u64 is stored in a *)
(* signed column and refused above MaxI64; a kind or a scope is stored as   *)
(* its Debug text and found again by looking for names inside the text.     *)
(* Text is a sequence of words.                                             *)
(****************************************************************************)
EXTENDS Integers, SequencesExt

CONSTANTS Ids,          \* u64 keys, the ones above MaxI64 included
          MaxI64,
          Accounts,     \* accounts callers write
          Hashes, Transactions, MandateSet,
          MaxWrites     \* bound: writes of a behaviour

Quote == "quote"

Backslash == "backslash"

UnitScopes == <<"TransferOikos", "TransferKoin", "MintKoin", "BurnKoin",
                "EscrowManage", "StreamManage", "RfpPublish", "RfpRespond">>

TextScopes == {"DelegateTo", "Custom"}

TxKinds == <<"TransferOikos", "TransferKoin", "MintKoin", "BurnKoin", "EscrowCreate",
             "EscrowRelease", "EscrowCancel", "StreamStart", "StreamStop", "RfpPublish",
             "RfpRespond", "MandateCreate", "MandateSpend">>

--------------------------------------------------------------------------------
\* The Debug text of a string: quoted, with quotes and backslashes escaped
Quoted(text) ==
    LET Escaped(w) == IF w \in {Quote, Backslash} THEN <<Backslash, w>> ELSE <<w>>
    IN  <<Quote>> \o FlattenSeq([i \in DOMAIN text |-> Escaped(text[i])]) \o <<Quote>>

\* format!("{s:?}") of a scope
ScopeText(s) ==
    IF s.scope \in TextScopes THEN <<s.scope, "(">> \o Quoted(s.text) \o <<")">> ELSE <<s.scope>>

Unit(name) == [scope |-> name, text |-> << >>]

\* The first of the names that occurs in the text
FirstIn(names, text) == names[CHOOSE i \in DOMAIN names :
    /\ Contains(text, names[i])
    /\ \A j \in 1..(i - 1) : ~Contains(text, names[j])]

\* Scopes with text are not told apart
ParseScope_Mut(text) ==
    IF Len(text) = 1 THEN Unit(text[1]) ELSE Unit("TransferOikos")

\* parse_scope: a name anywhere in the text decides, a prefix only after that;
\* what is left of the text keeps its quotes and escapes.
ParseScope(text) ==
    CASE ToSet(UnitScopes) \cap ToSet(text) # {} -> Unit(FirstIn(UnitScopes, text))
      [] Len(text) > 1 /\ text[1] \in TextScopes /\ text[2] = "(" ->
             [scope |-> text[1], text |-> SubSeq(text, 3, Len(text) - 1)]
      [] OTHER -> Unit("TransferOikos")

\* parse_tx_kind
ParseTxKind(text) ==
    IF ToSet(TxKinds) \cap ToSet(text) # {} THEN FirstIn(TxKinds, text) ELSE "MandateSpend"

--------------------------------------------------------------------------------
VARIABLES accounts, txs, mandates,      \* the tables; txs in the order of rowid
          writes,
          savedAccounts, savedTxs, savedMandates        \* ghosts: what was last saved

tables == <<accounts, txs, mandates>>
saved  == <<savedAccounts, savedTxs, savedMandates>>
vars   == <<tables, writes, saved>>

Storable(n) == n <= MaxI64              \* a u64 as a parameter

Put(table, id, row) == (id :> row) @@ table

Init ==
    /\ accounts = << >> /\ txs = << >> /\ mandates = << >>
    /\ writes = 0
    /\ savedAccounts = << >> /\ savedTxs = << >> /\ savedMandates = << >>

Write == writes < MaxWrites /\ writes' = writes + 1

\* upsert_account; a number the column cannot hold fails the statement
UpsertAccount(id, a) ==
    /\ Write
    /\ IF Storable(id) /\ Storable(a.nonce)
       THEN accounts' = Put(accounts, id, a) /\ savedAccounts' = Put(savedAccounts, id, a)
       ELSE UNCHANGED <<accounts, savedAccounts>>
    /\ UNCHANGED <<txs, mandates, savedTxs, savedMandates>>

\* get_account and list_accounts
GetAccount(id) == accounts[id]

\* insert_transaction: a row that is replaced moves to the end.
InsertTransaction(h, tx) ==
    /\ Write
    /\ IF Storable(tx.nonce)
       THEN /\ txs' = Append(SelectSeq(txs, LAMBDA r : r.hash # h),
                             [hash |-> h, kind |-> <<tx.kind>>, nonce |-> tx.nonce,
                              parents |-> [i \in DOMAIN tx.parents |-> <<"hex", tx.parents[i]>>]])
            /\ savedTxs' = Append(SelectSeq(savedTxs, LAMBDA r : r.hash # h), tx @@ [hash |-> h])
       ELSE UNCHANGED <<txs, savedTxs>>
    /\ UNCHANGED <<accounts, mandates, savedAccounts, savedMandates>>

\* A row of transactions as get_transaction and list_transactions give it;
\* parents that are not the hex text of a hash are dropped.
TransactionOf(row) ==
    [hash |-> row.hash, kind |-> ParseTxKind(row.kind), nonce |-> row.nonce,
     parents |-> LET good == SelectSeq(row.parents, LAMBDA p : p[1] = "hex")
                 IN  [i \in DOMAIN good |-> good[i][2]]]

\* The newest first, at most limit
ListTransactions(limit) ==
    LET newest == Reverse([i \in DOMAIN txs |-> TransactionOf(txs[i])])
    IN  SubSeq(newest, 1, IF limit < Len(newest) THEN limit ELSE Len(newest))

\* upsert_mandate; did and allowed_contracts have no column
MandateRow(m) ==
    [budget |-> m.budget, spent |-> m.spent, active |-> m.active,
     scopes |-> [i \in DOMAIN m.scopes |-> ScopeText(m.scopes[i])]]

UpsertMandate(id, m) ==
    /\ Write
    /\ IF Storable(id)
       THEN /\ mandates' = Put(mandates, id, MandateRow(m))
            /\ savedMandates' = Put(savedMandates, id, m)
       ELSE UNCHANGED <<mandates, savedMandates>>
    /\ UNCHANGED <<accounts, txs, savedAccounts, savedTxs>>

\* get_mandate and list_mandates
GetMandate(id) ==
    LET row == mandates[id]
    IN  [budget |-> row.budget, spent |-> row.spent, active |-> row.active, did |-> "",
         scopes |-> [i \in DOMAIN row.scopes |-> ParseScope(row.scopes[i])]]

\* A mandate that was loaded is saved again
Resave(id) ==
    /\ Write
    /\ mandates' = Put(mandates, id, MandateRow(GetMandate(id)))
    /\ UNCHANGED <<accounts, txs, saved>>

Next ==
    \/ \E id \in Ids, a \in Accounts : UpsertAccount(id, a)
    \/ \E h \in Hashes, tx \in Transactions : InsertTransaction(h, tx)
    \/ \E id \in Ids, m \in MandateSet : UpsertMandate(id, m)
    \/ \E id \in DOMAIN mandates : Resave(id)

Spec == Init /\ [][Next]_vars

--------------------------------------------------------------------------------
\* The text of a scope that names no unit scope
Plain(s) == ToSet(s.text) \cap ToSet(UnitScopes) = {}

\* Whatever was written over what, and however often a mandate was loaded and
\* saved again, the tables give back what was last saved: accounts, transactions
\* newest first with their kinds and parents, and of a mandate its budget, what
\* it has spent, whether it is active and the constructor of each scope, as long
\* as a scope's text names no other scope.
ReadsBack ==
    /\ \A id \in DOMAIN savedAccounts : GetAccount(id) = savedAccounts[id]
    /\ \A limit \in 0..Len(savedTxs) :
          ListTransactions(limit) = SubSeq(Reverse(savedTxs), 1, limit)
    /\ DOMAIN mandates = DOMAIN savedMandates
    /\ \A id \in DOMAIN mandates :
          LET m == GetMandate(id)
              s == savedMandates[id]
          IN  /\ <<m.budget, m.spent, m.active>> = <<s.budget, s.spent, s.active>>
              /\ Len(m.scopes) = Len(s.scopes)
              /\ \A i \in DOMAIN s.scopes :
                    Plain(s.scopes[i]) => m.scopes[i].scope = s.scopes[i].scope
================================================================================
