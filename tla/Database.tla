--------------------------------- MODULE Database ---------------------------------
(****************************************************************************)
(* tpt-archon-relational's Database as one session drives it: DDL, INSERT,  *)
(* UPDATE, DELETE and transactions over the tables Query reads.  A write    *)
(* in an open transaction is buffered with its table and reaches the tree,  *)
(* and the vector indexes, at COMMIT.                                       *)
(*                                                                          *)
(* Left out: the version chains of each table's MvccStore (module Mvcc).    *)
(* A table's store serves one transaction at a time here, so its commit     *)
(* finds no later version and never conflicts.  An IVFFlat index is one     *)
(* list of <<row id, vector>>, as nlist_for makes it for fewer than four    *)
(* vectors; which lists a search skips on larger tables is not modelled.    *)
(****************************************************************************)
EXTENDS Query

CONSTANTS Statements,         \* the statements a client may send
          MinRowsForIndex,    \* MIN_ROWS_FOR_INDEX
          MaxRows             \* name -> bound on the row ids of the table

VARIABLES tables,             \* name -> schema, tree, next row id, transaction, indexes
          views,              \* name -> defining query
          in_transaction,
          active_txns,        \* the tables with a transaction, in the order begun
          mixed,              \* ghost: tables altered under their buffered writes
          detached            \* ghost: <<table, column>> indexed and then dropped or renamed

databaseVars == <<tables, views, in_transaction, active_txns, mixed, detached>>

db == [tables |-> tables, views |-> views]

NewTable(cols, types) ==
    [columns |-> cols, types |-> types, tree |-> <<>>, next |-> 0, txn |-> <<>>, indexes |-> <<>>]

DatabaseInit ==
    /\ tables = <<>> /\ views = <<>> /\ in_transaction = FALSE /\ active_txns = <<>>
    /\ mixed = {} /\ detached = {}

--------------------------------------------------------------------------------
\* IvfFlatIndex::insert and remove
IndexRemove(idx, id) == SelectSeq(idx, LAMBDA e : e[1] # id)
IndexInsert(idx, id, v) == Append(IndexRemove(idx, id), <<id, v>>)

MaintainForRow(t, id, row) ==
    [t EXCEPT !.indexes = [c \in DOMAIN @ |->
        LET slot == Position(t.columns, c)
        IN  IF slot > 0 /\ row[slot][1] = 2 THEN IndexInsert(@[c], id, row[slot][2]) ELSE IndexRemove(@[c], id)]]

MaintainOnDelete(t, id) == [t EXCEPT !.indexes = [c \in DOMAIN @ |-> IndexRemove(@[c], id)]]

\* An index for every vector column without one that holds a vector; a row of
\* the wrong width stops it.  The result is a sequence, empty on an error.
MaybeBuild(t) ==
    LET Rows_(ids) == [k \in DOMAIN ids |-> <<ids[k], TryDecodeRow(t.tree[ids[k]])>>]
        Vectors(rows, i) == LET hits == SelectSeq(rows, LAMBDA r : r[2][i][1] = 2)
                            IN  [k \in DOMAIN hits |-> <<hits[k][1], hits[k][2][i][2]>>]
        Built(rows, pending) ==
            [c \in {t.columns[i] : i \in {j \in pending : Vectors(rows, j) # <<>>}} |->
                Vectors(rows, Position(t.columns, c))] @@ t.indexes
        Build(rows, pending) ==
            IF t.next < MinRowsForIndex \/ pending = {} THEN <<t>>
            ELSE IF \E k \in DOMAIN rows : Len(rows[k][2]) # Len(t.columns) THEN <<>>
            ELSE <<[t EXCEPT !.indexes = Built(rows, pending)]>>
    IN  Build(Rows_(SelectSeq([i \in 1 .. t.next |-> i - 1], LAMBDA id : id \in DOMAIN t.tree)),
              {i \in DOMAIN t.columns : t.types[i] = "vector" /\ t.columns[i] \notin DOMAIN t.indexes})

\* ensure_txn, for a table that exists
EnsureTxn(t) == IF in_transaction /\ t.txn = <<>> THEN [t EXCEPT !.txn = <<<<>>>>] ELSE t
Touched(name) == IF in_transaction /\ ~Contains(active_txns, name) THEN Append(active_txns, name) ELSE active_txns

--------------------------------------------------------------------------------
\* run_create_table: a view of the same name is no obstacle
CreateTable(st) ==
    /\ st.s = "create table" /\ st.table \notin DOMAIN tables
    /\ tables' = st.table :> NewTable(<<<<"id">>>> \o [i \in DOMAIN st.columns |-> st.columns[i].name],
                                      <<"int">> \o [i \in DOMAIN st.columns |-> st.columns[i].ctype]) @@ tables
    /\ UNCHANGED <<views, in_transaction, active_txns, mixed, detached>>

\* run_create_view: only a direct reference to itself is refused
CreateView(st) ==
    /\ st.s = "create view" /\ st.name \notin DOMAIN tables \cup DOMAIN views
    /\ ~SelectReferencesTable(st.query, st.name)
    /\ views' = st.name :> st.query @@ views
    /\ UNCHANGED <<tables, in_transaction, active_txns, mixed, detached>>

DropView(st) ==
    /\ st.s = "drop view" /\ st.name \in DOMAIN views
    /\ views' = [n \in DOMAIN views \ {st.name} |-> views[n]]
    /\ UNCHANGED <<tables, in_transaction, active_txns, mixed, detached>>

\* Every row of the tree decoded, changed and encoded again; buffered rows stay
Reencode(t, Row(_)) == [id \in DOMAIN t.tree |-> EncodeRow(Row(TryDecodeRow(t.tree[id])))]

\* The rows are left as they are
AddColumn_Mut(t, c) == [t EXCEPT !.columns = Append(@, c.name), !.types = Append(@, c.ctype)]

AddColumn(t, c) ==
    [t EXCEPT !.tree = Reencode(t, LAMBDA r : Append(r, Null)),
              !.columns = Append(@, c.name), !.types = Append(@, c.ctype)]

DropColumn(t, i) ==
    [t EXCEPT !.tree = Reencode(t, LAMBDA r : RemoveAt(r, i)),
              !.columns = RemoveAt(@, i), !.types = RemoveAt(@, i)]

\* run_alter_table; the implicit id, column 1, is neither dropped nor renamed
AlterTable(st) ==
    LET t == tables[st.table]
        i == Position(t.columns, IF st.op.op = "drop" THEN st.op.name ELSE st.op.old)
    IN  /\ st.s = "alter table" /\ st.table \in DOMAIN tables
        /\ \/ /\ st.op.op = "add" /\ Position(t.columns, st.op.column.name) = 0
              /\ tables' = [tables EXCEPT ![st.table] = AddColumn(t, st.op.column)]
              /\ UNCHANGED detached
           \/ /\ st.op.op = "drop" /\ i > 1
              /\ tables' = [tables EXCEPT ![st.table] = DropColumn(t, i)]
              /\ detached' = detached \cup ({<<st.table, st.op.name>>} \cap ({st.table} \X DOMAIN t.indexes))
           \/ /\ st.op.op = "rename" /\ i > 1 /\ Position(t.columns, st.op.new) = 0
              /\ tables' = [tables EXCEPT ![st.table].columns[i] = st.op.new]
              /\ detached' = detached \cup ({<<st.table, st.op.old>>} \cap ({st.table} \X DOMAIN t.indexes))
        /\ mixed' = IF st.op.op # "rename" /\ t.txn # <<>> /\ t.txn[1] # <<>> THEN mixed \cup {st.table} ELSE mixed
        /\ UNCHANGED <<views, in_transaction, active_txns>>

--------------------------------------------------------------------------------
\* literal_to_value: NULL fits every column
Fits(type, lit) ==
    lit[1] = 3 \/ lit[1] = CASE type = "int" -> 0 [] type = "text" -> 1 [] type = "vector" -> 2

\* A row written under an id: buffered in a transaction, else put in the tree,
\* with the vector indexes
WriteRow(t, id, row) ==
    IF in_transaction THEN [t EXCEPT !.txn[1] = id :> <<EncodeRow(row)>> @@ @]
    ELSE MaintainForRow([t EXCEPT !.tree = id :> EncodeRow(row) @@ @], id, row)

\* run_insert_stmt: what the columns given leave out is Int(0), whatever its type
Inserted(t, st, slots) ==
    LET given == FoldLeft(LAMBDA row, i : [row EXCEPT ![slots[i]] = st.values[i]],
                          [i \in DOMAIN t.columns |-> Int_(0)], [i \in DOMAIN slots |-> i])
        Write(row) == [WriteRow(t, t.next, row) EXCEPT !.next = @ + 1]
        Build(written, built) == IF in_transaction \/ built = <<>> THEN written ELSE built[1]
        Indexed(written) == Build(written, MaybeBuild(written))
    IN  IF \/ Contains(slots, 0) \/ Len(st.values) # Len(slots)
           \/ \E i \in DOMAIN slots : ~Fits(t.types[slots[i]], st.values[i])
        THEN t
        ELSE Indexed(Write(IF Contains(slots, 1) THEN given ELSE [given EXCEPT ![1] = Int_(t.next)]))

Insert(st) ==
    LET Slots(cols) == IF st.columns = <<>> THEN [i \in DOMAIN cols |-> i]
                       ELSE [i \in DOMAIN st.columns |-> Position(cols, st.columns[i])]
    IN  /\ st.s = "insert" /\ st.table \in DOMAIN tables /\ tables[st.table].next < MaxRows[st.table]
        /\ tables' = [tables EXCEPT ![st.table] = Inserted(EnsureTxn(@), st, Slots(@.columns))]
        /\ active_txns' = Touched(st.table)
        /\ UNCHANGED <<views, in_transaction, mixed, detached>>

\* matching_row_ids, in a sequence; empty on an error
Hits(ids, truth) ==
    IF Contains(truth, "error") THEN <<>> ELSE <<{ids[k] : k \in {j \in DOMAIN ids : truth[j] = "t"}}>>

Truths(ctx, filter, scan, cache) ==
    [k \in DOMAIN scan.rows |->
        EvalWhere(Env(ctx, scan.columns, scan.rows[k], <<>>, scan.columns, cache), filter, 0).v]

Matching(ctx, ids, filter, scan) ==
    IF ~scan.ok THEN <<>>
    ELSE IF filter = <<>> THEN <<ToSet(ids)>>
    ELSE Hits(ids, Truths(ctx, filter[1], scan, BuildSubqueryCache(ctx, filter[1], scan.columns)))

MatchingRowIds(name, filter) ==
    Matching([db |-> db, params |-> <<>>, ctes |-> <<>>], VisibleIds(tables[name]), filter, ScanTable(db, name))

\* run_update: assignments to the id are skipped; a bad one is an error as soon
\* as there is a row to update
Updated(t, st, hits) ==
    LET Slot(a) == Position(t.columns, a.column)
        valid == \A i \in DOMAIN st.assignments :
                    LET a == st.assignments[i] IN Slot(a) = 1 \/ (Slot(a) > 1 /\ Fits(t.types[Slot(a)], a.value))
        NewRow(id) == FoldLeft(LAMBDA row, a : IF Slot(a) = 1 THEN row ELSE [row EXCEPT ![Slot(a)] = a.value],
                               TryDecodeRow(VisibleRow(t, id)[1]), st.assignments)
    IN  IF hits # {} /\ ~valid THEN t
        ELSE FoldLeft(LAMBDA u, id : WriteRow(u, id, NewRow(id)), t, SetToSortSeq(hits, <))

Update(st) ==
    /\ st.s = "update" /\ st.table \in DOMAIN tables
    /\ \E hits \in ToSet(MatchingRowIds(st.table, st.filter)) :
          tables' = [tables EXCEPT ![st.table] = Updated(EnsureTxn(@), st, hits)]
    /\ active_txns' = Touched(st.table)
    /\ UNCHANGED <<views, in_transaction, mixed, detached>>

Deleted(t, hits) ==
    LET Drop(u, id) == IF in_transaction THEN [u EXCEPT !.txn[1] = id :> <<>> @@ @]
                       ELSE MaintainOnDelete([u EXCEPT !.tree = [i \in DOMAIN @ \ {id} |-> @[i]]], id)
    IN  FoldLeft(Drop, t, SetToSortSeq(hits, <))

Delete(st) ==
    /\ st.s = "delete" /\ st.table \in DOMAIN tables
    /\ \E hits \in ToSet(MatchingRowIds(st.table, st.filter)) :
          tables' = [tables EXCEPT ![st.table] = Deleted(EnsureTxn(@), hits)]
    /\ active_txns' = Touched(st.table)
    /\ UNCHANGED <<views, in_transaction, mixed, detached>>

--------------------------------------------------------------------------------
BeginTransaction(st) ==
    /\ st.s = "begin" /\ ~in_transaction
    /\ in_transaction' = TRUE /\ active_txns' = <<>>
    /\ UNCHANGED <<tables, views, mixed, detached>>

\* A tombstone is forgotten
ApplyWrite_Mut(acc, id) ==
    LET w == acc.t.txn[1][id]
        put == [acc.t EXCEPT !.tree = id :> w[1] @@ @]
    IN  IF ~acc.ok \/ w = <<>> THEN acc
        ELSE IF Len(TryDecodeRow(w[1])) # Len(acc.t.columns) THEN [ok |-> FALSE, t |-> put]
        ELSE [acc EXCEPT !.t = MaintainForRow(put, id, TryDecodeRow(w[1]))]

\* One buffered write put in the tree.  A row of the wrong width is in the tree
\* when it stops the commit.
ApplyWrite(acc, id) ==
    LET w == acc.t.txn[1][id]
        put == [acc.t EXCEPT !.tree = id :> w[1] @@ @]
    IN  IF ~acc.ok THEN acc
        ELSE IF w = <<>>
             THEN [acc EXCEPT !.t = MaintainOnDelete([acc.t EXCEPT !.tree = [i \in DOMAIN @ \ {id} |-> @[i]]], id)]
        ELSE IF Len(TryDecodeRow(w[1])) # Len(acc.t.columns) THEN [ok |-> FALSE, t |-> put]
        ELSE [acc EXCEPT !.t = MaintainForRow(put, id, TryDecodeRow(w[1]))]

\* The writes of one table in the order of their ids, then the indexes; nothing
\* more once a table has failed
CommitTable(acc, name) ==
    LET Build(done, built) == [ok |-> done.ok /\ built # <<>>,
                               tables |-> [acc.tables EXCEPT ![name] = IF done.ok /\ built # <<>> THEN built[1] ELSE done.t]]
        Indexed(done) == Build(done, MaybeBuild(done.t))
        Apply(t) == FoldLeft(ApplyWrite, [ok |-> TRUE, t |-> t], SetToSortSeq(DOMAIN t.txn[1], <))
    IN  IF acc.ok THEN Indexed(Apply(acc.tables[name])) ELSE acc

Closed(ts) == [n \in DOMAIN ts |-> [ts[n] EXCEPT !.txn = <<>>]]

Commit(st) ==
    /\ st.s = "commit" /\ in_transaction
    /\ tables' = Closed(FoldLeft(CommitTable, [ok |-> TRUE, tables |-> tables], active_txns).tables)
    /\ in_transaction' = FALSE /\ active_txns' = <<>>
    /\ UNCHANGED <<views, mixed, detached>>

Rollback(st) ==
    /\ st.s = "rollback" /\ in_transaction
    /\ tables' = Closed(tables)
    /\ in_transaction' = FALSE /\ active_txns' = <<>>
    /\ UNCHANGED <<views, mixed, detached>>

\* Database::execute; SELECT changes nothing and is asked of every state below
Execute(st) ==
    \/ CreateTable(st) \/ CreateView(st) \/ DropView(st) \/ AlterTable(st)
    \/ Insert(st) \/ Update(st) \/ Delete(st)
    \/ BeginTransaction(st) \/ Commit(st) \/ Rollback(st)

DatabaseNext == \E st \in Statements : Execute(st)

DatabaseSpec == DatabaseInit /\ [][DatabaseNext]_databaseVars

--------------------------------------------------------------------------------
DecodedRows(t, ids, Row(_)) == [id \in ids |-> TryDecodeRow(Row(id))]

\* The session a client sees: the rows of every table under the open
\* transaction, and those of the trees
Session == INSTANCE AbstractSession WITH
    rows <- [n \in DOMAIN tables |->
                LET t == tables[n] IN DecodedRows(t, ToSet(VisibleIds(t)), LAMBDA id : VisibleRow(t, id)[1])],
    base <- [n \in DOMAIN tables |->
                LET t == tables[n] IN DecodedRows(t, DOMAIN t.tree, LAMBDA id : t.tree[id])],
    open <- in_transaction,
    lost <- mixed # {}

\* BEGIN, COMMIT and ROLLBACK of Database::execute keep the promise of
\* AbstractSession: a transaction's statements show at once to their session
\* and not in the trees, COMMIT makes all of them permanent over all tables, and
\* ROLLBACK none; unless a table was altered under its own buffered writes.
ImplementsSession == Session!Spec

\* Every row in a tree or a buffer, of a table not altered under buffered writes,
\* decodes to one value per column, each of the column's type, NULL or the
\* default Int(0): run_alter_table re-encodes what run_insert_stmt and run_update
\* wrote.  A vector index that was not detached by DROP or RENAME COLUMN holds
\* exactly the vectors of the tree, each once, through COMMIT and single writes.
TablesSound ==
    \A n \in DOMAIN tables \ mixed :
        LET t == tables[n]
            Sound(bytes) == LET r == TryDecodeRow(bytes) IN
                /\ Len(r) = Len(t.columns)
                /\ \A i \in DOMAIN r : r[i] = Int_(0) \/ Fits(t.types[i], r[i])
        IN  /\ \A id \in DOMAIN t.tree : Sound(t.tree[id]) /\ id < t.next
            /\ t.txn # <<>> => /\ in_transaction /\ Contains(active_txns, n)
                               /\ \A id \in DOMAIN t.txn[1] : t.txn[1][id] = <<>> \/ Sound(t.txn[1][id][1])
            /\ \A c \in DOMAIN t.indexes : <<n, c>> \notin detached =>
                   LET i == Position(t.columns, c) IN
                   /\ i > 0 /\ IsInjective([k \in DOMAIN t.indexes[c] |-> t.indexes[c][k][1]])
                   /\ ToSet(t.indexes[c]) = {<<id, TryDecodeRow(t.tree[id])[i][2]>> :
                                              id \in {j \in DOMAIN t.tree : TryDecodeRow(t.tree[j])[i][1] = 2}}
================================================================================
