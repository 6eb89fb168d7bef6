------------------------------- MODULE BTree -------------------------------
(* tpt-archon-core's B-Link tree (btree.rs): an arena of nodes with         *)
(* right-links and high keys.  Node ids count from 1; an option is a        *)
(* sequence of length 0 or 1.                                               *)
EXTENDS Naturals, FiniteSets, FiniteSetsExt, Sequences, SequencesExt, TLC

CONSTANTS
    Keys,       \* the keys, a set of naturals
    Values,     \* the values
    Capacity,   \* NODE_CAPACITY
    MaxNodes    \* bound: the arena

VARIABLES
    nodes,      \* the arena
    root,       \* the id of the root
    content     \* history: the map the calls so far have asked for

treeVars == <<nodes, root, content>>

Leaf(keys, vals, right, high) ==
    [leaf |-> TRUE, keys |-> keys, vals |-> vals, right |-> right, high |-> high]
Internal(keys, children, right, high) ==
    [leaf |-> FALSE, keys |-> keys, children |-> children, right |-> right, high |-> high]

TreeInit ==
    /\ nodes = <<Leaf(<<>>, <<>>, <<>>, <<>>)>>
    /\ root = 1
    /\ content = <<>>

-----------------------------------------------------------------------------
(* Searching. *)

\* binary_search in sorted keys: how many are smaller than k, or at most k.
Below(keys, k) == Cardinality({i \in DOMAIN keys : keys[i] < k})
UpTo(keys, k) == Cardinality({i \in DOMAIN keys : keys[i] <= k})
Has(keys, k) == k \in Range(keys)

\* A mutant: a key equal to the separator is sent left.
ChildFor_Mut(n, k) == n.children[Below(n.keys, k) + 1]

\* The child an internal node sends k to: a key equal to k sends it right.
ChildFor(n, k) == n.children[UpTo(n.keys, k) + 1]

\* Whether k lies beyond what the node covers, so that the right-link is due.
Beyond(n, k) == n.high # <<>> /\ n.right # <<>> /\ k >= n.high[1]

\* The loop of get and delete: right along the links and down to a leaf.
RECURSIVE LeafFrom(_, _, _)
LeafFrom(ns, id, k) ==
    IF Beyond(ns[id], k) THEN LeafFrom(ns, ns[id].right[1], k)
    ELSE IF ns[id].leaf THEN id ELSE LeafFrom(ns, ChildFor(ns[id], k), k)

\* get, started at node id: an option.
GetFrom(ns, id, k) ==
    LET n == ns[LeafFrom(ns, id, k)]
    IN  IF Has(n.keys, k) THEN <<n.vals[Below(n.keys, k) + 1]>> ELSE <<>>

\* leftmost_leaf_for and insert_rec go straight down: the nodes on the way.
RECURSIVE PathTo(_, _, _)
PathTo(ns, id, k) ==
    IF ns[id].leaf THEN <<id>> ELSE <<id>> \o PathTo(ns, ChildFor(ns[id], k), k)

\* leftmost_leaf.
RECURSIVE LeftmostLeaf(_, _)
LeftmostLeaf(ns, id) == IF ns[id].leaf THEN id ELSE LeftmostLeaf(ns, ns[id].children[1])

\* The leaves from leaf id on, along the right-links.
RECURSIVE LeavesFrom(_, _)
LeavesFrom(ns, id) ==
    <<id>> \o (IF ns[id].right = <<>> THEN <<>> ELSE LeavesFrom(ns, ns[id].right[1]))

\* The pairs of a leaf.
Pairs(n) == [i \in DOMAIN n.keys |-> <<n.keys[i], n.vals[i]>>]

\* range: the scan starts at the leaf for lo and ends at the first key >= hi.
RangeScan(ns, rt, lo, hi) ==
    LET all == FlattenSeq([i \in DOMAIN LeavesFrom(ns, Last(PathTo(ns, rt, lo))) |->
                              Pairs(ns[LeavesFrom(ns, Last(PathTo(ns, rt, lo)))[i]])])
        stop == {i \in DOMAIN all : all[i][1] >= hi}
        scanned == IF stop = {} THEN all ELSE SubSeq(all, 1, Min(stop) - 1)
    IN  IF lo >= hi THEN <<>> ELSE SelectSeq(scanned, LAMBDA p : p[1] >= lo)

\* len: the keys of every leaf on the chain.
TreeLen(ns, rt) ==
    FoldLeft(LAMBDA sum, id : sum + Len(ns[id].keys), 0, LeavesFrom(ns, LeftmostLeaf(ns, rt)))

-----------------------------------------------------------------------------
(* Insertion. *)

Mid == (Capacity + 1) \div 2

\* A mutant: the left half keeps the old high key.
SplitLeaf_Mut(ns, id) ==
    LET n == ns[id]
        keys == SubSeq(n.keys, Mid + 1, Len(n.keys))
    IN  [nodes |-> Append([ns EXCEPT ![id] = Leaf(SubSeq(n.keys, 1, Mid), SubSeq(n.vals, 1, Mid),
                                                  <<Len(ns) + 1>>, n.high)],
                          Leaf(keys, SubSeq(n.vals, Mid + 1, Len(n.vals)), n.right, n.high)),
         split |-> <<keys[1], Len(ns) + 1>>]

\* split_leaf: the upper part moves to a new node on the right; its first key
\* separates the two.
SplitLeaf(ns, id) ==
    LET n == ns[id]
        keys == SubSeq(n.keys, Mid + 1, Len(n.keys))
    IN  [nodes |-> Append([ns EXCEPT ![id] = Leaf(SubSeq(n.keys, 1, Mid), SubSeq(n.vals, 1, Mid),
                                                  <<Len(ns) + 1>>, <<keys[1]>>)],
                          Leaf(keys, SubSeq(n.vals, Mid + 1, Len(n.vals)), n.right, n.high)),
         split |-> <<keys[1], Len(ns) + 1>>]

\* split_internal: the separator moves up and stays in neither half.
SplitInternal(ns, id) ==
    LET n == ns[id]
        sep == n.keys[Mid + 1]
    IN  [nodes |-> Append([ns EXCEPT ![id] = Internal(SubSeq(n.keys, 1, Mid),
                                                      SubSeq(n.children, 1, Mid + 1),
                                                      <<Len(ns) + 1>>, <<sep>>)],
                          Internal(SubSeq(n.keys, Mid + 2, Len(n.keys)),
                                   SubSeq(n.children, Mid + 2, Len(n.children)),
                                   n.right, n.high)),
         split |-> <<sep, Len(ns) + 1>>]

Whole(ns) == [nodes |-> ns, split |-> <<>>]

\* The leaf step of insert_rec: replace, or insert and split an overfull leaf.
InsertLeaf(ns, id, k, v) ==
    LET n == ns[id]
        i == Below(n.keys, k) + 1
        grown == [ns EXCEPT ![id].keys = InsertAt(@, i, k), ![id].vals = InsertAt(@, i, v)]
    IN  IF Has(n.keys, k) THEN Whole([ns EXCEPT ![id].vals[i] = v])
        ELSE IF Len(n.keys) + 1 > Capacity THEN SplitLeaf(grown, id) ELSE Whole(grown)

\* The step of insert_rec on the way up, when the child has split.
InsertSeparator(ns, id, sep, right) ==
    LET pos == Below(ns[id].keys, sep) + 1
        grown == [ns EXCEPT ![id].keys = InsertAt(@, pos, sep),
                            ![id].children = InsertAt(@, pos + 1, right)]
    IN  IF Len(ns[id].keys) + 1 > Capacity THEN SplitInternal(grown, id) ELSE Whole(grown)

\* insert_rec: down the path to the leaf, and up again as far as nodes split.
InsertAlong(ns, path, k, v) ==
    FoldRight(LAMBDA id, r : IF r.split = <<>> THEN r
                             ELSE InsertSeparator(r.nodes, id, r.split[1], r.split[2]),
              Front(path), InsertLeaf(ns, Last(path), k, v))

\* insert: a root that has split gets a new root above the two halves.
WithRoot(r) ==
    IF r.split = <<>> THEN [nodes |-> r.nodes, root |-> root]
    ELSE [nodes |-> Append(r.nodes, Internal(<<r.split[1]>>, <<root, r.split[2]>>, <<>>, <<>>)),
          root |-> Len(r.nodes) + 1]

Insert(k, v) ==
    \E r \in {WithRoot(InsertAlong(nodes, PathTo(nodes, root, k), k, v))} :
        /\ Len(r.nodes) <= MaxNodes
        /\ nodes' = r.nodes
        /\ root' = r.root
        /\ content' = (k :> v) @@ content

\* delete: the pair goes from its leaf; a sparse leaf stays.
Delete(k) ==
    /\ \E id \in {LeafFrom(nodes, root, k)} :
         nodes' = IF Has(nodes[id].keys, k)
                  THEN [nodes EXCEPT ![id].keys = RemoveAt(@, Below(nodes[id].keys, k) + 1),
                                     ![id].vals = RemoveAt(@, Below(nodes[id].keys, k) + 1)]
                  ELSE nodes
    /\ content' = [x \in DOMAIN content \ {k} |-> content[x]]
    /\ UNCHANGED root

TreeNext ==
    \/ \E k \in Keys, v \in Values : Insert(k, v)
    \/ \E k \in Keys : Delete(k)

TreeSpec == TreeInit /\ [][TreeNext]_treeVars

-----------------------------------------------------------------------------
(* Properties. *)

\* What a map that holds m answers to get(k).
Lookup(m, k) == IF k \in DOMAIN m THEN <<m[k]>> ELSE <<>>

\* The tree is the map its calls describe, through splits on every level,
\* replacements and deletions that leave leaves empty: get finds exactly what
\* was inserted last, range returns exactly the pairs of the interval in key
\* order, and len counts them.
ActsAsMap(ns, rt, map) ==
    /\ \A k \in Keys : GetFrom(ns, rt, k) = Lookup(map, k)
    /\ \A lo, hi \in Keys \cup {Max(Keys) + 1} :
          RangeScan(ns, rt, lo, hi) =
              LET ks == SetToSortSeq({k \in DOMAIN map : lo <= k /\ k < hi}, <)
              IN  [i \in DOMAIN ks |-> <<ks[i], map[ks[i]]>>]
    /\ TreeLen(ns, rt) = Cardinality(DOMAIN map)
    /\ \A i \in DOMAIN ns : Len(ns[i].keys) <= Capacity

\* "A reader that arrives at a node which has since been split can follow the
\* right-link to find the correct node" (btree.rs): a get that has come to any
\* node on its way when one insertion or deletion strikes still ends with the
\* answer of the new tree.
LatchFreeReads(ns, map) ==
    \A k \in Keys : \A i \in DOMAIN PathTo(nodes, root, k) :
        GetFrom(ns, PathTo(nodes, root, k)[i], k) = Lookup(map, k)

\* Every insertion and deletion leaves a tree that acts as the map, and readers
\* that it overtakes on their way down answer from that tree.
TreeStep ==
    \A ns \in {nodes'}, map \in {content'} :
        ActsAsMap(ns, root', map) /\ LatchFreeReads(ns, map)
=============================================================================
