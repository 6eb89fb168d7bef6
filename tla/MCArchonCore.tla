------------------------------ MODULE MCArchonCore ------------------------------
(* The storage engine and the B-Link tree of tpt-archon-core, which share no *)
(* state: a behaviour is one of the part that `part` names.                  *)
EXTENDS Storage, BTree

VARIABLE part

Symmetry == Permutations(Block)

MCInit == part \in {"engine", "tree"} /\ Init /\ TreeInit

MCNext ==
    /\ UNCHANGED part
    /\ \/ part = "engine" /\ Next /\ UNCHANGED treeVars
       \/ part = "tree" /\ TreeNext /\ UNCHANGED vars

MCSpec == MCInit /\ [][MCNext]_<<part, vars, treeVars>>

\* BTree: insertions and deletions leave a tree that acts as the map, also for
\* the readers they overtake.
TreeSound == [][part = "tree" => TreeStep]_treeVars
================================================================================
