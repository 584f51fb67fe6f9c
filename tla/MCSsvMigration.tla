-------------------------- MODULE MCSsvMigration --------------------------
(* The smallest tree in which a variable can move: a root and two leaves, *)
(* with one ALP and one agent below each leaf.                            *)
EXTENDS SsvMigration

TwoAlps == [a \in 3..4 |-> a - 2]
OneAgent == {[id |-> 301, rank |-> 3]}
TwoAgents == {[id |-> 301, rank |-> 3], [id |-> 401, rank |-> 4]}

\* What the theorems about pointers, types and the order of requests assume of the
\* tables.
ASSUME TreeIsRegular == TablesAgree /\ LinksCut /\ LeavesOnLowestLevel
===========================================================================
