-------------------------- MODULE MCStateVariable --------------------------
(***************************************************************************)
(* Instances of StateVariable for TLC.  Agents are numbered                *)
(* rank * 100 + 1 + i, as in the repository's start-up code.               *)
(***************************************************************************)
EXTENDS StateVariable

A21 == [id |-> 201, rank |-> 2]
A22 == [id |-> 202, rank |-> 2]
A31 == [id |-> 301, rank |-> 3]

\* One agent on each of two ALPs; two agents on one ALP and a third elsewhere.
TwoRanks == {A21, A31}
SharedRank == {A21, A22, A31}

\* One agent may act at every time, the other not at the last: some times are
\* contested and one is not.
OverlappingTimes == [a \in Agent |-> IF a = A21 THEN Time ELSE Time \ {MaxTime}]

\* Every time belongs to one of three agents.
OneTimeEach == [a \in Agent |-> {CASE a = A31 -> 0 [] a = A21 -> 1 [] OTHER -> 2}]
=============================================================================
