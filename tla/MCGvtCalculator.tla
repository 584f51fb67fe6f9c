-------------------------- MODULE MCGvtCalculator --------------------------
(***************************************************************************)
(* Instances of GvtCalculator for TLC: two ALPs at the only CLP, and one   *)
(* ALP below the first leaf of a tree of three CLPs.                       *)
(***************************************************************************)
EXTENDS GvtCalculator

OneClp == [r \in 0..2 |-> [d \in 0..2 |-> IF r = 0 THEN d ELSE 0]]

\* The way through the tree that the tables of Routing give.
Below1 == [a \in {3} |-> 1]
Tree == INSTANCE Routing WITH AlpParent <- Below1
ThreeClps ==
    [r \in 0..3 |-> [d \in 0..3 |->
       IF r = 3 THEN Below1[3]
       ELSE IF r = d THEN r
       ELSE Tree!GetRankFromDirection(r, Tree!GetDirectionFromRank(r, d))]]
=============================================================================
