--------------------------- MODULE MCRangeQueries ---------------------------
(* The smallest tree in which a query goes on to two ports at once: CLP 1    *)
(* has the leaves 3 and 4, the root also has the leaf 2.  One ALP, below     *)
(* leaf 3; three variables in a row, all at leaf 2 or the left one at 4.     *)
EXTENDS RangeQueries

OneAlp == [a \in {5} |-> 3]
Variables == {"left", "middle", "right"}
LeftBeside == [v \in Variables |-> IF v = "left" THEN 4 ELSE 2]
AllFarAway == [v \in Variables |-> 2]
TwoPlacements == {LeftBeside, AllFarAway}
InARow == [v \in Variables |-> CASE v = "left" -> <<0, 3>> [] v = "middle" -> <<1, 2>>
                                 [] v = "right" -> <<2, 3>>]
LeftToRight == <<"left", "middle", "right">>
Moves == [v \in Variables |-> IF v = "left" THEN {<<3, 4>>} ELSE {}]

\* Across the row, its lower edge, and the right one with what lies beyond it.
Across == [min |-> <<1, 0>>, max |-> <<1, 4>>]
LowerEdge == [min |-> <<0, 1>>, max |-> <<1, 2>>]
RightAndBeyond == [min |-> <<2, 3>>, max |-> <<3, 5>>]
ThreeBoxes == {Across, LowerEdge, RightAndBeyond}

ASSUME TablesOfFiveAgree == TablesAgree /\ LinksAgree /\ WaysAgree
=============================================================================
