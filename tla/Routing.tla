------------------------------ MODULE Routing ------------------------------
(***************************************************************************)
(* The tree of CLPs and the tables every CLP routes by                     *)
(* (routing/ForwardingTable.cpp, RouteTable.cpp, Router.cpp).              *)
(*                                                                         *)
(* CLP r has the children 2r + 1 and 2r + 2; the ALPs hang below the       *)
(* leaves.  A CLP knows its neighbours by the ports UP, LEFT and RIGHT.    *)
(* Constant definitions only: the tables of ranks never change.  The       *)
(* pointers to the shared state variables do; SsvMigration keeps them.     *)
(***************************************************************************)
EXTENDS Integers, FiniteSetsExt

CONSTANTS
    C,          \* number of CLPs, ranks 0 to C - 1
    AlpParent   \* [ranks of the ALPs -> the CLP each hangs below]

Clp == 0..(C - 1)
Alps == DOMAIN AlpParent
LpRank == Clp \cup Alps

IsLeaf(p) == p >= C \div 2

\* Every CLP has two children or none (README.md:52 has seven CLPs, eight ALPs), the
\* ranks of the ALPs come after, and a leaf has two ports to give to ALPs.
ASSUME RoutingAssumption ==
    /\ C \in Nat /\ C % 2 = 1
    /\ IsFiniteSet(Alps) /\ Alps = C..(C + Cardinality(Alps) - 1)
    /\ \A a \in Alps : AlpParent[a] \in Clp /\ IsLeaf(AlpParent[a])
    /\ \A p \in Clp : Cardinality({a \in Alps : AlpParent[a] = p}) <= 2

HERE == 0
UP == 1
LEFT == 2
RIGHT == 3
DIRECTION_SIZE == 4
Direction == HERE..(DIRECTION_SIZE - 1)
Port == UP..RIGHT

Parent(p) == (p - 1) \div 2
LeftChild(p) == 2 * p + 1
RightChild(p) == 2 * p + 2

(***************************************************************************)
(* ForwardingTable: one entry per CLP, with the next CLP on the way there. *)
(***************************************************************************)
RoutingInfo == [rank: Nat, hops: Nat, next: Nat]

\* WalkTree adds pRank and what lies beyond it, unless that is in the table.
ForwardingTable(p) ==
    LET WalkTree[rank \in Nat, hops \in Nat, next \in Nat,
                 table \in SUBSET RoutingInfo] ==
          IF rank > C - 1 \/ \E e \in table : e.rank = rank
          THEN table
          ELSE LET this  == table \cup {[rank |-> rank, hops |-> hops, next |-> next]}
                   left  == WalkTree[LeftChild(rank), hops + 1, next, this]
                   right == WalkTree[RightChild(rank), hops + 1, next, left]
               IN  IF next \notin {LeftChild(p), RightChild(p)} /\ rank # 0
                   THEN WalkTree[Parent(rank), hops + 1, next, right]
                   ELSE right
        From(neighbour, table) == WalkTree[neighbour, 1, neighbour, table]
        below == From(RightChild(p), From(LeftChild(p),
                   {[rank |-> p, hops |-> 0, next |-> p]}))
    IN  IF p = 0 THEN below ELSE From(Parent(p), below)

GetRoutingInfo(table, r) == CHOOSE e \in table : e.rank = r

(***************************************************************************)
(* RouteTable: ports are handed out in the order of the ranks, first to    *)
(* the CLPs one hop away, then to the ALPs below this CLP.                 *)
(***************************************************************************)
Neighbours(p) ==
    {e.rank : e \in {f \in ForwardingTable(p) : f.hops = 1}}
      \cup {a \in Alps : AlpParent[a] = p}

PortOf(p, neighbour) ==
    (IF p = 0 THEN LEFT ELSE UP) + Cardinality({n \in Neighbours(p) : n < neighbour})

\* Any other CLP is in the direction of the next CLP, any other ALP in that of
\* its CLP.
FromRank ==
    [p \in Clp |->
       LET table == ForwardingTable(p)
           near == Neighbours(p)
           ToClp(r) == CASE r = p -> HERE
                         [] r \in near -> PortOf(p, r)
                         [] OTHER -> PortOf(p, GetRoutingInfo(table, r).next)
       IN  [r \in LpRank |-> CASE r \in Clp -> ToClp(r)
                               [] r \in Alps \cap near -> PortOf(p, r)
                               [] OTHER -> ToClp(AlpParent[r])]]

\* Mutant: what is not next to a CLP is above it.
GetDirectionUp(p, r) == IF p # 0 /\ r \notin Neighbours(p) THEN UP ELSE FromRank[p][r]

GetDirectionFromRank(p, r) == FromRank[p][r]

ToRank ==
    [p \in Clp |-> [d \in {PortOf(p, n) : n \in Neighbours(p)} |->
                      CHOOSE n \in Neighbours(p) : PortOf(p, n) = d]]

GetRankFromDirection(p, d) == ToRank[p][d]

\* The start-up pointer of CLP p to a variable that CLP host is given.
NoDirection == DIRECTION_SIZE

SsvDirection(p, host) ==
    LET next == GetRoutingInfo(ForwardingTable(p), host).next
    IN  CASE host = p -> HERE
          [] host # p /\ p # 0 /\ next = Parent(p) -> UP
          [] host # p /\ next = LeftChild(p) -> LEFT
          [] host # p /\ next = RightChild(p) -> RIGHT
          [] OTHER -> NoDirection

-----------------------------------------------------------------------------
(***************************************************************************)
(* What all these tables say, taken together: what the proofs of           *)
(* SsvMigration use of them.                                               *)
(***************************************************************************)
PortsOf(p) == DOMAIN ToRank[p]

TablesAgree ==
    /\ \A p \in Clp : PortsOf(p) \subseteq Port /\ GetDirectionFromRank(p, p) = HERE
    /\ \A p, h \in Clp : SsvDirection(p, h) = GetDirectionFromRank(p, h)
    \* A direction is a port, and the port leads to a neighbour in that direction.
    /\ \A p \in Clp : \A r \in LpRank \ {p} : GetDirectionFromRank(p, r) \in PortsOf(p)
    /\ \A p \in Clp : \A d \in PortsOf(p) :
         GetDirectionFromRank(p, GetRankFromDirection(p, d)) = d
    \* An ALP is on no way to a CLP, and below leaves only.
    /\ \A p, h \in Clp : h # p => GetRankFromDirection(p, GetDirectionFromRank(p, h)) \in Clp
    /\ \A p \in Clp : \A d \in PortsOf(p) :
         d = UP \/ ~IsLeaf(p) => GetRankFromDirection(p, d) \in Clp
    \* Two neighbours are in the same direction from everywhere else.
    /\ \A p, q \in Clp : \A d \in PortsOf(p) :
         LET n == GetRankFromDirection(p, d) IN
         n \in Clp /\ q \notin {p, n} => GetDirectionFromRank(q, p) = GetDirectionFromRank(q, n)

\* A link cuts the tree in two: what one end sends over it, the other does not send
\* back.
LinksCut ==
    \A p, h \in Clp : \A d \in PortsOf(p) :
      LET n == GetRankFromDirection(p, d) IN
      n \in Clp /\ GetDirectionFromRank(p, h) = d
      => GetDirectionFromRank(n, h) # GetDirectionFromRank(n, p)
=============================================================================
