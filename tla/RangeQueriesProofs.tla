------------------------- MODULE RangeQueriesProofs -------------------------
(***************************************************************************)
(* Proofs about RangeQueries, for every tree, every set of variables,      *)
(* boxes and times and every bound: the types, that a CLP gets one reply   *)
(* from each port that it waits for, and that a query which is taken back  *)
(* is forgotten by every CLP.                                              *)
(*                                                                         *)
(* The tables of ranks come from a recursive walk: what is used of them is *)
(* LinksAgree and WaysAgree, the hypotheses.                               *)
(***************************************************************************)
EXTENDS RangeQueries, ListLemmas, FunctionTheorems

(***************************************************************************)
(* Types.  The ids are those of the queries so far.                        *)
(***************************************************************************)
Ids == DOMAIN queries

AnyRange == {NoRange} \cup [min: Point, max: Point]
KnownRange ==
    AnyRange \cup {PortRange(p, d, where) : p \in Clp, d \in Direction, where \in Placements}

EntryOf(ids) == [id: ids, time: Time, box: Box, blocked: BOOLEAN, agent: Alps]
Period(ids) == [time: Time, info: Seq(EntryOf(ids)), range: KnownRange]
Earlier(list) == \A i, j \in DOMAIN list : i < j => list[i].time < list[j].time
Periods(ids) == {list \in Seq(Period(ids)) : list # <<>> /\ Earlier(list)}

MessageOf(ids) == [type: {"query"}, id: ids, found: Found] \cup [type: {"anti"}, id: ids]
                    \cup [type: {"update"}, time: Time, range: AnyRange]
Status == [originPort: Direction, outstanding: SUBSET Direction, found: Found]
RangeQueryOf == [agent: Alps, time: Time, box: Box]

PointsOf(v) == {InitialPosition[v]} \cup Position[v]

AreHistories(h) ==
    \A v \in Ssv : /\ 0 \in DOMAIN h[v] /\ DOMAIN h[v] \subseteq Time
                   /\ \A t \in DOMAIN h[v] : h[v][t] \in PointsOf(v)

\* No list starts after the GVT: every query there still can be finds a period.
AreTables(table, gvt, ids) ==
    /\ gvt \in [Clp -> Time]
    /\ table \in [Clp -> [Direction -> Periods(ids)]]
    /\ \A p \in Clp, d \in Direction : table[p][d][1].time <= gvt[p]

AreTrackers(tracker, ids) ==
    \A p \in Clp : /\ DOMAIN tracker[p] \subseteq ids
                   /\ \A id \in DOMAIN tracker[p] : tracker[p][id] \in Status

\* An ALP is not sent range updates.
AreMessages(links, ids) ==
    /\ links \in [Link -> Seq(MessageOf(ids))]
    /\ \A a \in Alps : \A m \in ToSet(links[<<AlpParent[a], a>>]) : m.type # "update"

AreQueries(asked) == asked \in Seq(RangeQueryOf) /\ Len(asked) <= MaxQueries

HistoryTypes == home \in Placements /\ positions = [v \in Ssv |-> positions[v]]
                /\ AreHistories(positions)
TableTypes == AreTables(fRangeRoutingTable, fGVT, Ids)
TrackerTypes == fRangeTracker = [p \in Clp |-> fRangeTracker[p]]
                /\ AreTrackers(fRangeTracker, Ids)
NetTypes == AreMessages(net, Ids)
SeenTypes == /\ DOMAIN answers \subseteq Ids /\ retracted \subseteq Ids /\ told \subseteq Ids
             /\ met \subseteq Weakness /\ writes \in Nat

Types == /\ HistoryTypes /\ TableTypes /\ TrackerTypes /\ NetTypes
         /\ AreQueries(queries) /\ SeenTypes

-----------------------------------------------------------------------------
(***************************************************************************)
(* Lists of periods.                                                       *)
(***************************************************************************)
LEMMA TimesAreNumbers == Time \subseteq Nat /\ 0 \in Time
  BY ConstantsAssumption DEF Time

\* There is an order, and it takes each place once.
LEMMA OrderExists ==
    ASSUME NEW n \in Nat, NEW S \in SUBSET (1..n)
    PROVE  InOrder(S) # {}
<1>0. PICK D : D = 1..n /\ IsFiniteSet(D)
  BY FS_Interval
<1> DEFINE B == {T \in SUBSET D : InOrder(T) = {}}
<1>1. SUFFICES B = {}
  BY <1>0
<1>2. SUFFICES ASSUME B # {} PROVE FALSE
  OBVIOUS
<1>3. PICK T \in B : \A U \in B : U \subseteq T => U = T
  <2>1. B \in SUBSET (SUBSET D) /\ IsFiniteSet(D)
    BY <1>0
  <2> HIDE DEF B
  <2> QED
    BY <1>2, <2>1, SmallestSet
<1>4. T # {}
  <2>1. Cardinality({}) = 0 /\ 1..0 = {}
    BY FS_EmptySet
  <2>2. [i \in {} |-> i] \in InOrder({})
    BY <2>1 DEF InOrder
  <2> QED
    BY <1>3, <2>2
<1> DEFINE m == Max(T)
           U == T \ {m}
           k == Cardinality(U)
<1>5. m \in T /\ (\A x \in T : x <= m) /\ m \in 1..n
  BY <1>0, <1>3, <1>4, MaxInSet
<1>6. IsFiniteSet(T) /\ IsFiniteSet(U)
  BY <1>0, <1>3, FS_Subset
<1>7. k \in Nat /\ Cardinality(T) = k + 1
  BY <1>5, <1>6, FS_RemoveElement, FS_CardinalityType
<1>8. PICK f : f \in InOrder(U)
  <2>1. U \in SUBSET D /\ U # T
    BY <1>3, <1>5
  <2> QED
    BY <1>3, <2>1
<1> DEFINE g == [i \in 1..(k + 1) |-> IF i <= k THEN f[i] ELSE m]
<1> HIDE DEF m, k
<1>9. f \in [1..k -> U] /\ \A i, j \in 1..k : i < j => f[i] < f[j]
  BY <1>8 DEF InOrder, k
<1>10. \A x \in U : x \in Nat /\ x < m
  BY <1>0, <1>3, <1>5
<1>11. g \in [1..(k + 1) -> T]
  BY <1>5, <1>7, <1>9
<1>12. ASSUME NEW i \in 1..(k + 1), NEW j \in 1..(k + 1), i < j PROVE g[i] < g[j]
  <2>1. i \in 1..k
    BY <1>7, <1>12
  <2>2. CASE j \in 1..k
    BY <1>9, <1>12, <2>1, <2>2
  <2>3. CASE j \notin 1..k
    <3>1. g[j] = m /\ g[i] = f[i]
      BY <1>7, <2>1, <2>3
    <3>2. f[i] \in U
      BY <1>9, <2>1
    <3> QED
      BY <1>10, <3>1, <3>2
  <2> QED
    BY <2>2, <2>3
<1>13. g \in InOrder(T)
  BY <1>7, <1>11, <1>12 DEF InOrder
<1> QED
  BY <1>3, <1>13

LEMMA OrderOfPlaces ==
    ASSUME NEW n \in Nat, NEW S \in SUBSET (1..n), NEW f \in InOrder(S)
    PROVE  /\ Cardinality(S) \in Nat
           /\ f \in [1..Cardinality(S) -> S]
           /\ \A i, j \in 1..Cardinality(S) : i < j => f[i] < f[j]
           /\ \A x \in S : \E i \in 1..Cardinality(S) : f[i] = x
<1> DEFINE k == Cardinality(S)
<1>0. IsFiniteSet(S) /\ S \subseteq Int
  <2>1. PICK D : D = 1..n /\ IsFiniteSet(D)
    BY FS_Interval
  <2>2. S \in SUBSET D
    BY <2>1
  <2>3. IsFiniteSet(S)
    BY <2>1, <2>2, FS_Subset
  <2> QED
    BY <2>3
<1>1. k \in Nat /\ f \in [1..k -> S] /\ \A i, j \in 1..k : i < j => f[i] < f[j]
  BY <1>0, FS_CardinalityType DEF InOrder
<1>2. IsFiniteSet(1..k) /\ Cardinality(1..k) = k
  BY <1>1, FS_Interval
<1>3. ASSUME NEW i \in 1..k, NEW j \in 1..k, f[i] = f[j] PROVE i = j
  <2>1. f[i] \in Int /\ f[j] \in Int
    BY <1>0, <1>1
  <2>2. ~(i < j) /\ ~(j < i)
    BY <1>1, <1>3, <2>1
  <2> QED
    BY <2>2
<1>4. f \in Injection(1..k, S)
  BY <1>1, <1>3 DEF Injection, IsInjective
<1>5. f \in Surjection(1..k, S)
  BY <1>0, <1>2, <1>4, FS_Injection
<1> QED
  BY <1>1, <1>5 DEF Surjection

LEMMA SelectedElements ==
    ASSUME NEW S, NEW s \in Seq(S), NEW places \in SUBSET DOMAIN s
    PROVE  /\ Selected(s, places) \in Seq(S)
           /\ ToSet(Selected(s, places)) = {s[i] : i \in places}
           /\ s = <<>> => Selected(s, places) = <<>>
<1> DEFINE f == CHOOSE g \in InOrder(places) : TRUE
           k == Cardinality(places)
<1>1. places \in SUBSET (1..Len(s)) /\ Len(s) \in Nat
  OBVIOUS
<1>2. f \in InOrder(places)
  BY <1>1, OrderExists
<1> HIDE DEF f
<1>3. /\ k \in Nat
      /\ f \in [1..k -> places]
      /\ \A x \in places : \E i \in 1..k : f[i] = x
  BY <1>1, <1>2, OrderOfPlaces
<1> HIDE DEF k
<1>4. Selected(s, places) = [i \in 1..k |-> s[f[i]]]
  BY <1>3 DEF Selected, f
<1>5. Selected(s, places) \in Seq(S) /\ Len(Selected(s, places)) = k
  BY <1>1, <1>3, <1>4
<1>6. ToSet(Selected(s, places)) = {s[i] : i \in places}
  <2> DEFINE h == Selected(s, places)
  <2>1. DOMAIN h = 1..k /\ \A i \in 1..k : h[i] = s[f[i]]
    BY <1>4
  <2>2. ToSet(h) = {h[i] : i \in DOMAIN h}
    BY DEF ToSet
  <2> HIDE DEF h
  <2>3. ASSUME NEW i \in 1..k PROVE h[i] \in {s[j] : j \in places}
    <3>1. h[i] = s[f[i]] /\ f[i] \in places
      BY <1>3, <2>1
    <3> QED
      BY <3>1
  <2>4. ASSUME NEW j \in places PROVE s[j] \in ToSet(h)
    <3>1. PICK i \in 1..k : f[i] = j
      BY <1>3
    <3>2. h[i] = s[j]
      BY <2>1, <3>1
    <3> QED
      BY <2>1, <2>2, <3>2
  <2>5. ToSet(h) = {s[j] : j \in places}
    BY <2>1, <2>2, <2>3, <2>4
  <2> QED
    BY <2>5 DEF h
<1>7. s = <<>> => Selected(s, places) = <<>>
  <2> SUFFICES ASSUME s = <<>> PROVE Selected(s, places) = <<>>
    OBVIOUS
  <2>1. places = {}
    OBVIOUS
  <2>2. k = 0
    BY <1>3, <2>1
  <2> QED
    BY <1>5, <2>2
<1> QED
  BY <1>5, <1>6, <1>7
IsEmpty(e) == e.info = <<>>
NoEntries(list) == \A i \in DOMAIN list : list[i].info = <<>>

\* What every change of a list keeps.
Keeps(new, list, ids) ==
    new \in Periods(ids) /\ new[1].time <= list[1].time /\ (NoEntries(list) => NoEntries(new))

LEMMA PeriodsAre ==
    ASSUME NEW ids, NEW list \in Periods(ids)
    PROVE  /\ list \in Seq(Period(ids)) /\ Len(list) \in Nat /\ Len(list) >= 1
           /\ 1 \in DOMAIN list /\ DOMAIN list = 1..Len(list)
           /\ \A i \in DOMAIN list : /\ list[i] \in Period(ids) /\ list[i].time \in Nat
                                     /\ list[i].time \in Time
           /\ \A i, j \in DOMAIN list : i < j => list[i].time < list[j].time
<1>1. list \in Seq(Period(ids)) /\ list # <<>> /\ Earlier(list)
  BY DEF Periods
<1>2. \A i \in DOMAIN list : list[i] \in Period(ids)
  BY <1>1
<1>3. \A i \in DOMAIN list : list[i].time \in Time
  BY <1>2 DEF Period
<1>4. Len(list) \in Nat /\ Len(list) >= 1 /\ DOMAIN list = 1..Len(list)
  BY <1>1
<1>5. \A i, j \in DOMAIN list : i < j => list[i].time < list[j].time
  BY <1>1 DEF Earlier
<1>6. \A i \in DOMAIN list : list[i].time \in Nat
  BY <1>3, TimesAreNumbers
<1>7. 1 \in DOMAIN list
  BY <1>4
<1> QED
  BY <1>1, <1>2, <1>3, <1>4, <1>5, <1>6, <1>7

\* The last period that is not after t.
LEMMA PeriodAtIs ==
    ASSUME NEW ids, NEW list \in Periods(ids), NEW t \in Time
    PROVE  /\ PeriodAt(list, t) \in 0..Len(list)
           /\ PeriodAt(list, t) # 0 => /\ PeriodAt(list, t) \in DOMAIN list
                                       /\ list[PeriodAt(list, t)].time <= t
           /\ \A j \in DOMAIN list : list[j].time <= t => j <= PeriodAt(list, t)
<1> DEFINE S == {0} \cup {i \in DOMAIN list : list[i].time <= t}
<1>1. Len(list) \in Nat /\ DOMAIN list = 1..Len(list)
  BY PeriodsAre
<1>2. S \in SUBSET (0..Len(list)) /\ S # {}
  BY <1>1
<1>3. Max(S) \in S /\ \A y \in S : y <= Max(S)
  <2> HIDE DEF S
  <2> QED
    BY <1>1, <1>2, MaxFromZero
<1>4. PeriodAt(list, t) = Max(S)
  BY DEF PeriodAt
<1> HIDE DEF S
<1>5. PeriodAt(list, t) \in S /\ \A y \in S : y <= PeriodAt(list, t)
  BY <1>3, <1>4
<1> QED
  BY <1>1, <1>2, <1>5 DEF S

LEMMA InsertAtIs ==
    ASSUME NEW S, NEW s \in Seq(S), NEW n \in Nat, Len(s) = n,
           NEW k \in 1..n, NEW e \in S
    PROVE  InsertAt(s, k + 1, e) = [i \in 1..(n + 1) |-> IF i <= k THEN s[i]
                                                       ELSE IF i = k + 1 THEN e ELSE s[i - 1]]
<1> DEFINE new == InsertAt(s, k + 1, e)
<1>1. /\ new \in Seq(S) /\ Len(new) = n + 1
  BY InsertAtElements
<1>2. /\ \A i \in 1..k : new[i] = s[i]
      /\ new[k + 1] = e
  BY InsertAtElements
<1>3. \A i \in (k + 2)..(n + 1) : new[i] = s[i - 1]
  BY InsertAtElements
<1> HIDE DEF new
<1>4. \A i \in 1..(n + 1) : new[i] = IF i <= k THEN s[i] ELSE IF i = k + 1 THEN e ELSE s[i - 1]
  <2> SUFFICES ASSUME NEW i \in 1..(n + 1)
               PROVE  new[i] = IF i <= k THEN s[i] ELSE IF i = k + 1 THEN e ELSE s[i - 1]
    OBVIOUS
  <2>1. CASE i \in 1..k
    BY <1>2, <2>1
  <2>2. CASE i = k + 1
    BY <1>2, <2>2
  <2>3. CASE i \in (k + 2)..(n + 1)
    <3>1. ~(i <= k) /\ i # k + 1
      BY <2>3
    <3> QED
      BY <1>3, <2>3, <3>1
  <2> QED
    BY <2>1, <2>2, <2>3
<1> QED
  BY <1>1, <1>4 DEF new

FitsBehind(list, i, e) ==
    list[i].time < e.time /\ \A j \in DOMAIN list : i < j => e.time < list[j].time

\* A new period before the first one, or behind one that it takes entries from.
LEMMA InsertedBefore ==
    ASSUME NEW ids, NEW list \in Periods(ids), NEW e \in Period(ids), IsEmpty(e),
           e.time < list[1].time
    PROVE  Keeps(InsertAt(list, 1, e), list, ids)
<1> DEFINE new == InsertAt(list, 1, e)
           n == Len(list)
<1>1. /\ list \in Seq(Period(ids)) /\ n \in Nat /\ n >= 1 /\ DOMAIN list = 1..n
      /\ \A i \in 1..n : list[i].time \in Nat
      /\ \A i, j \in 1..n : i < j => list[i].time < list[j].time
  BY PeriodsAre
<1>2. /\ new \in Seq(Period(ids)) /\ Len(new) = n + 1 /\ new[1] = e
      /\ \A i \in 2..(n + 1) : new[i] = list[i - 1]
  <2>1. list \in Seq(Period(ids)) /\ Len(list) = n /\ n \in Nat /\ e \in Period(ids)
    BY <1>1
  <2> HIDE DEF n
  <2>2. new \in Seq(Period(ids)) /\ Len(new) = n + 1
    BY <2>1, InsertFirstElements
  <2>3. new[1] = e
    BY <2>1, InsertFirstElements
  <2>4. \A i \in 2..(n + 1) : new[i] = list[i - 1]
    BY <2>1, InsertFirstElements
  <2> QED
    BY <2>2, <2>3, <2>4
<1> HIDE DEF new, n
<1>3. e.time \in Nat
  BY TimesAreNumbers DEF Period
<1>4. \A i \in 2..(n + 1) : i - 1 \in 1..n /\ new[i] = list[i - 1]
  BY <1>1, <1>2
<1>5. Earlier(new)
  <2> SUFFICES ASSUME NEW i \in 1..(n + 1), NEW j \in 1..(n + 1), i < j
               PROVE  new[i].time < new[j].time
    BY <1>1, <1>2 DEF Earlier
  <2>1. j - 1 \in 1..n /\ new[j] = list[j - 1]
    BY <1>1, <1>4
  <2>2. CASE i = 1
    <3>1. list[1].time <= list[j - 1].time
      BY <1>1, <2>1
    <3> QED
      BY <1>1, <1>2, <1>3, <2>1, <2>2, <3>1
  <2>3. CASE i # 1
    BY <1>1, <1>4, <2>1, <2>3
  <2> QED
    BY <2>2, <2>3
<1>6. NoEntries(list) => NoEntries(new)
  <2> SUFFICES ASSUME NoEntries(list), NEW i \in 1..(n + 1) PROVE new[i].info = <<>>
    BY <1>1, <1>2 DEF NoEntries
  <2>1. CASE i = 1
    BY <1>2, <2>1 DEF IsEmpty
  <2>2. CASE i # 1
    BY <1>1, <1>4, <2>2 DEF NoEntries
  <2> QED
    BY <2>1, <2>2
<1>7. new[1].time <= list[1].time /\ new # <<>>
  BY <1>1, <1>2, <1>3
<1> QED
  BY <1>2, <1>5, <1>6, <1>7 DEF Keeps, Periods, new

LEMMA InsertedBehind ==
    ASSUME NEW ids, NEW list \in Periods(ids), NEW i \in DOMAIN list,
           NEW e \in Period(ids), FitsBehind(list, i, e)
    PROVE  /\ InsertAt(list, i + 1, e) \in Periods(ids)
           /\ InsertAt(list, i + 1, e)[1].time <= list[1].time
           /\ NoEntries(list) /\ IsEmpty(e) => NoEntries(InsertAt(list, i + 1, e))
<1> DEFINE new == InsertAt(list, i + 1, e)
           n == Len(list)
<1>1. /\ list \in Seq(Period(ids)) /\ n \in Nat /\ n >= 1 /\ DOMAIN list = 1..n
      /\ \A j \in 1..n : list[j].time \in Nat
      /\ \A h, j \in 1..n : h < j => list[h].time < list[j].time
  BY PeriodsAre
<1>2. /\ new \in Seq(Period(ids)) /\ Len(new) = n + 1
      /\ \A j \in 1..i : new[j] = list[j]
      /\ new[i + 1] = e
      /\ \A j \in (i + 2)..(n + 1) : new[j] = list[j - 1]
  <2>1. /\ list \in Seq(Period(ids)) /\ Len(list) = n /\ n \in Nat /\ e \in Period(ids)
        /\ i \in 1..n
    BY <1>1
  <2> HIDE DEF n
  <2>2. new \in Seq(Period(ids)) /\ Len(new) = n + 1
    BY <2>1, InsertAtElements
  <2>3. new = [j \in 1..(n + 1) |-> IF j <= i THEN list[j]
                                   ELSE IF j = i + 1 THEN e ELSE list[j - 1]]
    BY <2>1, InsertAtIs
  <2> HIDE DEF new
  <2>4. ASSUME NEW j \in 1..i PROVE new[j] = list[j]
    BY <2>1, <2>3
  <2>5. new[i + 1] = e
    BY <2>1, <2>3
  <2>6. ASSUME NEW j \in (i + 2)..(n + 1) PROVE new[j] = list[j - 1]
    BY <2>1, <2>3
  <2> QED
    BY <2>2, <2>4, <2>5, <2>6
<1> HIDE DEF new, n
<1>3. e.time \in Nat
  BY TimesAreNumbers DEF Period
<1>9. list[i].time < e.time /\ \A j \in 1..n : i < j => e.time < list[j].time
  BY <1>1 DEF FitsBehind
<1>4. \A j \in 1..i : j \in 1..n /\ list[j].time < e.time
  <2> SUFFICES ASSUME NEW j \in 1..i PROVE j \in 1..n /\ list[j].time < e.time
    OBVIOUS
  <2>1. j \in 1..n /\ list[j].time <= list[i].time
    BY <1>1
  <2> QED
    BY <1>1, <1>3, <1>9, <2>1
<1>5. \A j \in (i + 2)..(n + 1) : j - 1 \in 1..n /\ i < j - 1 /\ e.time < list[j - 1].time
  BY <1>1, <1>9
<1>6. Earlier(new)
  <2> SUFFICES ASSUME NEW h \in 1..(n + 1), NEW j \in 1..(n + 1), h < j
               PROVE  new[h].time < new[j].time
    BY <1>1, <1>2 DEF Earlier
  <2>1. CASE j \in 1..i
    BY <1>1, <1>2, <1>4, <2>1
  <2>2. CASE j = i + 1
    BY <1>1, <1>2, <1>4, <2>2
  <2>3. CASE j \in (i + 2)..(n + 1)
    <3>1. new[j] = list[j - 1] /\ j - 1 \in 1..n /\ e.time < list[j - 1].time
      BY <1>2, <1>5, <2>3
    <3>2. CASE h \in 1..i
      <4>1. h < j - 1
        BY <1>1, <2>3, <3>2
      <4> QED
        BY <1>1, <1>2, <1>4, <3>1, <3>2, <4>1
    <3>3. CASE h = i + 1
      BY <1>2, <3>1, <3>3
    <3>4. CASE h \in (i + 2)..(n + 1)
      <4>1. new[h] = list[h - 1] /\ h - 1 \in 1..n /\ h - 1 < j - 1
        BY <1>1, <1>2, <1>5, <2>3, <3>4
      <4> QED
        BY <1>1, <3>1, <4>1
    <3> QED
      BY <1>1, <3>2, <3>3, <3>4
  <2> QED
    BY <1>1, <2>1, <2>2, <2>3
<1>7. NoEntries(list) /\ IsEmpty(e) => NoEntries(new)
  <2> SUFFICES ASSUME NoEntries(list), IsEmpty(e), NEW j \in 1..(n + 1) PROVE new[j].info = <<>>
    BY <1>1, <1>2 DEF NoEntries
  <2>1. CASE j \in 1..i
    BY <1>1, <1>2, <1>4, <2>1 DEF NoEntries
  <2>2. CASE j = i + 1
    BY <1>2, <2>2 DEF IsEmpty
  <2>3. CASE j \in (i + 2)..(n + 1)
    BY <1>1, <1>2, <1>5, <2>3 DEF NoEntries
  <2> QED
    BY <1>1, <2>1, <2>2, <2>3
<1>8. new[1].time <= list[1].time /\ new # <<>>
  BY <1>1, <1>2
<1> QED
  BY <1>2, <1>6, <1>7, <1>8 DEF Periods, new

\* One period is another, of the same time.
LEMMA Replaced ==
    ASSUME NEW ids, NEW list \in Periods(ids), NEW i \in DOMAIN list,
           NEW e \in Period(ids), list[i].time = e.time
    PROVE  /\ [list EXCEPT ![i] = e] \in Periods(ids)
           /\ NoEntries(list) /\ IsEmpty(e) => NoEntries([list EXCEPT ![i] = e])
           /\ DOMAIN [list EXCEPT ![i] = e] = DOMAIN list
           /\ \A j \in DOMAIN list : [list EXCEPT ![i] = e][j].time = list[j].time
<1> DEFINE new == [list EXCEPT ![i] = e]
<1>1. /\ list \in Seq(Period(ids)) /\ 1 \in DOMAIN list
      /\ list # <<>>
      /\ \A j \in DOMAIN list : list[j].time \in Nat
      /\ Earlier(list)
  BY PeriodsAre DEF Periods
<1>2. new \in Seq(Period(ids)) /\ DOMAIN new = DOMAIN list
  BY <1>1
<1>3. \A j \in DOMAIN list : new[j] = IF j = i THEN e ELSE list[j]
  BY <1>1
<1> HIDE DEF new
<1>4. \A j \in DOMAIN list : new[j].time = list[j].time
  BY <1>3
<1>5. Earlier(new) /\ new # <<>>
  BY <1>1, <1>2, <1>4 DEF Earlier
<1>6. NoEntries(list) /\ IsEmpty(e) => NoEntries(new)
  BY <1>2, <1>3 DEF NoEntries, IsEmpty
<1> QED
  BY <1>2, <1>4, <1>5, <1>6 DEF Periods, new

\* Entries that stay are entries, and where there are none, none stay.
LEMMA SelectedEntries ==
    ASSUME NEW ids, NEW this \in Period(ids), NEW places \in SUBSET DOMAIN this.info
    PROVE  /\ Selected(this.info, places) \in Seq(EntryOf(ids))
           /\ IsEmpty(this) => Selected(this.info, places) = <<>>
<1>1. this.info \in Seq(EntryOf(ids))
  BY DEF Period
<1> QED
  BY <1>1, SelectedElements DEF IsEmpty

LEMMA PeriodWithInfo ==
    ASSUME NEW ids, NEW this \in Period(ids), NEW info \in Seq(EntryOf(ids))
    PROVE  /\ [this EXCEPT !.info = info] \in Period(ids)
           /\ [this EXCEPT !.info = info].time = this.time
           /\ [this EXCEPT !.info = info].info = info
  BY DEF Period

LEMMA PeriodWithRange ==
    ASSUME NEW ids, NEW this \in Period(ids), NEW range \in KnownRange
    PROVE  /\ [this EXCEPT !.range = range] \in Period(ids)
           /\ [this EXCEPT !.range = range].time = this.time
           /\ [this EXCEPT !.range = range].info = this.info
  BY DEF Period

LEMMA WithRangeKeeps ==
    ASSUME NEW ids, NEW list \in Periods(ids), NEW t \in Time, NEW range \in KnownRange
    PROVE  Keeps(WithRange(list, t, range), list, ids)
<1> DEFINE i == PeriodAt(list, t)
           this == list[i]
           new == [time |-> t, range |-> range, info |-> <<>>]
           cut == [this EXCEPT !.info = Until(@, t)]
           shorter == [list EXCEPT ![i] = cut]
           second == [new EXCEPT !.info = After(this.info, t)]
           Splits == NoRange \notin {range, this.range} /\ range # this.range /\ this.time # t
<1>1. /\ i \in 0..Len(list)
      /\ i # 0 => i \in DOMAIN list /\ this.time <= t
      /\ \A j \in DOMAIN list : list[j].time <= t => j <= i
  BY PeriodAtIs
<1>2. /\ DOMAIN list = 1..Len(list) /\ Len(list) \in Nat /\ 1 \in DOMAIN list
      /\ \A j \in DOMAIN list : list[j] \in Period(ids) /\ list[j].time \in Nat
      /\ \A h, j \in DOMAIN list : h < j => list[h].time < list[j].time
  BY PeriodsAre
<1>3. new \in Period(ids) /\ IsEmpty(new) /\ new.time = t
  <2>1. <<>> \in Seq(EntryOf(ids))
    OBVIOUS
  <2> QED
    BY <2>1 DEF Period, IsEmpty
<1>4. t \in Nat
  BY TimesAreNumbers
<1>5. CASE i = 0
  <2>1. WithRange(list, t, range) = InsertAt(list, 1, new)
    BY <1>5 DEF WithRange
  <2>2. t < list[1].time
    BY <1>1, <1>2, <1>4, <1>5
  <2> HIDE DEF new
  <2> QED
    BY <1>3, <2>1, <2>2, InsertedBefore
<1>6. ASSUME i # 0, Splits
      PROVE  Keeps(WithRange(list, t, range), list, ids)
  <2>1. i \in DOMAIN list /\ this \in Period(ids) /\ this.time < t
    BY <1>1, <1>2, <1>4, <1>6
  <2>2. /\ Until(this.info, t) \in Seq(EntryOf(ids))
        /\ IsEmpty(this) => Until(this.info, t) = <<>>
    <3>1. {n \in DOMAIN this.info : this.info[n].time <= t} \in SUBSET DOMAIN this.info
      OBVIOUS
    <3> HIDE DEF this
    <3> QED
      BY <2>1, <3>1, SelectedEntries DEF Until
  <2>3. /\ After(this.info, t) \in Seq(EntryOf(ids))
        /\ IsEmpty(this) => After(this.info, t) = <<>>
    <3>1. {n \in DOMAIN this.info : this.info[n].time > t} \in SUBSET DOMAIN this.info
      OBVIOUS
    <3> HIDE DEF this
    <3> QED
      BY <2>1, <3>1, SelectedEntries DEF After
  <2>4. cut \in Period(ids) /\ cut.time = this.time /\ (IsEmpty(this) => IsEmpty(cut))
    <3>1. cut = [this EXCEPT !.info = Until(this.info, t)]
      OBVIOUS
    <3> HIDE DEF this, cut
    <3>2. cut \in Period(ids) /\ cut.time = this.time /\ cut.info = Until(this.info, t)
      BY <2>1, <2>2, <3>1, PeriodWithInfo
    <3> QED
      BY <2>2, <3>2 DEF IsEmpty
  <2>5. second \in Period(ids) /\ second.time = t /\ (IsEmpty(this) => IsEmpty(second))
    <3>1. second = [new EXCEPT !.info = After(this.info, t)]
      OBVIOUS
    <3> HIDE DEF this, new, second
    <3>2. second \in Period(ids) /\ second.time = t /\ second.info = After(this.info, t)
      BY <1>3, <2>3, <3>1, PeriodWithInfo
    <3> QED
      BY <2>3, <3>2 DEF IsEmpty
  <2>6. WithRange(list, t, range) = InsertAt(shorter, i + 1, second)
    <3>1. WithRange(list, t, range)
            = InsertAt([list EXCEPT ![i].info = Until(@, t)], i + 1,
                       [new EXCEPT !.info = After(this.info, t)])
      BY <1>6 DEF WithRange
    <3>2. [list EXCEPT ![i].info = Until(@, t)] = shorter
      BY <2>1
    <3> QED
      BY <3>1, <3>2
  <2> HIDE DEF cut, second
  <2>7. /\ shorter \in Periods(ids)
        /\ NoEntries(list) /\ IsEmpty(cut) => NoEntries(shorter)
        /\ DOMAIN shorter = DOMAIN list
        /\ \A j \in DOMAIN list : shorter[j].time = list[j].time
    BY <2>1, <2>4, Replaced DEF this
  <2> HIDE DEF shorter
  <2>8. NoEntries(list) => NoEntries(shorter) /\ IsEmpty(second)
    BY <2>1, <2>4, <2>5, <2>7 DEF NoEntries, IsEmpty
  <2>9. \A j \in DOMAIN shorter : i < j => second.time < shorter[j].time
    <3> SUFFICES ASSUME NEW j \in DOMAIN list, i < j PROVE t < list[j].time
      BY <2>5, <2>7
    <3>1. i \in Nat /\ j \in Nat /\ list[j].time \in Nat /\ ~(list[j].time <= t)
      BY <1>1, <1>2
    <3> QED
      BY <1>4, <3>1
  <2>10. i \in DOMAIN shorter /\ shorter[i].time < second.time
    BY <2>1, <2>5, <2>7 DEF this
  <2>11. /\ InsertAt(shorter, i + 1, second) \in Periods(ids)
         /\ InsertAt(shorter, i + 1, second)[1].time <= shorter[1].time
         /\ NoEntries(shorter) /\ IsEmpty(second)
              => NoEntries(InsertAt(shorter, i + 1, second))
    BY <2>5, <2>7, <2>9, <2>10, InsertedBehind DEF FitsBehind
  <2>12. shorter[1].time = list[1].time
    BY <1>2, <2>7
  <2> QED
    BY <2>6, <2>8, <2>11, <2>12 DEF Keeps
<1>7. ASSUME i # 0, ~Splits
      PROVE  Keeps(WithRange(list, t, range), list, ids)
  <2> DEFINE e == [this EXCEPT !.range = range]
  <2>1. i \in DOMAIN list /\ this \in Period(ids)
    BY <1>1, <1>2, <1>7
  <2>2. WithRange(list, t, range) = [list EXCEPT ![i] = e]
    <3>1. WithRange(list, t, range) = [list EXCEPT ![i].range = range]
      BY <1>7 DEF WithRange
    <3> QED
      BY <2>1, <3>1
  <2>4. e \in Period(ids) /\ e.time = this.time /\ e.info = this.info
    <3> HIDE DEF this
    <3> QED
      BY <2>1, PeriodWithRange
  <2> HIDE DEF e
  <2>5. /\ [list EXCEPT ![i] = e] \in Periods(ids)
        /\ NoEntries(list) /\ IsEmpty(e) => NoEntries([list EXCEPT ![i] = e])
        /\ \A j \in DOMAIN list : [list EXCEPT ![i] = e][j].time = list[j].time
    BY <2>1, <2>4, Replaced DEF this
  <2>6. NoEntries(list) => IsEmpty(e)
    BY <2>1, <2>4 DEF NoEntries, IsEmpty, this
  <2> QED
    BY <1>2, <2>2, <2>5, <2>6 DEF Keeps
<1> QED
  BY <1>5, <1>6, <1>7

LEMMA AddRangeQueryInfoKeeps ==
    ASSUME NEW ids, NEW list \in Periods(ids), NEW e \in EntryOf(ids)
    PROVE  /\ AddRangeQueryInfo(list, e) \in Periods(ids)
           /\ AddRangeQueryInfo(list, e)[1].time = list[1].time
<1> DEFINE i == PeriodAt(list, e.time)
           this == list[i]
           more == Append(this.info, e)
           that == [this EXCEPT !.info = more]
<1>0. e.time \in Time
  BY DEF EntryOf
<1>1. CASE ~HasRangePeriod(list, e.time)
  BY <1>1 DEF AddRangeQueryInfo
<1>2. CASE HasRangePeriod(list, e.time)
  <2>1. i \in DOMAIN list /\ 1 \in DOMAIN list
    BY <1>0, <1>2, PeriodAtIs, PeriodsAre DEF HasRangePeriod
  <2>2. this \in Period(ids)
    BY <2>1, PeriodsAre
  <2>3. more \in Seq(EntryOf(ids))
    BY <2>2 DEF Period
  <2>4. that \in Period(ids) /\ this.time = that.time
    <3> HIDE DEF this, more
    <3> QED
      BY <2>2, <2>3, PeriodWithInfo
  <2>5. AddRangeQueryInfo(list, e) = [list EXCEPT ![i] = that]
    BY <1>2, <2>1 DEF AddRangeQueryInfo
  <2> HIDE DEF that
  <2>6. /\ [list EXCEPT ![i] = that] \in Periods(ids)
        /\ \A j \in DOMAIN list : [list EXCEPT ![i] = that][j].time = list[j].time
    BY <2>1, <2>4, Replaced DEF this
  <2> QED
    BY <2>1, <2>5, <2>6
<1> QED
  BY <1>1, <1>2

LEMMA DeleteRangeQueryInfoKeeps ==
    ASSUME NEW ids, NEW list \in Periods(ids), NEW t \in Time, NEW id
    PROVE  Keeps(DeleteRangeQueryInfo(list, t, id), list, ids)
<1> DEFINE i == PeriodAt(list, t)
           this == list[i]
           fewer == Selected(this.info, {n \in DOMAIN this.info : this.info[n].id # id})
           that == [this EXCEPT !.info = fewer]
<1>0. 1 \in DOMAIN list /\ list[1].time \in Nat
  BY PeriodsAre
<1>1. CASE ~HasRangePeriod(list, t)
  BY <1>0, <1>1 DEF DeleteRangeQueryInfo, Keeps
<1>2. CASE HasRangePeriod(list, t)
  <2>1. i \in DOMAIN list
    BY <1>2, PeriodAtIs DEF HasRangePeriod
  <2>2. this \in Period(ids)
    BY <2>1, PeriodsAre
  <2>3. fewer \in Seq(EntryOf(ids)) /\ (IsEmpty(this) => fewer = <<>>)
    <3>1. {n \in DOMAIN this.info : this.info[n].id # id} \in SUBSET DOMAIN this.info
      OBVIOUS
    <3> HIDE DEF this
    <3> QED
      BY <2>2, <3>1, SelectedEntries
  <2>4. that \in Period(ids) /\ this.time = that.time /\ that.info = fewer
    <3> HIDE DEF this, fewer
    <3> QED
      BY <2>2, <2>3, PeriodWithInfo
  <2>5. DeleteRangeQueryInfo(list, t, id) = [list EXCEPT ![i] = that]
    BY <1>2, <2>1 DEF DeleteRangeQueryInfo
  <2> HIDE DEF that, fewer
  <2>6. /\ [list EXCEPT ![i] = that] \in Periods(ids)
        /\ NoEntries(list) /\ IsEmpty(that) => NoEntries([list EXCEPT ![i] = that])
        /\ \A j \in DOMAIN list : [list EXCEPT ![i] = that][j].time = list[j].time
    BY <2>1, <2>4, Replaced DEF this
  <2>7. NoEntries(list) => IsEmpty(that)
    BY <2>1, <2>3, <2>4 DEF NoEntries, IsEmpty, this
  <2> QED
    BY <1>0, <2>5, <2>6, <2>7 DEF Keeps
<1> QED
  BY <1>1, <1>2

\* What SetGvt leaves starts at GVT, or as late as before.
LEMMA ClearRangePeriodsKeeps ==
    ASSUME NEW ids, NEW list \in Periods(ids), NEW gvt \in Time, list[1].time <= gvt
    PROVE  /\ ClearRangePeriods(list, gvt) \in Periods(ids)
           /\ ClearRangePeriods(list, gvt)[1].time = gvt
           /\ NoEntries(list) => NoEntries(ClearRangePeriods(list, gvt))
<1> DEFINE i == PeriodAt(list, gvt)
           this == list[i]
           fewer == Selected(this.info, {n \in DOMAIN this.info : this.info[n].time >= gvt})
           kept == IF this.time = gvt THEN this ELSE [this EXCEPT !.time = gvt, !.info = fewer]
           n == Len(list)
           rest == SubSeq(list, i + 1, n)
           new == <<kept>> \o rest
<1>1. /\ list \in Seq(Period(ids)) /\ n \in Nat /\ DOMAIN list = 1..n /\ 1 \in DOMAIN list
      /\ \A j \in 1..n : list[j] \in Period(ids) /\ list[j].time \in Nat
      /\ \A h, j \in 1..n : h < j => list[h].time < list[j].time
  BY PeriodsAre
<1>2. /\ i \in 1..n /\ this.time <= gvt
      /\ \A j \in 1..n : list[j].time <= gvt => j <= i
  BY <1>1, PeriodAtIs
<1>3. gvt \in Nat
  BY TimesAreNumbers
<1>4. this \in Period(ids)
  BY <1>1, <1>2
<1>5. fewer \in Seq(EntryOf(ids)) /\ (IsEmpty(this) => fewer = <<>>)
  <2>1. {k \in DOMAIN this.info : this.info[k].time >= gvt} \in SUBSET DOMAIN this.info
    OBVIOUS
  <2> HIDE DEF this
  <2> QED
    BY <1>4, <2>1, SelectedEntries
<1>6. kept \in Period(ids) /\ kept.time = gvt /\ (IsEmpty(this) => IsEmpty(kept))
  <2>1. CASE this.time = gvt
    BY <1>4, <2>1
  <2>2. CASE this.time # gvt
    <3>1. kept = [this EXCEPT !.time = gvt, !.info = fewer]
      BY <2>2
    <3> HIDE DEF this, fewer, kept
    <3>2. kept \in Period(ids) /\ kept.time = gvt /\ kept.info = fewer
      BY <1>4, <1>5, <3>1 DEF Period
    <3> QED
      BY <1>5, <3>2 DEF IsEmpty
  <2> QED
    BY <2>1, <2>2
<1>7. ClearRangePeriods(list, gvt) = new
  <2> DEFINE moved == [this EXCEPT !.time = gvt,
                               !.info = Selected(@, {k \in DOMAIN @ : @[k].time >= gvt})]
  <2>1. ClearRangePeriods(list, gvt)
          = <<IF this.time = gvt THEN this ELSE moved>> \o SubSeq(list, i + 1, Len(list))
    <3>1. i # 0
      BY <1>1, <1>2
    <3> QED
      BY <3>1, Zenon DEF ClearRangePeriods
  <2>2. moved = [this EXCEPT !.time = gvt, !.info = fewer]
    <3> HIDE DEF this
    <3> QED
      BY <1>4 DEF Period
  <2> HIDE DEF moved, fewer, this, i
  <2> QED
    BY <2>1, <2>2
<1> HIDE DEF kept, fewer
<1>8. /\ rest \in Seq(Period(ids)) /\ Len(rest) = n - i
      /\ \A j \in 1..(n - i) : rest[j] = list[i + j]
  <2>1. i + 1 \in Nat /\ 1 <= i + 1 /\ i + 1 <= n + 1 /\ n <= Len(list)
    BY <1>1, <1>2
  <2> QED
    BY SMTT(30), <1>1, <1>2, <2>1
<1>9. /\ new \in Seq(Period(ids)) /\ Len(new) = n - i + 1 /\ new[1] = kept
      /\ \A j \in 2..(n - i + 1) : new[j] = rest[j - 1]
  <2> HIDE DEF rest, this, i, n
  <2> QED
    BY <1>1, <1>2, <1>6, <1>8
<1> HIDE DEF rest, new
<1>10. \A j \in 2..(n - i + 1) : new[j] = list[i + j - 1] /\ i + j - 1 \in 1..n /\ i < i + j - 1
  <2> HIDE DEF this, i, n
  <2> SUFFICES ASSUME NEW j \in 2..(n - i + 1)
               PROVE  new[j] = list[i + j - 1] /\ i + j - 1 \in 1..n /\ i < i + j - 1
    OBVIOUS
  <2>1. j - 1 \in 1..(n - i) /\ i + (j - 1) = i + j - 1
    BY <1>1, <1>2
  <2>2. rest[j - 1] = list[i + (j - 1)]
    BY <1>8, <2>1
  <2>3. new[j] = list[i + (j - 1)]
    BY <1>9, <2>2
  <2> QED
    BY <1>1, <1>2, <2>1, <2>3
<1> HIDE DEF this, i, n
<1>11. \A j \in 2..(n - i + 1) : gvt < new[j].time
  <2> SUFFICES ASSUME NEW j \in 2..(n - i + 1) PROVE gvt < new[j].time
    OBVIOUS
  <2>1. new[j] = list[i + j - 1] /\ i + j - 1 \in 1..n /\ ~(i + j - 1 <= i)
    BY <1>1, <1>2, <1>10
  <2>2. list[i + j - 1].time \in Nat /\ ~(list[i + j - 1].time <= gvt)
    BY <1>1, <1>2, <2>1
  <2> QED
    BY <1>3, <2>1, <2>2
<1>12. Earlier(new)
  <2> SUFFICES ASSUME NEW h \in 1..(n - i + 1), NEW j \in 1..(n - i + 1), h < j
               PROVE  new[h].time < new[j].time
    BY <1>9 DEF Earlier
  <2>1. j \in 2..(n - i + 1)
    BY <1>1, <1>2
  <2>2. CASE h = 1
    BY <1>6, <1>9, <1>11, <2>1, <2>2
  <2>3. CASE h # 1
    <3>1. h \in 2..(n - i + 1) /\ i + h - 1 < i + j - 1
      BY <1>1, <1>2, <2>3
    <3> QED
      BY <1>1, <1>10, <2>1, <3>1
  <2> QED
    BY <2>2, <2>3
<1>13. NoEntries(list) => NoEntries(new)
  <2> SUFFICES ASSUME NoEntries(list), NEW j \in 1..(n - i + 1) PROVE new[j].info = <<>>
    BY <1>9 DEF NoEntries
  <2>1. IsEmpty(kept)
    BY <1>1, <1>2, <1>6 DEF NoEntries, IsEmpty, this
  <2>2. CASE j = 1
    BY <1>9, <2>1, <2>2 DEF IsEmpty
  <2>3. CASE j # 1
    <3>1. j \in 2..(n - i + 1)
      BY <1>1, <1>2, <2>3
    <3> QED
      BY <1>1, <1>10, <3>1 DEF NoEntries
  <2> QED
    BY <2>2, <2>3
<1>14. new # <<>>
  BY <1>1, <1>2, <1>9
<1> QED
  BY <1>6, <1>7, <1>9, <1>12, <1>13, <1>14 DEF Periods
-----------------------------------------------------------------------------
(***************************************************************************)
(* Boxes and histories.                                                    *)
(***************************************************************************)
LEMMA PointsArePoints ==
    ASSUME NEW v \in Ssv
    PROVE  PointsOf(v) \subseteq Point
  BY ConstantsAssumption DEF PointsOf

LEMMA BoxIsRange ==
    ASSUME NEW points \in SUBSET Point
    PROVE  BoxOf(points) \in AnyRange
<1>1. CASE points = {}
  BY <1>1 DEF BoxOf, AnyRange
<1>2. CASE points # {}
  <2> DEFINE xs == {q[1] : q \in points}
             ys == {q[2] : q \in points}
  <2>1. \A q \in points : q[1] \in 0..INT_MAX /\ q[2] \in 0..INT_MAX
    BY DEF Point
  <2>2. /\ xs \in SUBSET (0..INT_MAX) /\ xs # {}
        /\ ys \in SUBSET (0..INT_MAX) /\ ys # {}
    BY <1>2, <2>1
  <2>3. INT_MAX \in Nat
    BY DEF INT_MAX
  <2> HIDE DEF xs, ys
  <2>4. xs \in SUBSET Nat /\ ys \in SUBSET Nat
    BY <2>2, <2>3
  <2>5. Min(xs) \in xs /\ Min(ys) \in ys
    BY <2>2, <2>4, MinInSet
  <2>6. Max(xs) \in xs /\ Max(ys) \in ys
    BY <2>2, <2>3, MaxFromZero
  <2>7. BoxOf(points) = [min |-> <<Min(xs), Min(ys)>>, max |-> <<Max(xs), Max(ys)>>]
    BY <1>2 DEF BoxOf, xs, ys
  <2>8. <<Min(xs), Min(ys)>> \in Point /\ <<Max(xs), Max(ys)>> \in Point
    BY <2>2, <2>5, <2>6 DEF Point
  <2> QED
    BY <2>7, <2>8 DEF AnyRange
<1> QED
  BY <1>1, <1>2

LEMMA ReadIsPoint ==
    ASSUME NEW h, AreHistories(h), NEW v \in Ssv, NEW t \in Time
    PROVE  ReadWithoutRecord(h[v], t) \in PointsOf(v)
<1> DEFINE S == {s \in DOMAIN h[v] : s <= t}
<1>1. 0 \in DOMAIN h[v] /\ DOMAIN h[v] \subseteq Time /\ t \in Nat
  BY TimesAreNumbers DEF AreHistories
<1>2. S \in SUBSET (0..t) /\ S # {}
  <2>1. DOMAIN h[v] \subseteq Nat
    BY <1>1, TimesAreNumbers
  <2>2. \A s \in S : s \in 0..t
    BY <1>1, <2>1
  <2>3. 0 \in S
    BY <1>1
  <2> QED
    BY <2>2, <2>3
<1>3. Max(S) \in S
  <2> HIDE DEF S
  <2> QED
    BY <1>1, <1>2, MaxFromZero
<1>4. Max(S) \in DOMAIN h[v]
  BY <1>3
<1>5. ReadWithoutRecord(h[v], t) = h[v][Max(S)]
  BY DEF ReadWithoutRecord
<1> HIDE DEF S
<1> QED
  BY <1>4, <1>5 DEF AreHistories

LEMMA RecalculatedIsRange ==
    ASSUME NEW h, AreHistories(h), NEW where, NEW p, NEW t \in Time
    PROVE  RecalculateRange(where, h, p, t) \in AnyRange
<1> DEFINE points == {ReadWithoutRecord(h[v], t) : v \in {w \in Ssv : where[w] = p}}
<1>1. points \in SUBSET Point
  BY ReadIsPoint, PointsArePoints
<1> HIDE DEF points
<1>2. BoxOf(points) \in AnyRange
  BY <1>1, BoxIsRange
<1> QED
  BY <1>2 DEF RecalculateRange, points

LEMMA RangeReadIsFound ==
    ASSUME AreHistories(positions), NEW p, NEW box, NEW t \in Time
    PROVE  RangeRead(p, box, t) \in Found
<1>1. ASSUME NEW r \in RangeRead(p, box, t)
      PROVE  r \in UNION {{v} \X PointsOf(v) : v \in Ssv}
  <2>1. PICK v \in Ssv : r = <<v, ReadWithoutRecord(positions[v], t)>>
    BY DEF RangeRead
  <2>2. ReadWithoutRecord(positions[v], t) \in PointsOf(v)
    BY ReadIsPoint
  <2> QED
    BY <2>1, <2>2
<1> QED
  BY <1>1 DEF Found, PointsOf

LEMMA FoundIsClosed ==
    /\ {} \in Found
    /\ \A f, g \in Found : f \cup g \in Found
  BY DEF Found

-----------------------------------------------------------------------------
(***************************************************************************)
(* Messages on the links.                                                  *)
(***************************************************************************)
LEMMA ReceivableIsThere ==
    ASSUME NEW M, NEW queue \in Seq(M), NEW i \in Receivable(queue)
    PROVE  i \in DOMAIN queue
<1> DEFINE updates == {j \in DOMAIN queue : queue[j].type = "update"}
<1>1. updates \in SUBSET Nat
  OBVIOUS
<1>2. updates # {} => Min(updates) \in updates
  <2> HIDE DEF updates
  <2> QED
    BY <1>1, MinInSet
<1> QED
  BY <1>2 DEF Receivable

\* What goes out of LP p on link k, which may be nothing.
OutOn(k, p, out) ==
    IF k[1] = p /\ GetDirectionFromRank(k[1], k[2]) \in DOMAIN out
    THEN out[GetDirectionFromRank(k[1], k[2])] ELSE <<>>

LEMMA OutOnIsSeq ==
    ASSUME NEW M, NEW k, NEW p, NEW out, \A d \in DOMAIN out : out[d] \in Seq(M)
    PROVE  OutOn(k, p, out) \in Seq(M)
  BY DEF OutOn

LEMMA ExchangedLinks ==
    ASSUME NEW M, net \in [Link -> Seq(M)], NEW l \in Link, NEW i \in DOMAIN net[l],
           NEW out, \A d \in DOMAIN out : out[d] \in Seq(M)
    PROVE  /\ Exchanged(l, i, out) \in [Link -> Seq(M)]
           /\ RemoveAt(net[l], i) \in Seq(M)
           /\ \A k \in Link : Exchanged(l, i, out)[k] =
                (IF k = l THEN RemoveAt(net[l], i) ELSE net[k]) \o OutOn(k, l[2], out)
<1>1. RemoveAt(net[l], i) \in Seq(M)
  <2>1. net[l] \in Seq(M)
    OBVIOUS
  <2>2. PICK s \in Seq(M) : s = net[l]
    BY <2>1
  <2>3. PICK n \in Nat : n = Len(s)
    OBVIOUS
  <2>4. i \in 1..n /\ Len(s) = n
    BY <2>2, <2>3
  <2>5. RemoveAt(s, i) \in Seq(M)
    BY <2>4, RemoveAtElements
  <2> QED
    BY <2>2, <2>5
<1>2. \A k \in Link : OutOn(k, l[2], out) \in Seq(M)
  BY OutOnIsSeq
<1>3. Exchanged(l, i, out) = [k \in Link |->
        (IF k = l THEN RemoveAt(net[k], i) ELSE net[k]) \o OutOn(k, l[2], out)]
  BY DEF Exchanged, OutOn
<1>4. \A k \in Link : (IF k = l THEN RemoveAt(net[k], i) ELSE net[k]) \in Seq(M)
  BY <1>1
<1>5. \A k \in Link :
        (IF k = l THEN RemoveAt(net[k], i) ELSE net[k]) \o OutOn(k, l[2], out) \in Seq(M)
  BY <1>2, <1>4
<1> QED
  BY <1>1, <1>3, <1>5

LEMMA RemoveAtSet ==
    ASSUME NEW S, NEW s \in Seq(S), NEW n \in Nat, Len(s) = n, NEW k \in 1..n
    PROVE  ToSet(RemoveAt(s, k)) \subseteq ToSet(s)
<1> DEFINE r == RemoveAt(s, k)
<1>1. r \in Seq(S) /\ Len(r) = n - 1
  BY RemoveAtElements
<1>2. \A i \in 1..(k - 1) : r[i] = s[i]
  BY RemoveAtElements
<1>3. \A i \in k..(n - 1) : r[i] = s[i + 1]
  BY RemoveAtElements
<1> HIDE DEF r
<1>4. DOMAIN r = 1..(n - 1) /\ DOMAIN s = 1..n
  BY <1>1
<1>5. ASSUME NEW i \in 1..(n - 1) PROVE \E j \in 1..n : r[i] = s[j]
  <2>1. CASE i \in 1..(k - 1)
    BY <1>2, <2>1
  <2>2. CASE i \in k..(n - 1)
    <3>1. i + 1 \in 1..n
      BY <2>2
    <3> QED
      BY <1>3, <2>2, <3>1
  <2> QED
    BY <2>1, <2>2
<1>6. ToSet(r) \subseteq ToSet(s)
  BY <1>4, <1>5 DEF ToSet
<1> QED
  BY <1>6 DEF r

\* A message was there before, or has just been sent.
LEMMA ExchangedMessages ==
    ASSUME NEW M, net \in [Link -> Seq(M)], NEW l \in Link, NEW i \in DOMAIN net[l],
           NEW out, \A d \in DOMAIN out : out[d] \in Seq(M),
           NEW k \in Link, NEW m \in ToSet(Exchanged(l, i, out)[k])
    PROVE  \/ m \in ToSet(net[k])
           \/ /\ k[1] = l[2] /\ GetDirectionFromRank(k[1], k[2]) \in DOMAIN out
              /\ m \in ToSet(out[GetDirectionFromRank(k[1], k[2])])
<1> DEFINE rest == IF k = l THEN RemoveAt(net[l], i) ELSE net[k]
           more == OutOn(k, l[2], out)
<1>1. rest \in Seq(M) /\ more \in Seq(M) /\ Exchanged(l, i, out)[k] = rest \o more
  <2>1. RemoveAt(net[l], i) \in Seq(M)
    BY ExchangedLinks
  <2>2. rest \in Seq(M)
    BY <2>1
  <2>3. more \in Seq(M)
    BY OutOnIsSeq
  <2>4. Exchanged(l, i, out)[k] = (IF k = l THEN RemoveAt(net[k], i) ELSE net[k]) \o more
    BY DEF Exchanged, OutOn
  <2>5. rest = IF k = l THEN RemoveAt(net[k], i) ELSE net[k]
    OBVIOUS
  <2> QED
    BY <2>2, <2>3, <2>4, <2>5
<1>2. ToSet(rest) \subseteq ToSet(net[k])
  <2>1. CASE k = l
    <3>1. PICK s \in Seq(M) : s = net[l]
      OBVIOUS
    <3>2. PICK n \in Nat : n = Len(s)
      OBVIOUS
    <3>3. i \in 1..n /\ Len(s) = n
      BY <3>1, <3>2
    <3>4. ToSet(RemoveAt(s, i)) \subseteq ToSet(s)
      BY <3>3, RemoveAtSet
    <3> QED
      BY <2>1, <3>1, <3>4
  <2>2. CASE k # l
    BY <2>2
  <2> QED
    BY <2>1, <2>2
<1> HIDE DEF rest, more
<1>3. m \in ToSet(rest) \/ m \in ToSet(more)
  BY <1>1, ToSetOfConcat
<1>4. m \in ToSet(more) => k[1] = l[2] /\ GetDirectionFromRank(k[1], k[2]) \in DOMAIN out
  <2>1. ToSet(<<>>) = {}
    BY DEF ToSet
  <2> QED
    BY <2>1 DEF OutOn, more
<1> QED
  BY <1>2, <1>3, <1>4 DEF OutOn, more
-----------------------------------------------------------------------------
(***************************************************************************)
(* Where the messages go.                                                  *)
(***************************************************************************)
LEMMA ClpOrAlp == Clp \cap Alps = {} /\ Clp \subseteq LpRank /\ Alps \subseteq LpRank
<1>1. C \in Nat /\ Alps = C..(C + Cardinality(Alps) - 1)
  BY RoutingAssumption
<1>2. \A r \in Alps : r >= C /\ r \in Int
  <2>1. PICK k \in Nat : k = Cardinality(Alps)
    BY RoutingAssumption, FS_CardinalityType
  <2> QED
    BY <1>1, <2>1
<1>3. \A r \in Clp : r < C
  BY <1>1 DEF Clp
<1>4. Alps \subseteq Int
  BY <1>2
<1>5. Clp \subseteq Int
  BY <1>1 DEF Clp
<1> QED
  BY <1>1, <1>2, <1>3, <1>4, <1>5 DEF LpRank

LEMMA AgentLink ==
    ASSUME LinksAgree, NEW a \in Alps
    PROVE  /\ AlpParent[a] \in Clp /\ a \in Neighbours(AlpParent[a])
           /\ <<AlpParent[a], a>> \in Link /\ <<a, AlpParent[a]>> \in Link
           /\ GetDirectionFromRank(AlpParent[a], a) \notin ClpPorts(AlpParent[a])
<1> DEFINE p == AlpParent[a]
<1>1. p \in Clp
  BY RoutingAssumption
<1>2. a \in Neighbours(p)
  BY <1>1 DEF LinksAgree
<1>3. <<p, a>> \in Link /\ <<a, p>> \in Link
  BY <1>1, <1>2, ClpOrAlp DEF Link
<1>4. ASSUME NEW n \in Neighbours(p) \cap Clp,
             GetDirectionFromRank(p, a) = GetDirectionFromRank(p, n) PROVE FALSE
  <2>1. n = a
    BY <1>1, <1>2, <1>4, ClpOrAlp DEF LinksAgree
  <2> QED
    BY <2>1, ClpOrAlp
<1>5. GetDirectionFromRank(p, a) \notin ClpPorts(p)
  BY <1>1, <1>4 DEF LinksAgree
<1> QED
  BY <1>1, <1>2, <1>3, <1>5

LEMMA LinkEnds ==
    ASSUME LinksAgree, NEW l \in Link
    PROVE  /\ l = <<l[1], l[2]>> /\ l[1] \in LpRank /\ l[2] \in LpRank
           /\ l[2] \in Clp => GetDirectionFromRank(l[2], l[1]) \in Direction
<1>1. l = <<l[1], l[2]>> /\ l[1] \in LpRank /\ l[2] \in LpRank
  BY DEF Link
<1> QED
  BY <1>1 DEF LinksAgree

\* What LP p may send: updates to CLPs only.
MaySend(p, out, ids) ==
    \A d \in DOMAIN out : /\ out[d] \in Seq(MessageOf(ids))
                          /\ d \in ClpPorts(p) \/ \A m \in ToSet(out[d]) : m.type # "update"

LEMMA MessagesExchanged ==
    ASSUME LinksAgree, NEW ids, AreMessages(net, ids), NEW l \in Link,
           NEW i \in DOMAIN net[l], NEW out, MaySend(l[2], out, ids)
    PROVE  AreMessages(Exchanged(l, i, out), ids)
<1>1. net \in [Link -> Seq(MessageOf(ids))] /\ \A d \in DOMAIN out : out[d] \in Seq(MessageOf(ids))
  BY DEF AreMessages, MaySend
<1>2. Exchanged(l, i, out) \in [Link -> Seq(MessageOf(ids))]
  BY <1>1, ExchangedLinks
<1>3. ASSUME NEW a \in Alps, NEW m \in ToSet(Exchanged(l, i, out)[<<AlpParent[a], a>>])
      PROVE  m.type # "update"
  <2> DEFINE k == <<AlpParent[a], a>>
  <2>1. k \in Link /\ k[1] = AlpParent[a] /\ k[2] = a
    BY AgentLink
  <2>2. \/ m \in ToSet(net[k])
        \/ /\ k[1] = l[2] /\ GetDirectionFromRank(k[1], k[2]) \in DOMAIN out
           /\ m \in ToSet(out[GetDirectionFromRank(k[1], k[2])])
    <3> HIDE DEF k
    <3> QED
      BY <1>1, <1>3, <2>1, ExchangedMessages DEF k
  <2>3. CASE m \in ToSet(net[k])
    BY <2>3 DEF AreMessages
  <2>4. CASE k[1] = l[2] /\ GetDirectionFromRank(k[1], k[2]) \in DOMAIN out
             /\ m \in ToSet(out[GetDirectionFromRank(k[1], k[2])])
    <3>1. GetDirectionFromRank(l[2], a) \notin ClpPorts(l[2])
      BY <2>1, <2>4, AgentLink
    <3> QED
      BY <2>1, <2>4, <3>1 DEF MaySend
  <2> QED
    BY <2>2, <2>3, <2>4
<1> QED
  BY <1>2, <1>3 DEF AreMessages

LEMMA MessagesSent ==
    ASSUME LinksAgree, NEW ids, AreMessages(net, ids), NEW p, NEW out, MaySend(p, out, ids)
    PROVE  AreMessages(Sent(p, out), ids)
<1> DEFINE M == MessageOf(ids)
<1>1. net \in [Link -> Seq(M)] /\ \A d \in DOMAIN out : out[d] \in Seq(M)
  BY DEF AreMessages, MaySend
<1> HIDE DEF M
<1>2. \A k \in Link : OutOn(k, p, out) \in Seq(M)
  BY <1>1, OutOnIsSeq
<1>3. Sent(p, out) = [k \in Link |-> net[k] \o OutOn(k, p, out)]
  BY DEF Sent, OutOn
<1>4. \A k \in Link : net[k] \o OutOn(k, p, out) \in Seq(M)
  BY <1>1, <1>2
<1>5. Sent(p, out) \in [Link -> Seq(M)]
  BY <1>3, <1>4
<1>6. ASSUME NEW a \in Alps, NEW m \in ToSet(Sent(p, out)[<<AlpParent[a], a>>])
      PROVE  m.type # "update"
  <2> DEFINE k == <<AlpParent[a], a>>
  <2>1. k \in Link /\ k[1] = AlpParent[a] /\ k[2] = a
    BY AgentLink
  <2> HIDE DEF k
  <2>2. m \in ToSet(net[k] \o OutOn(k, p, out))
    BY <1>3, <1>6, <2>1 DEF k
  <2>3. net[k] \in Seq(M) /\ OutOn(k, p, out) \in Seq(M)
    BY <1>1, <1>2, <2>1
  <2>4. m \in ToSet(net[k]) \/ m \in ToSet(OutOn(k, p, out))
    BY <2>2, <2>3, ToSetOfConcat
  <2>5. CASE m \in ToSet(net[k])
    BY <2>5 DEF AreMessages, k
  <2>6. CASE m \in ToSet(OutOn(k, p, out))
    <3>1. ToSet(<<>>) = {}
      BY DEF ToSet
    <3>2. k[1] = p /\ GetDirectionFromRank(p, a) \in DOMAIN out
          /\ m \in ToSet(out[GetDirectionFromRank(p, a)])
      BY <2>1, <2>6, <3>1 DEF OutOn
    <3>3. GetDirectionFromRank(p, a) \notin ClpPorts(p)
      BY <2>1, <3>2, AgentLink
    <3> QED
      BY <3>2, <3>3 DEF MaySend
  <2> QED
    BY <2>4, <2>5, <2>6
<1> QED
  BY <1>5, <1>6 DEF AreMessages, M
-----------------------------------------------------------------------------
(***************************************************************************)
(* The handlers of a CLP keep the types.                                   *)
(***************************************************************************)
LEMMA MessageFields ==
    ASSUME NEW ids, NEW m \in MessageOf(ids)
    PROVE  /\ m.type = "query" => m.id \in ids /\ m.found \in Found
           /\ m.type = "anti" => m.id \in ids
           /\ m.type = "update" => m.time \in Time /\ m.range \in AnyRange
           /\ m.type \in {"query", "anti", "update"}
  BY DEF MessageOf

LEMMA MessagesToSend ==
    ASSUME NEW ids, NEW id \in ids
    PROVE  /\ \A found \in Found : Query(id, found) \in MessageOf(ids)
                                   /\ <<Query(id, found)>> \in Seq(MessageOf(ids))
                                   /\ \A m \in ToSet(<<Query(id, found)>>) : m.type # "update"
           /\ <<[type |-> "anti", id |-> id]>> \in Seq(MessageOf(ids))
           /\ \A m \in ToSet(<<[type |-> "anti", id |-> id]>>) : m.type # "update"
<1>1. \A found \in Found : Query(id, found) \in MessageOf(ids) /\ Query(id, found).type = "query"
  BY DEF Query, MessageOf
<1>2. [type |-> "anti", id |-> id] \in MessageOf(ids)
  BY DEF MessageOf
<1>3. \A m \in MessageOf(ids) : <<m>> \in Seq(MessageOf(ids)) /\ ToSet(<<m>>) = {m}
  <2> SUFFICES ASSUME NEW m \in MessageOf(ids)
               PROVE  <<m>> \in Seq(MessageOf(ids)) /\ ToSet(<<m>>) = {m}
    OBVIOUS
  <2> QED
    BY DEF ToSet
<1> QED
  BY <1>1, <1>2, <1>3

LEMMA QueryFields ==
    ASSUME AreQueries(queries), NEW id \in Ids
    PROVE  /\ queries[id].agent \in Alps /\ queries[id].time \in Time /\ queries[id].box \in Box
           /\ id \in Nat /\ id \in 1..Len(queries)
<1>1. queries[id] \in RangeQueryOf /\ id \in 1..Len(queries)
  BY DEF AreQueries, Ids
<1> QED
  BY <1>1 DEF RangeQueryOf

LEMMA AgentPortIs ==
    ASSUME LinksAgree, AreQueries(queries), NEW id \in Ids, NEW p \in Clp
    PROVE  AgentPort(p, id) \in Direction
  BY QueryFields, ClpOrAlp DEF AgentPort, LinksAgree

LEMMA PortsAreDirections ==
    /\ Port \subseteq Direction /\ HERE \in Direction /\ UP \in Direction /\ HERE \notin Port
    /\ \A p : ClpPorts(p) \subseteq Port /\ ClpPorts(p) \subseteq Direction
  BY DEF Direction, Port, ClpPorts, HERE, UP, RIGHT, DIRECTION_SIZE

\* One CLP has changed its lists, and none of them starts later than before.
LEMMA RowReplaced ==
    ASSUME NEW table, NEW gvt, NEW ids, AreTables(table, gvt, ids), NEW p \in Clp,
           NEW row \in [Direction -> Periods(ids)],
           \A d \in Direction : row[d][1].time <= table[p][d][1].time
    PROVE  AreTables([table EXCEPT ![p] = row], gvt, ids)
<1> DEFINE new == [table EXCEPT ![p] = row]
<1>1. /\ gvt \in [Clp -> Time] /\ table \in [Clp -> [Direction -> Periods(ids)]]
      /\ \A q \in Clp, d \in Direction : table[q][d][1].time <= gvt[q]
  BY DEF AreTables
<1>2. new \in [Clp -> [Direction -> Periods(ids)]]
  BY <1>1
<1>3. \A q \in Clp : new[q] = IF q = p THEN row ELSE table[q]
  BY <1>1
<1>4. ASSUME NEW q \in Clp, NEW d \in Direction PROVE new[q][d][1].time <= gvt[q]
  <2>1. CASE q # p
    BY <1>1, <1>3, <2>1
  <2>2. CASE q = p
    <3>1. row[d] \in Periods(ids) /\ table[p][d] \in Periods(ids)
      BY <1>1
    <3>2. row[d][1].time \in Nat /\ table[p][d][1].time \in Nat
      BY <3>1, PeriodsAre
    <3>3. gvt[p] \in Nat
      BY <1>1, TimesAreNumbers
    <3>4. row[d][1].time <= table[p][d][1].time /\ table[p][d][1].time <= gvt[p]
      BY <1>1
    <3>5. row[d][1].time <= gvt[p]
      BY <3>2, <3>3, <3>4
    <3> QED
      BY <1>3, <2>2, <3>5
  <2> QED
    BY <2>1, <2>2
<1> QED
  BY <1>1, <1>2, <1>4 DEF AreTables

\* The same for one list of it.
LEMMA ListReplaced ==
    ASSUME NEW table, NEW gvt, NEW ids, AreTables(table, gvt, ids), NEW p \in Clp,
           NEW port \in Direction, NEW list \in Periods(ids),
           list[1].time <= table[p][port][1].time
    PROVE  AreTables([table EXCEPT ![p][port] = list], gvt, ids)
<1> DEFINE row == [table[p] EXCEPT ![port] = list]
<1>1. table \in [Clp -> [Direction -> Periods(ids)]]
  BY DEF AreTables
<1>2. row \in [Direction -> Periods(ids)]
  BY <1>1
<1>3. ASSUME NEW d \in Direction PROVE row[d][1].time <= table[p][d][1].time
  <2>1. table[p][d] \in Periods(ids)
    BY <1>1
  <2>2. table[p][d][1].time \in Nat
    BY <2>1, PeriodsAre
  <2>3. row[d] = IF d = port THEN list ELSE table[p][d]
    BY <1>1
  <2>4. table[p][d][1].time <= table[p][d][1].time
    BY <2>2
  <2> QED
    BY <2>3, <2>4
<1>4. [table EXCEPT ![p][port] = list] = [table EXCEPT ![p] = row]
  BY <1>1
<1> HIDE DEF row
<1> QED
  BY <1>2, <1>3, <1>4, RowReplaced

LEMMA TrackedKeeps ==
    ASSUME TrackerTypes, NEW p \in Clp, NEW id \in Ids, NEW status \in Status
    PROVE  LET new == [fRangeTracker EXCEPT ![p] = Tracked(p, id, status)]
           IN  new = [q \in Clp |-> new[q]] /\ AreTrackers(new, Ids)
<1> DEFINE mine == Tracked(p, id, status)
           new == [fRangeTracker EXCEPT ![p] = mine]
<1>1. fRangeTracker = [q \in Clp |-> fRangeTracker[q]] /\ AreTrackers(fRangeTracker, Ids)
  BY DEF TrackerTypes
<1>2. DOMAIN mine \subseteq Ids /\ \A q \in DOMAIN mine : mine[q] \in Status
  BY <1>1 DEF AreTrackers, Tracked
<1> HIDE DEF mine
<1>3. new = [q \in Clp |-> IF q = p THEN mine ELSE fRangeTracker[q]]
  BY <1>1
<1>4. new = [q \in Clp |-> new[q]]
  BY <1>3
<1>5. AreTrackers(new, Ids)
  BY <1>1, <1>2, <1>3 DEF AreTrackers
<1> QED
  BY <1>4, <1>5 DEF mine

LEMMA ReplyMayBeSent ==
    ASSUME NEW ids, NEW id \in ids, NEW p, NEW status \in Status
    PROVE  MaySend(p, Reply(id, status), ids)
<1> DEFINE m == <<Query(id, status.found)>>
<1>1. m \in Seq(MessageOf(ids)) /\ \A e \in ToSet(m) : e.type # "update"
  <2>1. status.found \in Found
    BY DEF Status
  <2> QED
    BY <2>1, MessagesToSend
<1>2. \A d \in DOMAIN Reply(id, status) : Reply(id, status)[d] = m
  BY DEF Reply
<1> HIDE DEF m
<1> QED
  BY <1>1, <1>2 DEF MaySend

LEMMA NotedKeeps ==
    ASSUME Types, LinksAgree, NEW p \in Clp, NEW id \in Ids
    PROVE  AreTables([fRangeRoutingTable EXCEPT ![p] = Noted(p, id)], fGVT, Ids)
<1> DEFINE row == Noted(p, id)
           e(d) == [id |-> id, time |-> queries[id].time, box |-> queries[id].box,
                    blocked |-> d \notin NotBlocked(p, id), agent |-> queries[id].agent]
<1>1. AreTables(fRangeRoutingTable, fGVT, Ids)
  BY DEF Types, TableTypes
<1>2. /\ queries[id].agent \in Alps /\ queries[id].time \in Time /\ queries[id].box \in Box
  BY QueryFields DEF Types
<1>3. \A d \in Direction : e(d) \in EntryOf(Ids)
  BY <1>2 DEF EntryOf
<1>4. \A d \in Direction : row[d] = IF d \in Ranged(p, id)
                                    THEN AddRangeQueryInfo(fRangeRoutingTable[p][d], e(d))
                                    ELSE fRangeRoutingTable[p][d]
  BY DEF Noted
<1>5. row = [d \in Direction |-> row[d]]
  BY DEF Noted
<1> HIDE DEF e, row
<1>6. ASSUME NEW d \in Direction
      PROVE  row[d] \in Periods(Ids) /\ row[d][1].time <= fRangeRoutingTable[p][d][1].time
  <2>1. fRangeRoutingTable[p][d] \in Periods(Ids)
    BY <1>1 DEF AreTables
  <2>2. PICK list \in Periods(Ids) : list = fRangeRoutingTable[p][d]
    BY <2>1
  <2>3. list[1].time \in Nat
    BY PeriodsAre
  <2>4. AddRangeQueryInfo(list, e(d)) \in Periods(Ids)
        /\ AddRangeQueryInfo(list, e(d))[1].time = list[1].time
    BY <1>3, AddRangeQueryInfoKeeps
  <2>5. row[d] = list \/ row[d] = AddRangeQueryInfo(list, e(d))
    BY <1>4, <2>2
  <2>6. row[d] \in Periods(Ids) /\ row[d][1].time = list[1].time
    BY <2>4, <2>5
  <2> QED
    BY <2>2, <2>3, <2>6
<1>7. row \in [Direction -> Periods(Ids)]
  BY <1>5, <1>6
<1>8. AreTables([fRangeRoutingTable EXCEPT ![p] = row], fGVT, Ids)
  BY <1>1, <1>6, <1>7, RowReplaced
<1> QED
  BY <1>8 DEF row

\* What a handler leaves, of all that it may change.
Handled(table, tracker, links, rolled, seen) ==
    /\ AreTables(table, fGVT, Ids)
    /\ tracker = [q \in Clp |-> tracker[q]] /\ AreTrackers(tracker, Ids)
    /\ AreMessages(links, Ids) /\ rolled \subseteq Ids /\ seen \subseteq Weakness

LEMMA StatusOfNew ==
    ASSUME Types, LinksAgree, NEW p \in Clp, NEW id \in Ids
    PROVE  [originPort |-> AgentPort(p, id), outstanding |-> Outstanding(p, id),
            found |-> IF HERE \in NotBlocked(p, id)
                      THEN RangeRead(p, queries[id].box, queries[id].time) ELSE {}] \in Status
<1>1. AgentPort(p, id) \in Direction
  BY AgentPortIs DEF Types
<1>2. Outstanding(p, id) \subseteq Direction /\ NotBlocked(p, id) \subseteq Direction
  BY PortsAreDirections DEF Outstanding, NotBlocked, Ranged, Targets
<1>3. RangeRead(p, queries[id].box, queries[id].time) \in Found
  BY QueryFields, RangeReadIsFound DEF Types, HistoryTypes
<1> QED
  BY <1>1, <1>2, <1>3, FoundIsClosed DEF Status

LEMMA NewQueryTypes ==
    ASSUME Types, LinksAgree, NEW l \in Link, l[2] \in Clp, NEW i \in DOMAIN net[l],
           ProcessNewQuery(l[2], l, i)
    PROVE  Handled(fRangeRoutingTable', fRangeTracker', net', told', met')
<1> DEFINE p == l[2]
           id == net[l][i].id
           status == [originPort |-> AgentPort(p, id), outstanding |-> Outstanding(p, id),
                      found |-> IF HERE \in NotBlocked(p, id)
                                THEN RangeRead(p, queries[id].box, queries[id].time) ELSE {}]
           onward == [d \in NotBlocked(p, id) \ {HERE} |-> <<Query(id, {})>>]
           out == IF status.outstanding = {} THEN Reply(id, status) ELSE onward
<1>1. net[l] \in Seq(MessageOf(Ids)) /\ AreMessages(net, Ids)
  BY DEF Types, NetTypes, AreMessages
<1>2. net[l][i] \in MessageOf(Ids) /\ net[l][i].type = "query"
  BY <1>1 DEF ProcessNewQuery
<1>3. id \in Ids
  BY <1>2, MessageFields
<1>4. /\ fRangeTracker' = [fRangeTracker EXCEPT ![p] = Tracked(p, id, status)]
      /\ fRangeRoutingTable' = [fRangeRoutingTable EXCEPT ![p] = Noted(p, id)]
      /\ net' = Exchanged(l, i, out)
      /\ met' = met \cup (IF Crosses(p, id) THEN {"crossed"} ELSE {})
      /\ told' = told
  BY DEF ProcessNewQuery
<1> HIDE DEF id
<1>5. status \in Status
  BY <1>3, StatusOfNew
<1>6. MaySend(p, onward, Ids)
  <2>1. <<Query(id, {})>> \in Seq(MessageOf(Ids))
                /\ \A m \in ToSet(<<Query(id, {})>>) : m.type # "update"
    BY <1>3, FoundIsClosed, MessagesToSend
  <2> QED
    BY <2>1 DEF MaySend
<1> HIDE DEF status, onward
<1>7. MaySend(p, out, Ids)
  BY <1>3, <1>5, <1>6, ReplyMayBeSent
<1> HIDE DEF out
<1>8. AreMessages(net', Ids)
  BY <1>1, <1>4, <1>7, MessagesExchanged
<1>9. AreTables(fRangeRoutingTable', fGVT, Ids)
  BY <1>3, <1>4, NotedKeeps
<1>10. fRangeTracker' = [q \in Clp |-> fRangeTracker'[q]] /\ AreTrackers(fRangeTracker', Ids)
  BY <1>3, <1>4, <1>5, TrackedKeeps DEF Types
<1>11. met' \subseteq Weakness /\ told' \subseteq Ids
  BY <1>4 DEF Types, SeenTypes, Weakness
<1> QED
  BY <1>8, <1>9, <1>10, <1>11 DEF Handled

LEMMA ReplyTypes ==
    ASSUME Types, LinksAgree, NEW l \in Link, l[2] \in Clp, NEW i \in DOMAIN net[l],
           ProcessReply(l[2], l, i)
    PROVE  Handled(fRangeRoutingTable', fRangeTracker', net', told', met')
<1> DEFINE p == l[2]
           id == net[l][i].id
           status == Scanned(p, l, id, net[l][i].found)
<1>1. net[l] \in Seq(MessageOf(Ids)) /\ AreMessages(net, Ids)
  BY DEF Types, NetTypes, AreMessages
<1>2. net[l][i] \in MessageOf(Ids) /\ net[l][i].type = "query"
  BY <1>1 DEF ProcessReply
<1>3. id \in Ids /\ net[l][i].found \in Found
  BY <1>2, MessageFields
<1>4. /\ fRangeTracker' = [fRangeTracker EXCEPT ![p] = Tracked(p, id, status)]
      /\ fRangeRoutingTable' = fRangeRoutingTable /\ told' = told /\ met' = met
      /\ net' = Exchanged(l, i, Reply(id, status))
      /\ id \in DOMAIN fRangeTracker[p]
  BY DEF ProcessReply
<1>5. fRangeTracker[p][id] \in Status
  BY <1>4 DEF Types, TrackerTypes, AreTrackers
<1>6. status \in Status
  BY <1>3, <1>5, FoundIsClosed DEF Scanned, Status
<1> HIDE DEF id, status
<1>7. MaySend(p, Reply(id, status), Ids)
  BY <1>3, <1>6, ReplyMayBeSent
<1>8. AreMessages(net', Ids)
  BY <1>1, <1>4, <1>7, MessagesExchanged
<1>9. fRangeTracker' = [q \in Clp |-> fRangeTracker'[q]] /\ AreTrackers(fRangeTracker', Ids)
  BY <1>3, <1>4, <1>6, TrackedKeeps DEF Types
<1> QED
  BY <1>4, <1>8, <1>9 DEF Handled, Types, TableTypes, SeenTypes

LEMMA ForgottenKeeps ==
    ASSUME Types, LinksAgree, NEW p \in Clp, NEW id \in Ids
    PROVE  AreTables([fRangeRoutingTable EXCEPT ![p] = Forgotten(p, id)], fGVT, Ids)
<1> DEFINE row == Forgotten(p, id)
<1>1. AreTables(fRangeRoutingTable, fGVT, Ids)
  BY DEF Types, TableTypes
<1>2. queries[id].time \in Time
  BY QueryFields DEF Types
<1>3. row = [d \in Direction |-> row[d]]
  BY DEF Forgotten
<1>4. \A d \in Direction :
        \/ row[d] = fRangeRoutingTable[p][d]
        \/ row[d] = DeleteRangeQueryInfo(fRangeRoutingTable[p][d], queries[id].time, id)
  BY DEF Forgotten
<1> HIDE DEF row
<1>5. ASSUME NEW d \in Direction
      PROVE  row[d] \in Periods(Ids) /\ row[d][1].time <= fRangeRoutingTable[p][d][1].time
  <2>1. fRangeRoutingTable[p][d] \in Periods(Ids)
    BY <1>1 DEF AreTables
  <2>2. PICK list \in Periods(Ids) : list = fRangeRoutingTable[p][d]
    BY <2>1
  <2>3. list[1].time \in Nat
    BY PeriodsAre
  <2>4. Keeps(DeleteRangeQueryInfo(list, queries[id].time, id), list, Ids)
    BY <1>2, DeleteRangeQueryInfoKeeps
  <2>5. row[d] = list \/ row[d] = DeleteRangeQueryInfo(list, queries[id].time, id)
    BY <1>4, <2>2
  <2>6. row[d] \in Periods(Ids) /\ row[d][1].time <= list[1].time
    BY <2>3, <2>4, <2>5 DEF Keeps
  <2> QED
    BY <2>2, <2>6
<1>6. row \in [Direction -> Periods(Ids)]
  BY <1>3, <1>5
<1>7. AreTables([fRangeRoutingTable EXCEPT ![p] = row], fGVT, Ids)
  BY <1>1, <1>5, <1>6, RowReplaced
<1> QED
  BY <1>7 DEF row

LEMMA AntiTypes ==
    ASSUME Types, LinksAgree, NEW l \in Link, l[2] \in Clp, NEW i \in DOMAIN net[l],
           ProcessAntiMessage(l[2], l, i)
    PROVE  Handled(fRangeRoutingTable', fRangeTracker', net', told', met')
<1> DEFINE p == l[2]
           id == net[l][i].id
           late == fGVT[p] > queries[id].time
           m == <<[type |-> "anti", id |-> id]>>
           onward == [d \in Onward(p, id) \ {HERE} |-> m]
           out == IF late THEN <<>> ELSE onward
<1>1. net[l] \in Seq(MessageOf(Ids)) /\ AreMessages(net, Ids)
  BY DEF Types, NetTypes, AreMessages
<1>2. net[l][i] \in MessageOf(Ids) /\ net[l][i].type = "anti"
  BY <1>1 DEF ProcessAntiMessage
<1>3. id \in Ids
  BY <1>2, MessageFields
<1>4. /\ net' = Exchanged(l, i, out)
      /\ fRangeRoutingTable' = IF late THEN fRangeRoutingTable
                               ELSE [fRangeRoutingTable EXCEPT ![p] = Forgotten(p, id)]
      /\ met' = met \cup (IF ~late /\ Onward(p, id) # WentOnward(p, id) THEN {"misread"} ELSE {})
      /\ fRangeTracker' = fRangeTracker /\ told' = told
  BY DEF ProcessAntiMessage
<1> HIDE DEF id
<1>5. MaySend(p, onward, Ids)
  <2>1. m \in Seq(MessageOf(Ids)) /\ \A e \in ToSet(m) : e.type # "update"
    BY <1>3, MessagesToSend
  <2> HIDE DEF m
  <2> QED
    BY <2>1 DEF MaySend
<1> HIDE DEF onward
<1>6. MaySend(p, out, Ids)
  <2>1. DOMAIN <<>> = {}
    OBVIOUS
  <2> QED
    BY <1>5, <2>1 DEF MaySend
<1> HIDE DEF out
<1>7. AreMessages(net', Ids)
  BY <1>1, <1>4, <1>6, MessagesExchanged
<1>8. AreTables(fRangeRoutingTable', fGVT, Ids)
  BY <1>3, <1>4, ForgottenKeeps DEF Types, TableTypes
<1>9. met' \subseteq Weakness
  BY <1>4 DEF Types, SeenTypes, Weakness
<1> QED
  BY <1>4, <1>7, <1>8, <1>9 DEF Handled, Types, TrackerTypes, SeenTypes

LEMMA EntriesAreOfQueries ==
    ASSUME NEW ids, NEW list \in Periods(ids), NEW t \in Time
    PROVE  /\ \A i \in DOMAIN list : ToSet(list[i].info) \subseteq EntryOf(ids)
           /\ EntriesAt(list, t) \subseteq EntryOf(ids)
           /\ \A range : RolledByRange(list, t, range) \subseteq ids
           /\ \A old, new : RolledByValue(list, t, old, new) \subseteq ids
<1>1. ASSUME NEW i \in DOMAIN list PROVE ToSet(list[i].info) \subseteq EntryOf(ids)
  <2>1. list[i].info \in Seq(EntryOf(ids))
    BY PeriodsAre DEF Period
  <2> QED
    BY <2>1 DEF ToSet
<1>2. EntriesAt(list, t) \subseteq EntryOf(ids)
  BY <1>1, PeriodAtIs DEF EntriesAt, HasRangePeriod
<1>3. \A e \in EntryOf(ids) : e.id \in ids
  BY DEF EntryOf
<1> QED
  BY <1>1, <1>2, <1>3 DEF RolledByRange, RolledByValue

Announcement == [time: Time, range: AnyRange]

LEMMA UpdatesMayBeSent ==
    ASSUME NEW ids, NEW p, NEW updates \in Seq(Announcement), NEW source
    PROVE  MaySend(p, SendRangeUpdates(p, updates, source), ids)
<1> DEFINE m == [i \in DOMAIN updates |-> [type |-> "update", time |-> updates[i].time,
                                           range |-> updates[i].range]]
<1>1. \A i \in DOMAIN updates : updates[i].time \in Time /\ updates[i].range \in AnyRange
  <2>1. \A i \in DOMAIN updates : updates[i] \in Announcement
    OBVIOUS
  <2> QED
    BY <2>1 DEF Announcement
<1>2. \A i \in DOMAIN updates : m[i] \in MessageOf(ids)
  BY <1>1 DEF MessageOf
<1>3. m \in Seq(MessageOf(ids))
  <2>1. PICK n \in Nat : DOMAIN updates = 1..n
    OBVIOUS
  <2>2. DOMAIN m = 1..n /\ m = [i \in 1..n |-> m[i]]
    BY <2>1
  <2> HIDE DEF m
  <2> QED
    BY <1>2, <2>1, <2>2
<1> HIDE DEF m
<1>4. SendRangeUpdates(p, updates, source) = [d \in ClpPorts(p) \ {source} |-> m]
  BY DEF SendRangeUpdates, m
<1> QED
  BY <1>3, <1>4 DEF MaySend

LEMMA AnnouncedIs ==
    ASSUME NEW list, NEW t \in Time, NEW range \in AnyRange
    PROVE  Announced(list, t, range) \in Seq(Announcement)
<1>1. <<>> \in Seq(Announcement)
  OBVIOUS
<1>2. <<[time |-> t, range |-> range]>> \in Seq(Announcement)
  BY DEF Announcement
<1> QED
  BY <1>1, <1>2 DEF Announced

LEMMA UpdateTypes ==
    ASSUME Types, LinksAgree, NEW l \in Link, l[2] \in Clp, NEW i \in DOMAIN net[l],
           ProcessRangeUpdate(l[2], l, i)
    PROVE  Handled(fRangeRoutingTable', fRangeTracker', net', told', met')
<1> DEFINE p == l[2]
           m == net[l][i]
           source == GetDirectionFromRank(p, l[1])
           list == fRangeRoutingTable[p][source]
           updates == Announced(list, m.time, m.range)
           new == WithRange(list, m.time, m.range)
           lists == [fRangeRoutingTable[p] EXCEPT ![source] = new]
           seen == Flaws(p, lists, m.time, updates, source)
                      \cup (IF \E e \in EntriesAt(list, m.time) :
                                 e.blocked /\ Crossing(m.range, e.box) THEN {"crossed"} ELSE {})
                      \cup (IF m.time < fGVT[p] THEN {"passed"} ELSE {})
                      \cup (IF Last(list).time > m.time THEN {"skipped"} ELSE {})
<1>1. net[l] \in Seq(MessageOf(Ids)) /\ AreMessages(net, Ids)
  BY DEF Types, NetTypes, AreMessages
<1>2. m \in MessageOf(Ids) /\ m.type = "update"
  BY <1>1 DEF ProcessRangeUpdate
<1>3. m.time \in Time /\ m.range \in AnyRange
  BY <1>2, MessageFields
<1>4. /\ fRangeRoutingTable' = [fRangeRoutingTable EXCEPT ![p][source] = new]
      /\ told' = told \cup RolledByRange(list, m.time, m.range)
      /\ net' = Exchanged(l, i, SendRangeUpdates(p, updates, source))
      /\ fRangeTracker' = fRangeTracker
  <2>1. /\ fRangeRoutingTable' = [fRangeRoutingTable EXCEPT ![p] = lists]
        /\ told' = told \cup RolledByRange(list, m.time, m.range)
        /\ net' = Exchanged(l, i, SendRangeUpdates(p, updates, source))
        /\ fRangeTracker' = fRangeTracker
    BY DEF ProcessRangeUpdate
  <2> QED
    BY <2>1
<1>17. met' = met \cup seen
  BY Zenon DEF ProcessRangeUpdate
<1>5. source \in Direction
  BY LinkEnds
<1>6. AreTables(fRangeRoutingTable, fGVT, Ids)
  BY DEF Types, TableTypes
<1>7. list \in Periods(Ids)
  BY <1>5, <1>6 DEF AreTables
<1>8. updates \in Seq(Announcement)
  BY <1>3, AnnouncedIs
<1>9. Keeps(new, list, Ids)
  <2>1. m.range \in KnownRange
    BY <1>3 DEF KnownRange
  <2> HIDE DEF list
  <2> QED
    BY <1>3, <1>7, <2>1, WithRangeKeeps
<1>10. RolledByRange(list, m.time, m.range) \subseteq Ids
  <2> HIDE DEF list
  <2> QED
    BY <1>3, <1>7, EntriesAreOfQueries
<1>11. met' \subseteq Weakness
  <2>1. Flaws(p, lists, m.time, updates, source) \subseteq Weakness
    BY DEF Flaws, Weakness
  <2>2. seen \subseteq Weakness
    BY <2>1 DEF Weakness
  <2> HIDE DEF seen
  <2> QED
    BY <1>17, <2>2 DEF Types, SeenTypes
<1> HIDE DEF updates, new, source, m
<1>12. AreMessages(net', Ids)
  <2> DEFINE out == SendRangeUpdates(p, updates, source)
  <2>1. MaySend(p, out, Ids)
    BY <1>8, UpdatesMayBeSent
  <2> HIDE DEF out
  <2> QED
    BY <1>1, <1>4, <2>1, MessagesExchanged DEF out
<1>13. AreTables(fRangeRoutingTable', fGVT, Ids)
  <2>1. new \in Periods(Ids) /\ new[1].time <= fRangeRoutingTable[p][source][1].time
    BY <1>9 DEF Keeps
  <2>2. AreTables([fRangeRoutingTable EXCEPT ![p][source] = new], fGVT, Ids)
    BY <1>5, <1>6, <2>1, ListReplaced
  <2> QED
    BY <1>4, <2>2
<1> HIDE DEF list
<1>14. told' \subseteq Ids
  BY <1>4, <1>10 DEF Types, SeenTypes
<1> QED
  BY <1>4, <1>11, <1>12, <1>13, <1>14 DEF Handled, Types, TrackerTypes
-----------------------------------------------------------------------------
(***************************************************************************)
(* A write keeps the types.                                                *)
(***************************************************************************)
\* The places of the later periods are places of the list, counted from the first.
LEMMA LaterPlaces ==
    ASSUME NEW ids, NEW list \in Periods(ids), NEW t \in Time, NEW end
    PROVE  LET later == LaterPeriods(list, t, end)
           IN  /\ later \subseteq DOMAIN list
               /\ Cardinality(later) \in Nat
               /\ \A n \in 1..Cardinality(later) : Min(later) + n - 1 \in DOMAIN list
<1> DEFINE later == LaterPeriods(list, t, end)
<1>1. PICK m \in Nat : m = Len(list) /\ DOMAIN list = 1..m
  BY PeriodsAre
<1>2. PeriodAt(list, t) \in 0..m
  BY <1>1, PeriodAtIs
<1>3. later \subseteq 1..m
  BY <1>1, <1>2 DEF LaterPeriods
<1> HIDE DEF later
<1>4. IsFiniteSet(later) /\ Cardinality(later) \in Nat
  <2>1. PICK D : D = 1..m /\ IsFiniteSet(D)
    BY FS_Interval
  <2>2. later \subseteq D
    BY <1>3, <2>1
  <2>3. IsFiniteSet(later)
    BY <2>1, <2>2, FS_Subset
  <2> QED
    BY <2>3, FS_CardinalityType
<1>5. ASSUME NEW n \in 1..Cardinality(later) PROVE Min(later) + n - 1 \in 1..m
  <2>1. PICK c \in Nat : c = Cardinality(later)
    BY <1>4
  <2>2. c # 0 /\ n \in 1..c
    BY <2>1
  <2>3. later # {}
    BY <2>1, <2>2, FS_EmptySet
  <2>4. PICK k \in 1..m : k = Min(later) /\ \A x \in later : k <= x
    <3>1. later \in SUBSET Nat
      BY <1>3
    <3> QED
      BY <1>3, <2>3, <3>1, MinInSet
  <2>5. PICK D : D = k..m /\ IsFiniteSet(D) /\ Cardinality(D) = m - k + 1
    <3>1. k \in Int /\ m \in Int /\ ~(k > m)
      OBVIOUS
    <3> QED
      BY <3>1, FS_Interval
  <2>6. later \subseteq D
    BY <1>3, <2>4, <2>5
  <2>7. c <= m - k + 1
    <3>1. Cardinality(later) <= Cardinality(D)
      BY <2>5, <2>6, FS_Subset
    <3> QED
      BY <2>1, <2>5, <3>1
  <2>8. k + n - 1 \in 1..m
    BY <2>2, <2>7
  <2> QED
    BY <2>4, <2>8
<1> QED
  BY <1>1, <1>3, <1>4, <1>5 DEF later

\* Only ranges change.
LEMMA RangesChanged ==
    ASSUME NEW ids, NEW list \in Periods(ids), NEW later \in SUBSET DOMAIN list,
           NEW range, \A k \in DOMAIN list : range[k] \in AnyRange
    PROVE  LET new == [k \in DOMAIN list |->
                         IF k \in later THEN [list[k] EXCEPT !.range = range[k]]
                         ELSE list[k]]
           IN  new \in Periods(ids) /\ new[1].time <= list[1].time
<1> DEFINE new == [k \in DOMAIN list |->
                     IF k \in later THEN [list[k] EXCEPT !.range = range[k]]
                     ELSE list[k]]
<1>1. /\ list \in Seq(Period(ids)) /\ 1 \in DOMAIN list /\ list # <<>> /\ Earlier(list)
      /\ \A k \in DOMAIN list : list[k] \in Period(ids) /\ list[k].time \in Nat
  BY PeriodsAre DEF Periods
<1>2. PICK n \in Nat : DOMAIN list = 1..n
  BY <1>1
<1>3. ASSUME NEW k \in 1..n
      PROVE  new[k] \in Period(ids) /\ new[k].time = list[k].time
  <2>1. list[k] \in Period(ids) /\ range[k] \in KnownRange
    BY <1>1, <1>2 DEF KnownRange
  <2>2. /\ [list[k] EXCEPT !.range = range[k]] \in Period(ids)
        /\ [list[k] EXCEPT !.range = range[k]].time = list[k].time
    BY <2>1, PeriodWithRange
  <2> QED
    BY <1>2, <2>1, <2>2
<1>4. DOMAIN new = 1..n /\ new = [k \in 1..n |-> new[k]]
  BY <1>2
<1> HIDE DEF new
<1>5. new \in Seq(Period(ids)) /\ new # <<>>
  BY <1>1, <1>2, <1>3, <1>4
<1>6. Earlier(new)
  BY <1>1, <1>2, <1>3, <1>4 DEF Earlier
<1>7. new[1].time <= list[1].time
  BY <1>1, <1>2, <1>3
<1> QED
  BY <1>5, <1>6, <1>7 DEF Periods, new

LEMMA ConcatOfSeqs ==
    ASSUME NEW S, NEW s \in Seq(S), NEW n \in Nat, NEW t, t = [i \in 1..n |-> t[i]],
           \A i \in 1..n : t[i] \in S
    PROVE  s \o t \in Seq(S)
<1>1. t \in Seq(S)
  OBVIOUS
<1> QED
  BY <1>1

\* All that a write sends is range updates.
SendsUpdates ==
    \E p \in Clp, updates \in Seq(Announcement) :
      /\ net' = Sent(p, SendRangeUpdates(p, updates, HERE))
      /\ UNCHANGED <<fGVT, fRangeTracker, queries>>

LEMMA UpdateKeepsTypes ==
    ASSUME Types, LinksAgree, NEW v \in Ssv, NEW t \in Time, NEW history,
           AreHistories([positions EXCEPT ![v] = history]), Update(v, t, history)
    PROVE  Types' /\ SendsUpdates
<1> DEFINE p == home[v]
           old == ReadWithoutRecord(positions[v], t)
           new == ReadWithoutRecord(history, t)
           end == EndTime(positions[v], t)
           now == [positions EXCEPT ![v] = history]
           RangeFrom(s) == RecalculateRange(home, now, p, s)
           list == fRangeRoutingTable[p][HERE]
           this == WithRange(list, t, RangeFrom(t))
           later == IF HasRangePeriod(list, t) THEN LaterPeriods(this, t, end) ELSE {}
           first == Announced(list, t, RangeFrom(t))
           more == [n \in 1..Cardinality(later) |->
                      [time |-> t, range |-> RangeFrom(this[Min(later) + n - 1].time)]]
           updates == first \o more
           moved == [k \in DOMAIN this |->
                       IF k \in later THEN [this[k] EXCEPT !.range = RangeFrom(this[k].time)]
                       ELSE this[k]]
           rolledLater == {e.id : e \in {f \in UNION {ToSet(this[k].info) : k \in later} :
                                           MovesIn(f, old, new)}}
           lists == [fRangeRoutingTable[p] EXCEPT ![HERE] = moved]
           seen == Flaws(p, lists, t, updates, HERE)
                      \cup (IF \E k \in DOMAIN list : t < list[k].time /\ list[k].time < end
                            THEN {"skipped"} ELSE {})
                      \cup (IF \E s \in UNION {DOMAIN now[w] : w \in Ssv} :
                                  /\ t < s /\ PeriodAt(this, s) = PeriodAt(this, t)
                                  /\ RangeFrom(s) # RangeFrom(t)
                            THEN {"overrun"} ELSE {})
<1>1. /\ positions' = now
      /\ fRangeRoutingTable' = [fRangeRoutingTable EXCEPT ![p][HERE] = moved]
      /\ told' = told \cup RolledByValue(list, t, old, new) \cup rolledLater
      /\ net' = Sent(p, SendRangeUpdates(p, updates, HERE))
      /\ writes' = writes + 1
      /\ UNCHANGED <<home, fGVT, fRangeTracker, queries, answers, retracted>>
  <2>1. fRangeRoutingTable' = [fRangeRoutingTable EXCEPT ![p] = lists]
    BY DEF Update
  <2>2. fRangeRoutingTable' = [fRangeRoutingTable EXCEPT ![p][HERE] = moved]
    BY <2>1
  <2> QED
    BY <2>2 DEF Update
<1>2. met' = met \cup seen
  BY Zenon DEF Update
<1>3. seen \subseteq Weakness
  <2>1. Flaws(p, lists, t, updates, HERE) \subseteq Weakness
    BY DEF Flaws, Weakness
  <2> QED
    BY <2>1 DEF Weakness
<1> HIDE DEF seen, updates, moved, rolledLater, now
<1>4. p \in Clp
  BY ConstantsAssumption DEF Types, HistoryTypes
<1>5. AreHistories(now)
  BY DEF now
<1>6. \A s \in Time : RangeFrom(s) \in AnyRange
  BY <1>5, RecalculatedIsRange
<1>7. AreTables(fRangeRoutingTable, fGVT, Ids) /\ AreMessages(net, Ids)
  BY DEF Types, TableTypes, NetTypes
<1>8. list \in Periods(Ids)
  BY <1>4, <1>7, PortsAreDirections DEF AreTables
<1> HIDE DEF RangeFrom, list
<1>9. Keeps(this, list, Ids)
  <2>1. RangeFrom(t) \in KnownRange
    BY <1>6 DEF KnownRange
  <2> QED
    BY <1>8, <2>1, WithRangeKeeps
<1> HIDE DEF this
<1>10. this \in Periods(Ids) /\ this[1].time <= list[1].time
  BY <1>9 DEF Keeps
<1>11. \A k \in DOMAIN this : this[k].time \in Time
  BY <1>10, PeriodsAre
<1>12. /\ later \in SUBSET DOMAIN this
       /\ Cardinality(later) \in Nat
       /\ \A n \in 1..Cardinality(later) : Min(later) + n - 1 \in DOMAIN this
  <2>1. CASE HasRangePeriod(list, t)
    <3> HIDE DEF end
    <3>1. later = LaterPeriods(this, t, end)
      BY <2>1
    <3> HIDE DEF later
    <3> QED
      BY <1>10, <3>1, LaterPlaces
  <2>2. CASE ~HasRangePeriod(list, t)
    <3>1. later = {} /\ Cardinality(later) = 0
      BY <2>2, FS_EmptySet
    <3> HIDE DEF later
    <3> QED
      BY <3>1
  <2> QED
    BY <2>1, <2>2
<1> HIDE DEF later
<1>13. moved \in Periods(Ids) /\ moved[1].time <= this[1].time
  <2>1. \A k \in DOMAIN this : RangeFrom(this[k].time) \in AnyRange
    BY <1>6, <1>11
  <2> DEFINE range == [k \in DOMAIN this |-> RangeFrom(this[k].time)]
             new2 == [k \in DOMAIN this |->
                        IF k \in later THEN [this[k] EXCEPT !.range = range[k]] ELSE this[k]]
  <2>2. \A k \in DOMAIN this : range[k] \in AnyRange
    BY <2>1
  <2>3. moved = new2
    BY DEF moved
  <2> HIDE DEF range
  <2>4. new2 \in Periods(Ids) /\ new2[1].time <= this[1].time
    BY <1>10, <1>12, <2>2, RangesChanged
  <2> QED
    BY <2>3, <2>4
<1>14. AreTables(fRangeRoutingTable', fGVT, Ids)
  <2>1. moved[1].time \in Nat /\ this[1].time \in Nat /\ list[1].time \in Nat
    BY <1>8, <1>10, <1>13, PeriodsAre
  <2>2. moved[1].time <= fRangeRoutingTable[p][HERE][1].time
    BY <1>10, <1>13, <2>1 DEF list
  <2>3. AreTables([fRangeRoutingTable EXCEPT ![p][HERE] = moved], fGVT, Ids)
    BY <1>4, <1>7, <1>13, <2>2, PortsAreDirections, ListReplaced
  <2> QED
    BY <1>1, <2>3
<1>15. updates \in Seq(Announcement)
  <2>1. first \in Seq(Announcement)
    BY <1>6, AnnouncedIs
  <2>2. \A n \in 1..Cardinality(later) : more[n] \in Announcement
    <3>1. \A n \in 1..Cardinality(later) : RangeFrom(this[Min(later) + n - 1].time) \in AnyRange
      BY <1>6, <1>11, <1>12
    <3> QED
      BY <3>1 DEF Announcement
  <2>3. more = [n \in 1..Cardinality(later) |-> more[n]]
    OBVIOUS
  <2> HIDE DEF first, more
  <2>4. first \o more \in Seq(Announcement)
    BY <1>12, <2>1, <2>2, <2>3, ConcatOfSeqs
  <2> QED
    BY <2>4 DEF updates
<1>16. AreMessages(net', Ids)
  <2> DEFINE out == SendRangeUpdates(p, updates, HERE)
  <2>1. MaySend(p, out, Ids)
    BY <1>15, UpdatesMayBeSent
  <2> HIDE DEF out
  <2> QED
    BY <1>1, <1>7, <2>1, MessagesSent DEF out
<1>17. told' \subseteq Ids
  <2>1. RolledByValue(list, t, old, new) \subseteq Ids
    BY <1>8, EntriesAreOfQueries
  <2>2. \A k \in later : ToSet(this[k].info) \subseteq EntryOf(Ids)
    BY <1>10, <1>12, EntriesAreOfQueries
  <2>3. \A e \in EntryOf(Ids) : e.id \in Ids
    BY DEF EntryOf
  <2>4. rolledLater \subseteq Ids
    <3> HIDE DEF old, new
    <3> QED
      BY <2>2, <2>3 DEF rolledLater
  <2> QED
    BY <1>1, <2>1, <2>4 DEF Types, SeenTypes
<1>18. HistoryTypes'
  <2>1. now = [w \in Ssv |-> now[w]]
    BY DEF now, Types, HistoryTypes
  <2>2. positions' = [w \in Ssv |-> positions'[w]] /\ AreHistories(positions')
    BY <1>1, <1>5, <2>1
  <2> QED
    BY <1>1, <2>2 DEF Types, HistoryTypes
<1>19. Ids' = Ids
  BY <1>1 DEF Ids
<1>20. TableTypes' /\ NetTypes' /\ TrackerTypes' /\ AreQueries(queries')
  BY <1>1, <1>14, <1>16, <1>19 DEF Types, TableTypes, NetTypes, TrackerTypes
<1>21. SeenTypes'
  BY <1>1, <1>2, <1>3, <1>17, <1>19 DEF Types, SeenTypes
<1>22. SendsUpdates
  BY <1>1, <1>4, <1>15 DEF SendsUpdates
<1> QED
  BY <1>18, <1>20, <1>21, <1>22 DEF Types

LEMMA WriteTypes ==
    ASSUME Types, LinksAgree, NEW v \in Ssv, NEW t \in WriteTime,
           \/ \E q \in Position[v] : WriteWithRollback(v, t, q)
           \/ RollbackWrite(v, t)
    PROVE  Types' /\ SendsUpdates
<1>1. AreHistories(positions) /\ positions = [w \in Ssv |-> positions[w]]
  BY DEF Types, HistoryTypes
<1>2. t \in Time
  BY DEF Time
<1>3. ASSUME NEW history, 0 \in DOMAIN history, DOMAIN history \subseteq Time,
             \A s \in DOMAIN history : history[s] \in PointsOf(v)
      PROVE  AreHistories([positions EXCEPT ![v] = history])
  BY <1>1, <1>3 DEF AreHistories
<1>4. ASSUME NEW q \in Position[v], WriteWithRollback(v, t, q) PROVE Types' /\ SendsUpdates
  <2> DEFINE history == [s \in DOMAIN positions[v] \cup {t} |->
                           IF s = t THEN q ELSE positions[v][s]]
  <2>1. Update(v, t, history)
    BY <1>4 DEF WriteWithRollback
  <2>2. /\ 0 \in DOMAIN history /\ DOMAIN history \subseteq Time
        /\ \A s \in DOMAIN history : history[s] \in PointsOf(v)
    BY <1>1, <1>2 DEF AreHistories, PointsOf
  <2> HIDE DEF history
  <2> QED
    BY <1>2, <1>3, <2>1, <2>2, UpdateKeepsTypes
<1>5. ASSUME RollbackWrite(v, t) PROVE Types' /\ SendsUpdates
  <2> DEFINE history == [s \in DOMAIN positions[v] \ {t} |-> positions[v][s]]
  <2>1. Update(v, t, history) /\ t # 0
    BY <1>5 DEF RollbackWrite
  <2>2. /\ 0 \in DOMAIN history /\ DOMAIN history \subseteq Time
        /\ \A s \in DOMAIN history : history[s] \in PointsOf(v)
    BY <1>1, <2>1 DEF AreHistories
  <2> HIDE DEF history
  <2> QED
    BY <1>2, <1>3, <2>1, <2>2, UpdateKeepsTypes
<1> QED
  BY <1>4, <1>5

-----------------------------------------------------------------------------
(***************************************************************************)
(* What the ALPs do, and the GVT, keep the types.                          *)
(***************************************************************************)
LEMMA MoreIds ==
    ASSUME NEW ids, NEW jds, ids \subseteq jds
    PROVE  Periods(ids) \subseteq Periods(jds) /\ MessageOf(ids) \subseteq MessageOf(jds)
<1>1. EntryOf(ids) \subseteq EntryOf(jds)
  BY DEF EntryOf
<1>2. Seq(EntryOf(ids)) \subseteq Seq(EntryOf(jds))
  BY <1>1
<1>3. Period(ids) \subseteq Period(jds)
  BY <1>2 DEF Period
<1>4. Seq(Period(ids)) \subseteq Seq(Period(jds))
  BY <1>3
<1>5. Periods(ids) \subseteq Periods(jds)
  BY <1>4 DEF Periods
<1> QED
  BY <1>5 DEF MessageOf

LEMMA AgentSends ==
    ASSUME LinksAgree, NEW ids, AreMessages(net, ids), NEW a \in Alps,
           NEW queue \in Seq(MessageOf(ids))
    PROVE  AreMessages([net EXCEPT ![<<a, AlpParent[a]>>] = queue], ids)
<1> DEFINE k == <<a, AlpParent[a]>>
           new == [net EXCEPT ![k] = queue]
<1>1. k \in Link /\ AlpParent[a] \in Clp
  BY AgentLink
<1>2. net \in [Link -> Seq(MessageOf(ids))]
  BY DEF AreMessages
<1>3. new \in [Link -> Seq(MessageOf(ids))]
  BY <1>1, <1>2
<1>4. ASSUME NEW b \in Alps PROVE new[<<AlpParent[b], b>>] = net[<<AlpParent[b], b>>]
  <2>1. <<AlpParent[b], b>> \in Link /\ AlpParent[b] \in Clp
    BY AgentLink
  <2>2. <<AlpParent[b], b>> # k
    BY <2>1, ClpOrAlp
  <2> QED
    BY <1>2, <2>1, <2>2
<1> HIDE DEF new
<1>5. \A b \in Alps : \A m \in ToSet(new[<<AlpParent[b], b>>]) : m.type # "update"
  BY <1>4 DEF AreMessages
<1>6. AreMessages(new, ids)
  BY <1>3, <1>5 DEF AreMessages
<1> QED
  BY <1>6 DEF new

LEMMA RangeQueryTypes ==
    ASSUME Types, LinksAgree, NEW a \in Alps, NEW t \in QueryTime, NEW box \in Box,
           RangeQuery(a, t, box)
    PROVE  Types'
<1> DEFINE q == [agent |-> a, time |-> t, box |-> box]
           m == Query(Len(queries) + 1, {})
           k == <<a, AlpParent[a]>>
<1>1. /\ queries' = Append(queries, q)
      /\ net' = [net EXCEPT ![k] = Append(@, m)]
      /\ Len(queries) < MaxQueries
      /\ UNCHANGED <<home, positions, fGVT, fRangeRoutingTable, fRangeTracker, answers,
                     retracted, told, writes, met>>
  BY DEF RangeQuery
<1>2. queries \in Seq(RangeQueryOf) /\ Len(queries) \in Nat /\ MaxQueries \in Nat
  BY ConstantsAssumption DEF Types, AreQueries
<1>3. q \in RangeQueryOf
  BY DEF RangeQueryOf, Time
<1> HIDE DEF q
<1>4. AreQueries(queries') /\ Ids' = 1..(Len(queries) + 1) /\ Ids = 1..Len(queries)
  BY <1>1, <1>2, <1>3 DEF AreQueries, Ids
<1>5. PICK jds : jds = Ids'
  OBVIOUS
<1>6. Ids \subseteq jds /\ Len(queries) + 1 \in jds
  BY <1>2, <1>4, <1>5
<1>7. Periods(Ids) \subseteq Periods(jds) /\ MessageOf(Ids) \subseteq MessageOf(jds)
  BY <1>6, MoreIds
<1>8. m \in MessageOf(jds)
  BY <1>6, MessagesToSend, FoundIsClosed
<1> HIDE DEF m
<1>9. AreMessages(net, jds)
  <2>1. Seq(MessageOf(Ids)) \subseteq Seq(MessageOf(jds))
    BY <1>7
  <2> QED
    BY <2>1 DEF Types, NetTypes, AreMessages
<1>10. AreMessages(net', jds)
  <2>1. k \in Link
    BY AgentLink
  <2>2. net \in [Link -> Seq(MessageOf(jds))]
    BY <1>9 DEF AreMessages
  <2>3. Append(net[k], m) \in Seq(MessageOf(jds))
    BY <1>8, <2>1, <2>2
  <2> DEFINE queue == Append(net[k], m)
  <2>4. net' = [net EXCEPT ![k] = queue]
    BY <1>1
  <2> HIDE DEF queue
  <2>5. AreMessages([net EXCEPT ![<<a, AlpParent[a]>>] = queue], jds)
    BY <1>9, <2>3, AgentSends DEF queue
  <2> QED
    BY <2>4, <2>5
<1>11. AreTables(fRangeRoutingTable, fGVT, jds)
  BY <1>7 DEF Types, TableTypes, AreTables
<1>12. AreTrackers(fRangeTracker, jds)
  BY <1>6 DEF Types, TrackerTypes, AreTrackers
<1>13. TableTypes' /\ TrackerTypes' /\ NetTypes'
  BY <1>1, <1>5, <1>10, <1>11, <1>12 DEF Types, TableTypes, TrackerTypes, NetTypes
<1>14. HistoryTypes' /\ SeenTypes'
  BY <1>1, <1>5, <1>6 DEF Types, HistoryTypes, SeenTypes
<1> QED
  BY <1>4, <1>13, <1>14 DEF Types

LEMMA ReceiveAnswerTypes ==
    ASSUME Types, LinksAgree, NEW a \in Alps, ReceiveAnswer(a)
    PROVE  Types'
<1> DEFINE l == <<AlpParent[a], a>>
           m == Head(net[l])
<1>1. /\ net[l] # <<>>
      /\ net' = [net EXCEPT ![l] = Tail(@)]
      /\ DOMAIN answers' \subseteq DOMAIN answers \cup {m.id}
      /\ UNCHANGED <<home, positions, fGVT, fRangeRoutingTable, fRangeTracker, queries,
                     retracted, told, writes, met>>
  BY DEF ReceiveAnswer
<1>2. l \in Link /\ AreMessages(net, Ids)
  BY AgentLink DEF Types, NetTypes
<1>3. net \in [Link -> Seq(MessageOf(Ids))]
  BY <1>2 DEF AreMessages
<1>4. PICK s \in Seq(MessageOf(Ids)) : s = net[l]
  BY <1>2, <1>3
<1>5. s # <<>> /\ Head(s) \in MessageOf(Ids) /\ Tail(s) \in Seq(MessageOf(Ids))
  BY <1>1, <1>4
<1>6. Head(s) \in ToSet(s) /\ ToSet(Tail(s)) \subseteq ToSet(s)
  BY <1>5, ToSetOfTail
<1>7. Head(s).type # "update"
  BY <1>2, <1>4, <1>6 DEF AreMessages
<1>8. m.id \in Ids
  BY <1>4, <1>5, <1>7, MessageFields
<1>9. net' = [net EXCEPT ![l] = Tail(s)]
  BY <1>1, <1>4
<1>10. net' \in [Link -> Seq(MessageOf(Ids))]
  BY <1>3, <1>5, <1>9
<1>11. \A b \in Alps : \A e \in ToSet(net'[<<AlpParent[b], b>>]) : e.type # "update"
  <2> SUFFICES ASSUME NEW b \in Alps, NEW e \in ToSet(net'[<<AlpParent[b], b>>])
               PROVE  e.type # "update"
    OBVIOUS
  <2>1. <<AlpParent[b], b>> \in Link
    BY AgentLink
  <2>2. e \in ToSet(net[<<AlpParent[b], b>>])
    BY <1>3, <1>4, <1>6, <1>9, <2>1
  <2> QED
    BY <1>2, <2>2 DEF AreMessages
<1>12. Ids' = Ids
  BY <1>1 DEF Ids
<1>13. NetTypes'
  BY <1>10, <1>11, <1>12 DEF NetTypes, AreMessages
<1>14. SeenTypes'
  BY <1>1, <1>8, <1>12 DEF Types, SeenTypes
<1> QED
  BY <1>1, <1>12, <1>13, <1>14 DEF Types, HistoryTypes, TableTypes, TrackerTypes

LEMMA RollbackSends ==
    ASSUME Types, NEW a \in Alps, NEW t \in QueryTime, ProcessRollback(a, t)
    PROVE  \E anti \in Seq(MessageOf(Ids)) :
             /\ \A m \in ToSet(anti) : m.type = "anti"
             /\ net' = [net EXCEPT ![<<a, AlpParent[a]>>] = @ \o anti]
<1> DEFINE undone == {id \in QueriesOf(a) \ retracted : queries[id].time >= t}
           k == <<a, AlpParent[a]>>
<1>1. PICK ids \in InOrder(undone) :
        net' = [net EXCEPT ![k] = @ \o [n \in DOMAIN ids |-> [type |-> "anti", id |-> ids[n]]]]
  BY DEF ProcessRollback
<1>2. undone \subseteq Ids
  BY DEF QueriesOf, Ids
<1> HIDE DEF undone
<1>3. PICK n \in Nat : Ids = 1..n
  BY DEF Types, AreQueries, Ids
<1>4. PICK c \in Nat : ids \in [1..c -> undone]
  BY <1>2, <1>3, OrderOfPlaces
<1> DEFINE anti == [i \in DOMAIN ids |-> [type |-> "anti", id |-> ids[i]]]
<1>5. \A i \in 1..c : anti[i] \in MessageOf(Ids) /\ anti[i].type = "anti"
  <2>1. \A i \in 1..c : ids[i] \in Ids
    BY <1>2, <1>4
  <2> QED
    BY <1>4, <2>1 DEF MessageOf
<1>6. anti = [i \in 1..c |-> anti[i]]
  BY <1>4
<1>7. net' = [net EXCEPT ![k] = @ \o anti]
  BY <1>1
<1> HIDE DEF anti
<1>8. anti \in Seq(MessageOf(Ids)) /\ DOMAIN anti = 1..c
  BY <1>5, <1>6
<1> QED
  BY <1>5, <1>7, <1>8 DEF ToSet

LEMMA ProcessRollbackTypes ==
    ASSUME Types, LinksAgree, NEW a \in Alps, NEW t \in QueryTime, ProcessRollback(a, t)
    PROVE  Types'
<1> DEFINE k == <<a, AlpParent[a]>>
<1>1. PICK anti \in Seq(MessageOf(Ids)) : net' = [net EXCEPT ![k] = @ \o anti]
  BY RollbackSends
<1>2. /\ retracted' \subseteq Ids
      /\ UNCHANGED <<home, positions, fGVT, fRangeRoutingTable, fRangeTracker,
                     queries, answers, told, writes, met>>
  BY DEF ProcessRollback, QueriesOf, Ids, Types, SeenTypes
<1>3. AreMessages(net, Ids) /\ k \in Link
  BY AgentLink DEF Types, NetTypes
<1>4. net \in [Link -> Seq(MessageOf(Ids))]
  BY <1>3 DEF AreMessages
<1> DEFINE queue == net[k] \o anti
<1>5. queue \in Seq(MessageOf(Ids))
  <2> HIDE DEF k
  <2> QED
    BY <1>3, <1>4
<1>6. net' = [net EXCEPT ![k] = queue]
  BY <1>1
<1> HIDE DEF queue
<1>7. AreMessages([net EXCEPT ![<<a, AlpParent[a]>>] = queue], Ids)
  BY <1>3, <1>5, AgentSends
<1>8. Ids' = Ids
  BY <1>2 DEF Ids
<1>9. NetTypes'
  BY <1>6, <1>7, <1>8 DEF NetTypes
<1>10. SeenTypes'
  BY <1>2, <1>8 DEF Types, SeenTypes
<1> QED
  BY <1>2, <1>8, <1>9, <1>10 DEF Types, HistoryTypes, TableTypes, TrackerTypes

LEMMA SetGvtTypes ==
    ASSUME Types, LinksAgree, NEW p \in Clp, NEW t \in GvtTime, SetGvt(p, t)
    PROVE  Types'
<1> DEFINE row == [d \in Direction |-> ClearRangePeriods(fRangeRoutingTable[p][d], t)]
<1>1. /\ t > fGVT[p] /\ fGVT' = [fGVT EXCEPT ![p] = t]
      /\ fRangeRoutingTable' = [fRangeRoutingTable EXCEPT ![p] = row]
      /\ UNCHANGED <<home, positions, fRangeTracker, net, queries, answers, retracted, told,
                     writes, met>>
  BY DEF SetGvt
<1>2. t \in Time /\ t \in Nat
  BY TimesAreNumbers DEF Time
<1>3. AreTables(fRangeRoutingTable, fGVT, Ids)
  BY DEF Types, TableTypes
<1>4. /\ fGVT \in [Clp -> Time] /\ fRangeRoutingTable \in [Clp -> [Direction -> Periods(Ids)]]
      /\ \A q \in Clp, d \in Direction : fRangeRoutingTable[q][d][1].time <= fGVT[q]
  BY <1>3 DEF AreTables
<1>5. ASSUME NEW d \in Direction
      PROVE  row[d] \in Periods(Ids) /\ row[d][1].time = t
  <2>1. PICK list \in Periods(Ids) : list = fRangeRoutingTable[p][d]
    BY <1>4
  <2>2. list[1].time \in Nat
    BY PeriodsAre
  <2>3. fGVT[p] \in Nat
    BY <1>4, TimesAreNumbers
  <2>4. list[1].time <= fGVT[p] /\ fGVT[p] < t
    BY <1>1, <1>2, <1>4, <2>1, <2>3
  <2>5. list[1].time <= t
    BY <1>2, <2>2, <2>3, <2>4
  <2>6. ClearRangePeriods(list, t) \in Periods(Ids) /\ ClearRangePeriods(list, t)[1].time = t
    BY <1>2, <2>5, ClearRangePeriodsKeeps
  <2> QED
    BY <2>1, <2>6
<1>6. row \in [Direction -> Periods(Ids)]
  BY <1>5
<1> HIDE DEF row
<1>7. Ids' = Ids
  BY <1>1 DEF Ids
<1>8. fGVT' \in [Clp -> Time] /\ fRangeRoutingTable' \in [Clp -> [Direction -> Periods(Ids)]]
  BY <1>1, <1>2, <1>4, <1>6
<1>9. ASSUME NEW q \in Clp, NEW d \in Direction
      PROVE  fRangeRoutingTable'[q][d][1].time <= fGVT'[q]
  <2>1. CASE q = p
    <3>1. fRangeRoutingTable'[q] = row /\ fGVT'[q] = t
      BY <1>1, <1>4, <2>1
    <3>2. row[d][1].time <= t
      BY <1>2, <1>5
    <3> QED
      BY <3>1, <3>2
  <2>2. CASE q # p
    BY <1>1, <1>4, <2>2
  <2> QED
    BY <2>1, <2>2
<1>10. TableTypes'
  BY <1>7, <1>8, <1>9 DEF TableTypes, AreTables
<1> QED
  BY <1>1, <1>7, <1>10 DEF Types, HistoryTypes, TrackerTypes, NetTypes, SeenTypes

LEMMA ReceiveTypes ==
    ASSUME Types, LinksAgree, NEW p \in Clp, Receive(p)
    PROVE  Types'
<1>0. PICK l \in Link : /\ l[2] = p
                       /\ \E i \in Receivable(net[l]) :
                            \/ ProcessNewQuery(p, l, i) \/ ProcessReply(p, l, i)
                            \/ ProcessAntiMessage(p, l, i) \/ ProcessRangeUpdate(p, l, i)
  BY DEF Receive
<1>1. PICK i \in Receivable(net[l]) :
        \/ ProcessNewQuery(p, l, i) \/ ProcessReply(p, l, i)
        \/ ProcessAntiMessage(p, l, i) \/ ProcessRangeUpdate(p, l, i)
  BY <1>0
<1>2. UNCHANGED <<home, positions, fGVT, queries, answers, retracted, writes>>
  BY DEF Receive
<1>3. i \in DOMAIN net[l]
  <2>1. net[l] \in Seq(MessageOf(Ids))
    BY DEF Types, NetTypes, AreMessages
  <2> QED
    BY <2>1, ReceivableIsThere
<1>4. Handled(fRangeRoutingTable', fRangeTracker', net', told', met')
  <2>1. CASE ProcessNewQuery(p, l, i)
    BY <1>0, <1>3, <2>1, NewQueryTypes
  <2>2. CASE ProcessReply(p, l, i)
    BY <1>0, <1>3, <2>2, ReplyTypes
  <2>3. CASE ProcessAntiMessage(p, l, i)
    BY <1>0, <1>3, <2>3, AntiTypes
  <2>4. CASE ProcessRangeUpdate(p, l, i)
    BY <1>0, <1>3, <2>4, UpdateTypes
  <2> QED
    BY <1>1, <2>1, <2>2, <2>3, <2>4
<1>5. Ids' = Ids
  BY <1>2 DEF Ids
<1>6. TableTypes' /\ TrackerTypes' /\ NetTypes'
  BY <1>2, <1>4, <1>5 DEF Handled, TableTypes, TrackerTypes, NetTypes
<1>7. SeenTypes'
  BY <1>2, <1>4, <1>5 DEF Handled, Types, SeenTypes
<1> QED
  BY <1>2, <1>6, <1>7 DEF Types, HistoryTypes
-----------------------------------------------------------------------------
(***************************************************************************)
(* Type correctness.                                                       *)
(***************************************************************************)
LEMMA StartTypes ==
    ASSUME LinksAgree, Init
    PROVE  Types
<1> DEFINE before(p) == [time |-> 0, info |-> <<>>, range |-> Corrected(p).range]
<1>1. /\ home \in Placements /\ positions = [v \in Ssv |-> [t \in {0} |-> InitialPosition[v]]]
      /\ fGVT = [p \in Clp |-> 0] /\ fRangeTracker = [p \in Clp |-> <<>>]
      /\ fRangeRoutingTable =
           [p \in Clp |-> [StartTable(home)[p] EXCEPT ![HERE] = <<before(p)>>]]
      /\ queries = <<>> /\ answers = <<>> /\ retracted = {} /\ told = {} /\ writes = 0
  BY DEF Init
<1>2. met \subseteq Weakness
  BY DEF Init, Weakness
<1>3. 0 \in Time
  BY TimesAreNumbers
<1>4. Ids = {} /\ DOMAIN answers = {} /\ Len(queries) = 0 /\ queries \in Seq(RangeQueryOf)
  BY <1>1 DEF Ids
<1>5. AreHistories(positions)
  <2>1. \A v \in Ssv : /\ DOMAIN positions[v] = {0} /\ positions[v][0] = InitialPosition[v]
    BY <1>1
  <2> QED
    BY <1>3, <2>1 DEF AreHistories, PointsOf
<1>6. HistoryTypes
  BY <1>1, <1>5 DEF HistoryTypes
<1>7. \A p \in Clp : Corrected(p).time = 0 /\ Corrected(p).range \in AnyRange
  BY <1>3, <1>5, RecalculatedIsRange DEF Corrected
<1>8. \A this \in Period(Ids) : /\ <<this>> \in Periods(Ids)
                                /\ <<this>>[1].time = this.time
  BY DEF Periods, Earlier
<1>9. ASSUME NEW p \in Clp, NEW d \in Direction
      PROVE  /\ fRangeRoutingTable[p][d] \in Periods(Ids)
             /\ fRangeRoutingTable[p][d][1].time = 0
  <2>1. <<>> \in Seq(EntryOf(Ids))
    OBVIOUS
  <2>2. CASE d = HERE
    <3>1. before(p) \in Period(Ids) /\ before(p).time = 0
      BY <1>3, <1>7, <2>1 DEF Period, KnownRange
    <3>2. fRangeRoutingTable[p][d] = <<before(p)>>
      BY <1>1, <2>2 DEF StartTable
    <3> HIDE DEF before
    <3> QED
      BY <1>8, <3>1, <3>2
  <2>3. CASE d # HERE
    <3> DEFINE this == [time |-> 0, info |-> <<>>, range |-> PortRange(p, d, home)]
    <3>1. this \in Period(Ids) /\ this.time = 0
      BY <1>1, <1>3, <2>1 DEF Period, KnownRange
    <3>2. fRangeRoutingTable[p][d] = <<this>>
      BY <1>1, <2>3 DEF StartTable
    <3> HIDE DEF this
    <3> QED
      BY <1>8, <3>1, <3>2
  <2> QED
    BY <2>2, <2>3
<1>10. fRangeRoutingTable = [p \in Clp |-> [d \in Direction |-> fRangeRoutingTable[p][d]]]
  BY <1>1 DEF StartTable
<1>11. fRangeRoutingTable \in [Clp -> [Direction -> Periods(Ids)]]
  BY <1>9, <1>10
<1>12. TableTypes
  <2>1. fGVT \in [Clp -> Time] /\ \A p \in Clp : fGVT[p] = 0
    BY <1>1, <1>3
  <2>2. \A p \in Clp, d \in Direction : fRangeRoutingTable[p][d][1].time <= fGVT[p]
    BY <1>9, <2>1
  <2> QED
    BY <1>11, <2>1, <2>2 DEF TableTypes, AreTables
<1>13. TrackerTypes
  <2>1. DOMAIN <<>> = {}
    OBVIOUS
  <2> QED
    BY <1>1, <2>1 DEF TrackerTypes, AreTrackers
<1> DEFINE out(l) == SendRangeUpdates(l[1], <<Corrected(l[1])>>, HERE)
           d(l) == GetDirectionFromRank(l[1], l[2])
<1>14. net = [l \in Link |-> IF l[1] \in Clp /\ l[2] \in Clp /\ IsMisjudged(l[1])
                               /\ d(l) \in DOMAIN out(l)
                             THEN out(l)[d(l)] ELSE <<>>]
  BY Zenon DEF Init
<1>15. \A l \in Link : l[1] \in Clp => MaySend(l[1], out(l), Ids)
  <2> SUFFICES ASSUME NEW l \in Link, l[1] \in Clp PROVE MaySend(l[1], out(l), Ids)
    OBVIOUS
  <2>1. Corrected(l[1]) \in Announcement
    BY <1>3, <1>7 DEF Corrected, Announcement
  <2>2. <<Corrected(l[1])>> \in Seq(Announcement)
    BY <2>1
  <2> QED
    BY <2>2, UpdatesMayBeSent
<1> HIDE DEF out, d
<1>16. net \in [Link -> Seq(MessageOf(Ids))]
  <2>1. <<>> \in Seq(MessageOf(Ids))
    OBVIOUS
  <2>2. \A l \in Link : l[1] \in Clp /\ d(l) \in DOMAIN out(l)
                        => out(l)[d(l)] \in Seq(MessageOf(Ids))
    BY <1>15 DEF MaySend
  <2> QED
    BY <1>14, <2>1, <2>2
<1>17. ASSUME NEW a \in Alps PROVE ToSet(net[<<AlpParent[a], a>>]) = {}
  <2>1. <<AlpParent[a], a>> \in Link /\ a \notin Clp
    BY AgentLink, ClpOrAlp
  <2>2. net[<<AlpParent[a], a>>] = <<>>
    BY <1>14, <2>1
  <2> QED
    BY <2>2 DEF ToSet
<1>18. NetTypes
  BY <1>16, <1>17 DEF NetTypes, AreMessages
<1>19. AreQueries(queries)
  BY <1>4, ConstantsAssumption DEF AreQueries
<1>20. SeenTypes
  BY <1>1, <1>2, <1>4 DEF SeenTypes
<1> QED
  BY <1>6, <1>12, <1>13, <1>18, <1>19, <1>20 DEF Types

LEMMA StepTypes ==
    ASSUME LinksAgree, Types, [Next]_vars
    PROVE  Types'
<1>1. CASE UNCHANGED vars
  BY <1>1 DEF vars, Types, HistoryTypes, TableTypes, TrackerTypes, NetTypes, SeenTypes, Ids
<1>2. ASSUME NEW a \in Alps, NEW t \in QueryTime, NEW box \in Box, RangeQuery(a, t, box)
      PROVE  Types'
  BY <1>2, RangeQueryTypes
<1>3. ASSUME NEW a \in Alps, NEW t \in QueryTime, ProcessRollback(a, t) PROVE Types'
  BY <1>3, ProcessRollbackTypes
<1>4. ASSUME NEW a \in Alps, ReceiveAnswer(a) PROVE Types'
  BY <1>4, ReceiveAnswerTypes
<1>5. ASSUME NEW p \in Clp, Receive(p) PROVE Types'
  BY <1>5, ReceiveTypes
<1>6. ASSUME NEW p \in Clp, NEW t \in GvtTime, SetGvt(p, t) PROVE Types'
  BY <1>6, SetGvtTypes
<1>7. ASSUME NEW v \in Ssv, NEW t \in WriteTime,
             \/ \E q \in Position[v] : WriteWithRollback(v, t, q)
             \/ RollbackWrite(v, t)
      PROVE  Types'
  BY <1>7, WriteTypes
<1> QED
  BY <1>1, <1>2, <1>3, <1>4, <1>5, <1>6, <1>7 DEF Next

LEMMA TypesAreTypeOK ==
    ASSUME Types
    PROVE  TypeOK
<1>1. PICK n \in Nat : Ids = 1..n /\ n = Len(queries) /\ Ids \subseteq Id
  BY ConstantsAssumption DEF Types, AreQueries, Ids, Id
<1>2. AreTables(fRangeRoutingTable, fGVT, Ids) /\ AreMessages(net, Ids)
  BY DEF Types, TableTypes, NetTypes
<1>3. ASSUME NEW p \in Clp, NEW d \in Direction
      PROVE  LET list == fRangeRoutingTable[p][d]
             IN  /\ list # <<>>
                 /\ \A i, j \in DOMAIN list : i < j => list[i].time < list[j].time
                 /\ \A i \in DOMAIN list : ToSet(list[i].info) \subseteq Entry
  <2>1. PICK list \in Periods(Ids) : list = fRangeRoutingTable[p][d]
    BY <1>2 DEF AreTables
  <2>2. \A i \in DOMAIN list : ToSet(list[i].info) \subseteq EntryOf(Ids)
    <3>1. 0 \in Time
      BY TimesAreNumbers
    <3> QED
      BY <3>1, EntriesAreOfQueries
  <2>3. EntryOf(Ids) \subseteq Entry
    BY <1>1 DEF EntryOf, Entry
  <2>4. list # <<>> /\ \A i, j \in DOMAIN list : i < j => list[i].time < list[j].time
    BY DEF Periods, Earlier
  <2> QED
    BY <2>1, <2>2, <2>3, <2>4
<1>4. ASSUME NEW l \in Link PROVE ToSet(net[l]) \subseteq Message
  <2>1. net[l] \in Seq(MessageOf(Ids))
    BY <1>2 DEF AreMessages
  <2>2. MessageOf(Ids) \subseteq Message
    BY <1>1 DEF MessageOf, Message, AnyRange
  <2>3. ToSet(net[l]) \subseteq MessageOf(Ids)
    BY <2>1 DEF ToSet
  <2> QED
    BY <2>2, <2>3
<1>5. \A q \in ToSet(queries) : q \in [agent: Alps, time: Time, box: Box]
  <2>1. queries \in Seq(RangeQueryOf)
    BY DEF Types, AreQueries
  <2>2. ToSet(queries) \subseteq RangeQueryOf
    BY <2>1 DEF ToSet
  <2> QED
    BY <2>2 DEF RangeQueryOf
<1>6. /\ home \in Placements
      /\ \A v \in Ssv : 0 \in DOMAIN positions[v] /\ DOMAIN positions[v] \subseteq Time
  BY DEF Types, HistoryTypes, AreHistories
<1>7. fGVT \in [Clp -> Time] /\ \A p \in Clp : DOMAIN fRangeTracker[p] \subseteq DOMAIN queries
  BY <1>2 DEF AreTables, Types, TrackerTypes, AreTrackers, Ids
<1>8. /\ DOMAIN answers \subseteq DOMAIN queries /\ retracted \subseteq DOMAIN queries
      /\ told \subseteq DOMAIN queries /\ met \subseteq Weakness
  BY DEF Types, SeenTypes, Ids
<1> QED
  BY <1>3, <1>4, <1>5, <1>6, <1>7, <1>8 DEF TypeOK

\* Every variable has its type; no list of periods is ever empty or out of order,
\* whatever updates, writes and GVTs come in which order (RangeRoutingTable.cpp).
THEOREM TypeCorrect ==
    ASSUME LinksAgree
    PROVE  Spec => []TypeOK
<1>1. Init => Types
  BY StartTypes
<1>2. Types /\ [Next]_vars => Types'
  BY StepTypes
<1>3. Types => TypeOK
  BY TypesAreTypeOK
<1> QED
  BY <1>1, <1>2, <1>3, PTL DEF Spec
-----------------------------------------------------------------------------
(***************************************************************************)
(* Counting the messages of a query on a link.                             *)
(***************************************************************************)
Places(queue, id) == {i \in DOMAIN queue : queue[i].type = "query" /\ queue[i].id = id}
InQueue(queue, id) == Cardinality(Places(queue, id))

LEMMA PlacesAreFinite ==
    ASSUME NEW M, NEW s \in Seq(M), NEW id
    PROVE  /\ IsFiniteSet(Places(s, id)) /\ InQueue(s, id) \in Nat
           /\ Places(s, id) # {} => InQueue(s, id) >= 1
<1>1. PICK n \in Nat : DOMAIN s = 1..n
  OBVIOUS
<1>2. PICK D : D = 1..n /\ IsFiniteSet(D)
  BY FS_Interval
<1>3. Places(s, id) \subseteq D
  BY <1>1, <1>2 DEF Places
<1>4. IsFiniteSet(Places(s, id))
  BY <1>2, <1>3, FS_Subset
<1>5. PICK c \in Nat : c = InQueue(s, id)
  BY <1>4, FS_CardinalityType DEF InQueue
<1>6. Places(s, id) # {} => c # 0
  BY <1>4, <1>5, FS_EmptySet DEF InQueue
<1> QED
  BY <1>4, <1>5, <1>6

LEMMA CountOfRemoved ==
    ASSUME NEW M, NEW s \in Seq(M), NEW n \in Nat, Len(s) = n, NEW k \in 1..n, NEW id
    PROVE  InQueue(RemoveAt(s, k), id)
             = InQueue(s, id) - (IF s[k].type = "query" /\ s[k].id = id THEN 1 ELSE 0)
<1> DEFINE r == RemoveAt(s, k)
           S == Places(s, id) \ {k}
           T == Places(r, id)
           f == [j \in T |-> IF j < k THEN j ELSE j + 1]
<1>1. r \in Seq(M) /\ Len(r) = n - 1
  BY RemoveAtElements
<1>2. \A i \in 1..(k - 1) : r[i] = s[i]
  BY RemoveAtElements
<1>3. \A i \in k..(n - 1) : r[i] = s[i + 1]
  BY RemoveAtElements
<1> HIDE DEF r
<1>4. DOMAIN r = 1..(n - 1) /\ DOMAIN s = 1..n
  BY <1>1
<1>5. \A j \in T : j \in 1..(n - 1) /\ r[j].type = "query" /\ r[j].id = id
  BY <1>4 DEF Places
<1>6. \A j \in 1..(n - 1) : r[j].type = "query" /\ r[j].id = id => j \in T
  BY <1>4 DEF Places
<1>7. \A j \in S : j \in 1..n /\ j # k /\ s[j].type = "query" /\ s[j].id = id
  BY <1>4 DEF Places
<1>8. \A j \in 1..n : j # k /\ s[j].type = "query" /\ s[j].id = id => j \in S
  BY <1>4 DEF Places
<1> HIDE DEF S, T
<1>9. ASSUME NEW j \in T PROVE f[j] \in S
  <2>1. j \in 1..(n - 1) /\ r[j].type = "query" /\ r[j].id = id
    BY <1>5
  <2>2. CASE j < k
    <3>1. j \in 1..(k - 1) /\ j \in 1..n /\ j # k /\ f[j] = j
      BY <2>1, <2>2
    <3> QED
      BY <1>2, <1>8, <2>1, <3>1
  <2>3. CASE ~(j < k)
    <3>1. j \in k..(n - 1) /\ j + 1 \in 1..n /\ j + 1 # k /\ f[j] = j + 1
      BY <2>1, <2>3
    <3> QED
      BY <1>3, <1>8, <2>1, <3>1
  <2> QED
    BY <2>2, <2>3
<1>10. \A i, j \in T : f[i] = f[j] => i = j
  BY <1>5
<1>11. ASSUME NEW j \in S PROVE \E i \in T : f[i] = j
  <2>1. j \in 1..n /\ j # k /\ s[j].type = "query" /\ s[j].id = id
    BY <1>7
  <2>2. CASE j < k
    <3>1. j \in 1..(k - 1) /\ j \in 1..(n - 1)
      BY <2>1, <2>2
    <3>2. j \in T
      BY <1>2, <1>6, <2>1, <3>1
    <3> QED
      BY <2>2, <3>2
  <2>3. CASE ~(j < k)
    <3>1. PICK i \in Int : i = j - 1
      BY <2>1
    <3>2. i \in k..(n - 1) /\ i \in 1..(n - 1) /\ i + 1 = j /\ ~(i < k)
      BY <2>1, <2>3, <3>1
    <3>3. r[i] = s[j]
      BY <1>3, <3>2
    <3>4. i \in T
      BY <1>6, <2>1, <3>2, <3>3
    <3> QED
      BY <3>2, <3>4
  <2> QED
    BY <2>2, <2>3
<1>12. f \in [T -> S]
  BY <1>9
<1>13. f \in Bijection(T, S)
  <2> HIDE DEF f
  <2> QED
    BY <1>10, <1>11, <1>12, Fun_IsBij
<1>14. IsFiniteSet(T) /\ IsFiniteSet(Places(s, id)) /\ InQueue(s, id) \in Nat
  BY <1>1, PlacesAreFinite DEF T
<1>15. Cardinality(S) = Cardinality(T)
  <2>1. ExistsBijection(T, S)
    BY <1>13, Fun_ExistsBij
  <2> QED
    BY <1>14, <2>1, FS_Bijection
<1>16. Cardinality(S) = IF k \in Places(s, id) THEN InQueue(s, id) - 1 ELSE InQueue(s, id)
  BY <1>14, FS_RemoveElement DEF S, InQueue
<1>17. k \in Places(s, id) <=> s[k].type = "query" /\ s[k].id = id
  BY <1>4 DEF Places
<1>18. InQueue(r, id) = Cardinality(T)
  BY DEF InQueue, T
<1>19. InQueue(r, id) = IF k \in Places(s, id) THEN InQueue(s, id) - 1 ELSE InQueue(s, id)
  BY <1>15, <1>16, <1>18
<1>20. InQueue(r, id) = InQueue(s, id) - (IF s[k].type = "query" /\ s[k].id = id THEN 1 ELSE 0)
  BY <1>14, <1>17, <1>19
<1> QED
  BY <1>20 DEF r

LEMMA CountOfOthersAdded ==
    ASSUME NEW M, NEW s \in Seq(M), NEW t \in Seq(M), NEW id,
           \A m \in ToSet(t) : ~(m.type = "query" /\ m.id = id)
    PROVE  InQueue(s \o t, id) = InQueue(s, id)
<1>1. PICK n \in Nat : DOMAIN s = 1..n /\ Len(s) = n
  OBVIOUS
<1>2. PICK k \in Nat : DOMAIN t = 1..k /\ Len(t) = k
  OBVIOUS
<1>3. /\ DOMAIN (s \o t) = 1..(n + k)
      /\ \A i \in 1..n : (s \o t)[i] = s[i]
      /\ \A i \in (n + 1)..(n + k) : (s \o t)[i] = t[i - n]
  BY <1>1, <1>2
<1>4. \A i \in 1..k : ~(t[i].type = "query" /\ t[i].id = id)
  BY <1>2 DEF ToSet
<1>5. ASSUME NEW i \in 1..(n + k) PROVE i \in Places(s \o t, id) <=> i \in Places(s, id)
  <2>1. CASE i \in 1..n
    BY <1>1, <1>3, <2>1 DEF Places
  <2>2. CASE i \in (n + 1)..(n + k)
    <3>1. i - n \in 1..k /\ i \notin 1..n
      BY <2>2
    <3> QED
      BY <1>1, <1>3, <1>4, <2>2, <3>1 DEF Places
  <2> QED
    BY <2>1, <2>2
<1>6. Places(s \o t, id) \subseteq 1..(n + k) /\ Places(s, id) \subseteq 1..(n + k)
  BY <1>1, <1>3 DEF Places
<1>7. Places(s \o t, id) = Places(s, id)
  BY <1>5, <1>6
<1> QED
  BY <1>7 DEF InQueue

LEMMA CountOfOneAdded ==
    ASSUME NEW M, NEW s \in Seq(M), NEW m \in M, NEW id, m.type = "query", m.id = id
    PROVE  InQueue(s \o <<m>>, id) = InQueue(s, id) + 1
<1>1. PICK n \in Nat : DOMAIN s = 1..n /\ Len(s) = n
  OBVIOUS
<1>2. /\ DOMAIN (s \o <<m>>) = 1..(n + 1)
      /\ \A i \in 1..n : (s \o <<m>>)[i] = s[i]
      /\ (s \o <<m>>)[n + 1] = m
  BY <1>1
<1>3. Places(s \o <<m>>, id) = Places(s, id) \cup {n + 1}
  <2>1. \A i \in 1..(n + 1) : i \in 1..n \/ i = n + 1
    OBVIOUS
  <2>2. n + 1 \in 1..(n + 1) /\ \A i \in 1..n : i \in 1..(n + 1)
    OBVIOUS
  <2> QED
    BY <1>1, <1>2, <2>1, <2>2 DEF Places
<1>4. n + 1 \notin Places(s, id)
  <2>1. n + 1 \notin 1..n
    OBVIOUS
  <2> QED
    BY <1>1, <2>1 DEF Places
<1>5. IsFiniteSet(Places(s, id))
  BY PlacesAreFinite
<1> QED
  BY <1>3, <1>4, <1>5, FS_AddElement DEF InQueue

\* What a handler makes of the count of a link: less what it took, more what it sent.
Left(k, l, i, id) ==
    InQueue(net[k], id)
      - (IF k = l /\ net[l][i].type = "query" /\ net[l][i].id = id THEN 1 ELSE 0)

LEMMA CountLeft ==
    ASSUME NEW M, net \in [Link -> Seq(M)], NEW l \in Link, NEW i \in DOMAIN net[l],
           NEW k \in Link, NEW id
    PROVE  LET rest == IF k = l THEN RemoveAt(net[k], i) ELSE net[k]
           IN  rest \in Seq(M) /\ InQueue(rest, id) = Left(k, l, i, id)
<1>1. PICK s \in Seq(M) : s = net[k]
  OBVIOUS
<1>2. PICK n \in Nat : n = Len(s)
  OBVIOUS
<1>3. CASE k = l
  <2>1. i \in 1..n
    BY <1>1, <1>2, <1>3
  <2>2. RemoveAt(s, i) \in Seq(M)
    BY <1>2, <2>1, RemoveAtElements
  <2>3. InQueue(RemoveAt(s, i), id)
          = InQueue(s, id) - (IF s[i].type = "query" /\ s[i].id = id THEN 1 ELSE 0)
    BY <1>2, <2>1, CountOfRemoved
  <2> QED
    BY <1>1, <1>3, <2>2, <2>3 DEF Left
<1>4. CASE k # l
  <2>1. InQueue(s, id) \in Nat
    BY PlacesAreFinite
  <2>2. InQueue(s, id) - 0 = InQueue(s, id)
    BY <2>1
  <2> QED
    BY <1>1, <1>4, <2>2 DEF Left
<1> QED
  BY <1>3, <1>4

NoneOf(queue, id) == \A m \in ToSet(queue) : ~(m.type = "query" /\ m.id = id)

LEMMA CountIfOthersSent ==
    ASSUME NEW M, net \in [Link -> Seq(M)], NEW l \in Link, NEW i \in DOMAIN net[l],
           NEW out, NEW k \in Link, NEW id, OutOn(k, l[2], out) \in Seq(M),
           NoneOf(OutOn(k, l[2], out), id)
    PROVE  InQueue(Exchanged(l, i, out)[k], id) = Left(k, l, i, id)
<1> DEFINE rest == IF k = l THEN RemoveAt(net[k], i) ELSE net[k]
           more == OutOn(k, l[2], out)
<1>1. Exchanged(l, i, out)[k] = rest \o more
  BY DEF Exchanged, OutOn
<1>2. rest \in Seq(M) /\ InQueue(rest, id) = Left(k, l, i, id)
  BY CountLeft
<1>3. more \in Seq(M) /\ \A m \in ToSet(more) : ~(m.type = "query" /\ m.id = id)
  BY DEF NoneOf
<1> HIDE DEF rest, more
<1>4. InQueue(rest \o more, id) = InQueue(rest, id)
  BY <1>2, <1>3, CountOfOthersAdded
<1> QED
  BY <1>1, <1>2, <1>4

LEMMA CountIfOneSent ==
    ASSUME NEW M, net \in [Link -> Seq(M)], NEW l \in Link, NEW i \in DOMAIN net[l],
           NEW out, NEW k \in Link, NEW id, NEW m \in M,
           OutOn(k, l[2], out) = <<m>>, m.type = "query", m.id = id
    PROVE  InQueue(Exchanged(l, i, out)[k], id) = Left(k, l, i, id) + 1
<1> DEFINE rest == IF k = l THEN RemoveAt(net[k], i) ELSE net[k]
<1>1. Exchanged(l, i, out)[k] = rest \o <<m>>
  BY DEF Exchanged, OutOn
<1>2. rest \in Seq(M) /\ InQueue(rest, id) = Left(k, l, i, id)
  BY CountLeft
<1> HIDE DEF rest
<1>3. InQueue(rest \o <<m>>, id) = InQueue(rest, id) + 1
  BY <1>2, CountOfOneAdded
<1> QED
  BY <1>1, <1>2, <1>3

\* A handler that takes a query and sends queries of the same identifier.
OnlyQueries(out, id) ==
    \A d \in DOMAIN out : \E found \in Found : out[d] = <<Query(id, found)>>

\* Whether p sends to LP n.
SendsTo(p, n, out) == GetDirectionFromRank(p, n) \in DOMAIN out

LEMMA CountsOfQueries ==
    ASSUME NEW ids, AreMessages(net, ids), NEW l \in Link, NEW i \in DOMAIN net[l],
           NEW id \in ids, net[l][i].type = "query", net[l][i].id = id,
           NEW out, OnlyQueries(out, id), NEW k \in Link
    PROVE  /\ InQueue(Exchanged(l, i, out)[k], id)
                = InQueue(net[k], id) - (IF k = l THEN 1 ELSE 0)
                    + (IF k[1] = l[2] /\ SendsTo(k[1], k[2], out) THEN 1 ELSE 0)
           /\ \A other : other # id
                => InQueue(Exchanged(l, i, out)[k], other) = InQueue(net[k], other)
<1> DEFINE M == MessageOf(ids)
           E == Exchanged(l, i, out)[k]
<1>1. net \in [Link -> Seq(M)]
  BY DEF AreMessages
<1>2. \A found \in Found : Query(id, found) \in M /\ <<Query(id, found)>> \in Seq(M)
  BY MessagesToSend
<1>3. \A found \in Found : Query(id, found).type = "query" /\ Query(id, found).id = id
  BY DEF Query
<1> HIDE DEF M
<1>4. \A d \in DOMAIN out : out[d] \in Seq(M)
  BY <1>2 DEF OnlyQueries
<1>5. OutOn(k, l[2], out) \in Seq(M)
  BY <1>4, OutOnIsSeq
<1>6. \A j : InQueue(net[k], j) \in Nat
  <2>1. net[k] \in Seq(M)
    BY <1>1
  <2> QED
    BY <2>1, PlacesAreFinite
<1>7. \A j : Left(k, l, i, j) = InQueue(net[k], j) - (IF k = l /\ id = j THEN 1 ELSE 0)
  BY DEF Left
<1>8. CASE k[1] = l[2] /\ SendsTo(k[1], k[2], out)
  <2>1. PICK found \in Found : OutOn(k, l[2], out) = <<Query(id, found)>>
    BY <1>8 DEF OnlyQueries, SendsTo, OutOn
  <2>2. PICK m \in M : OutOn(k, l[2], out) = <<m>> /\ m.type = "query" /\ m.id = id
    BY <1>2, <1>3, <2>1
  <2>3. ToSet(<<m>>) = {m}
    BY DEF ToSet
  <2>4. InQueue(E, id) = Left(k, l, i, id) + 1
    BY <1>1, <2>2, CountIfOneSent
  <2>5. ASSUME NEW other, other # id PROVE InQueue(E, other) = Left(k, l, i, other)
    <3>1. NoneOf(OutOn(k, l[2], out), other)
      BY <2>2, <2>3, <2>5 DEF NoneOf
    <3> QED
      BY <1>1, <1>5, <3>1, CountIfOthersSent
  <2> HIDE DEF E
  <2>6. \A other : other # id => InQueue(E, other) = InQueue(net[k], other)
    BY <1>6, <1>7, <2>5
  <2>7. InQueue(E, id) = InQueue(net[k], id) - (IF k = l THEN 1 ELSE 0) + 1
    BY <1>7, <2>4
  <2> QED
    BY <1>8, <2>6, <2>7 DEF E
<1>9. CASE ~(k[1] = l[2] /\ SendsTo(k[1], k[2], out))
  <2>1. OutOn(k, l[2], out) = <<>> /\ ToSet(<<>>) = {}
    BY <1>9 DEF SendsTo, OutOn, ToSet
  <2>2. ASSUME NEW j PROVE InQueue(E, j) = Left(k, l, i, j)
    <3>1. NoneOf(OutOn(k, l[2], out), j)
      BY <2>1 DEF NoneOf
    <3> QED
      BY <1>1, <1>5, <3>1, CountIfOthersSent
  <2> HIDE DEF E
  <2>3. InQueue(E, id) = InQueue(net[k], id) - (IF k = l THEN 1 ELSE 0) + 0
    BY <1>6, <1>7, <2>2
  <2>4. \A other : other # id => InQueue(E, other) = InQueue(net[k], other)
    BY <1>6, <1>7, <2>2
  <2> QED
    BY <1>9, <2>3, <2>4 DEF E
<1> QED
  BY <1>8, <1>9

\* What is not a query does not count.
NoQueries(out, ids) ==
    \A d \in DOMAIN out : /\ out[d] \in Seq(MessageOf(ids))
                          /\ \A m \in ToSet(out[d]) : m.type # "query"

LEMMA CountsOfOthers ==
    ASSUME NEW ids, AreMessages(net, ids), NEW l \in Link, NEW i \in DOMAIN net[l],
           net[l][i].type # "query", NEW out, NoQueries(out, ids), NEW k \in Link, NEW id
    PROVE  InQueue(Exchanged(l, i, out)[k], id) = InQueue(net[k], id)
<1> DEFINE M == MessageOf(ids)
<1>1. net \in [Link -> Seq(M)] /\ \A d \in DOMAIN out : out[d] \in Seq(M)
  BY DEF AreMessages, NoQueries
<1> HIDE DEF M
<1>2. OutOn(k, l[2], out) \in Seq(M)
  BY <1>1, OutOnIsSeq
<1>3. NoneOf(OutOn(k, l[2], out), id)
  <2>1. ToSet(<<>>) = {}
    BY DEF ToSet
  <2> QED
    BY <2>1 DEF OutOn, NoneOf, NoQueries
<1>4. InQueue(net[k], id) \in Nat
  <2>1. net[k] \in Seq(M)
    BY <1>1
  <2> QED
    BY <2>1, PlacesAreFinite
<1>5. InQueue(Exchanged(l, i, out)[k], id) = Left(k, l, i, id)
  BY <1>1, <1>2, <1>3, CountIfOthersSent
<1>6. Left(k, l, i, id) = InQueue(net[k], id)
  BY <1>4 DEF Left
<1> QED
  BY <1>5, <1>6
-----------------------------------------------------------------------------
(***************************************************************************)
(* The links between CLPs, seen from a query.  Beyond such a link, away    *)
(* from the agent, one message or one tracker entry stands for the query   *)
(* while the CLP on this side waits for it, and none otherwise.            *)
(***************************************************************************)
ClpNeighbours(p) == Neighbours(p) \cap Clp
IsBeyond(p, n, id) == GetDirectionFromRank(p, n) # AgentPort(p, id)

Tracks(tracker, p, id) == IF id \in DOMAIN tracker[p] THEN 1 ELSE 0
Waits(tracker, p, d, id) ==
    IF id \in DOMAIN tracker[p] /\ d \in tracker[p][id].outstanding THEN 1 ELSE 0

Edge(links, tracker, p, n, id) ==
    InQueue(links[<<p, n>>], id) + InQueue(links[<<n, p>>], id) + Tracks(tracker, n, id)
      = Waits(tracker, p, GetDirectionFromRank(p, n), id)

Asked(links, tracker, a, id) ==
    InQueue(links[<<a, AlpParent[a]>>], id) + Tracks(tracker, AlpParent[a], id) <= 1

Edges == \A p \in Clp : \A n \in ClpNeighbours(p), id \in Ids :
           IsBeyond(p, n, id) => Edge(net, fRangeTracker, p, n, id)
AskedOnce == \A id \in Ids : Asked(net, fRangeTracker, queries[id].agent, id)

\* An agent's CLP is asked by that agent; a reply goes in its direction; and no query
\* is under way that a CLP has dropped the period of.
OwnQueries(links, asked) ==
    \A a \in Alps : \A m \in ToSet(links[<<a, AlpParent[a]>>]) :
      m.type = "query" => asked[m.id].agent = a
Origins == \A p \in Clp : \A id \in DOMAIN fRangeTracker[p] :
             fRangeTracker[p][id].originPort = AgentPort(p, id)
InTime(links, gvt, asked) ==
    \A l \in Link : \A m \in ToSet(links[l]) :
      m.type = "query" => \A p \in Clp : gvt[p] <= asked[m.id].time

Inv == /\ Types /\ Edges /\ AskedOnce /\ OwnQueries(net, queries) /\ Origins
       /\ InTime(net, fGVT, queries)

LEMMA BothWays ==
    ASSUME LinksAgree, NEW p \in Clp, NEW n \in ClpNeighbours(p)
    PROVE  /\ n \in Clp /\ p \in ClpNeighbours(n) /\ n # p
           /\ <<p, n>> \in Link /\ <<n, p>> \in Link
           /\ \A r \in LpRank : GetDirectionFromRank(p, r) = GetDirectionFromRank(p, n)
                 <=> GetDirectionFromRank(n, r) # GetDirectionFromRank(n, p)
<1>1. n \in Neighbours(p) \cap Clp
  BY DEF ClpNeighbours
<1>2. p \in Neighbours(n) /\ n # p
  BY <1>1 DEF LinksAgree
<1>3. p \in LpRank /\ n \in LpRank
  BY <1>1, ClpOrAlp
<1>4. <<p, n>> \in Link /\ <<n, p>> \in Link
  BY <1>1, <1>2, <1>3 DEF Link
<1>5. \A r \in LpRank : GetDirectionFromRank(p, r) = GetDirectionFromRank(p, n)
                 <=> GetDirectionFromRank(n, r) # GetDirectionFromRank(n, p)
  BY <1>1 DEF LinksAgree
<1> QED
  BY <1>1, <1>2, <1>4, <1>5 DEF ClpNeighbours

LEMMA OneSideIsBeyond ==
    ASSUME LinksAgree, AreQueries(queries), NEW id \in Ids, NEW p \in Clp,
           NEW n \in ClpNeighbours(p)
    PROVE  IsBeyond(p, n, id) <=> ~IsBeyond(n, p, id)
<1>1. queries[id].agent \in LpRank
  BY QueryFields, ClpOrAlp
<1>2. PICK r \in LpRank : r = queries[id].agent
  BY <1>1
<1>3. GetDirectionFromRank(p, r) = GetDirectionFromRank(p, n)
        <=> GetDirectionFromRank(n, r) # GetDirectionFromRank(n, p)
  BY BothWays
<1> QED
  BY <1>2, <1>3 DEF IsBeyond, AgentPort

LEMMA OnePortEach ==
    ASSUME LinksAgree, NEW p \in Clp, NEW m \in Neighbours(p), NEW n \in Neighbours(p),
           GetDirectionFromRank(p, m) = GetDirectionFromRank(p, n)
    PROVE  m = n
<1>1. GetRankFromDirection(p, GetDirectionFromRank(p, m)) = m
  BY DEF LinksAgree
<1>2. GetRankFromDirection(p, GetDirectionFromRank(p, n)) = n
  BY DEF LinksAgree
<1> QED
  BY <1>1, <1>2

\* Whom a CLP gets messages from.
LEMMA SenderIs ==
    ASSUME LinksAgree, NEW l \in Link, l[2] \in Clp
    PROVE  /\ l[1] \in Neighbours(l[2]) /\ l[1] # l[2]
           /\ l[1] \in ClpNeighbours(l[2]) \/ (l[1] \in Alps /\ AlpParent[l[1]] = l[2])
<1>1. l[1] \in LpRank /\ l[2] \in LpRank
  BY LinkEnds
<1>2. l[1] \in Neighbours(l[2])
  <2>1. CASE l[1] \in Clp /\ l[2] \in Neighbours(l[1])
    BY <2>1 DEF LinksAgree
  <2>2. CASE l[2] \in Clp /\ l[1] \in Neighbours(l[2])
    BY <2>2
  <2> QED
    BY <2>1, <2>2 DEF Link
<1>3. l[1] # l[2]
  BY <1>2 DEF LinksAgree
<1>4. CASE l[1] \in Clp
  BY <1>2, <1>3, <1>4 DEF ClpNeighbours
<1>5. CASE l[1] \in Alps
  <2>1. l[1] \in {a \in Alps : AlpParent[a] = l[2]}
    BY <1>2, <1>5 DEF LinksAgree
  <2> QED
    BY <1>2, <1>3, <1>5, <2>1
<1> QED
  BY <1>1, <1>4, <1>5 DEF LpRank

LEMMA AgentIsNotBeyond ==
    ASSUME LinksAgree, NEW a \in Alps, NEW n \in ClpNeighbours(AlpParent[a])
    PROVE  GetDirectionFromRank(AlpParent[a], n) # GetDirectionFromRank(AlpParent[a], a)
<1>1. AlpParent[a] \in Clp /\ a \in Neighbours(AlpParent[a])
  BY AgentLink
<1>2. n # a /\ n \in Neighbours(AlpParent[a])
  BY ClpOrAlp DEF ClpNeighbours
<1> QED
  BY <1>1, <1>2, OnePortEach

LEMMA Counts ==
    ASSUME Types, NEW k \in Link, NEW id
    PROVE  /\ InQueue(net[k], id) \in Nat
           /\ \A i \in DOMAIN net[k] : net[k][i].type = "query" /\ net[k][i].id = id
                => InQueue(net[k], id) >= 1
<1>1. net[k] \in Seq(MessageOf(Ids))
  BY DEF Types, NetTypes, AreMessages
<1>2. InQueue(net[k], id) \in Nat /\ (Places(net[k], id) # {} => InQueue(net[k], id) >= 1)
  BY <1>1, PlacesAreFinite
<1> QED
  BY <1>2 DEF Places

\* A query that is new to its CLP came from its agent's side, a reply did not.
LEMMA CameFrom ==
    ASSUME LinksAgree, Inv, NEW l \in Link, l[2] \in Clp, NEW i \in DOMAIN net[l],
           net[l][i].type = "query"
    PROVE  LET p == l[2]
               id == net[l][i].id
           IN  /\ id \in Ids
               /\ id \notin DOMAIN fRangeTracker[p]
                  => GetDirectionFromRank(p, l[1]) = AgentPort(p, id)
               /\ id \in DOMAIN fRangeTracker[p]
                  => l[1] \in ClpNeighbours(p) /\ IsBeyond(p, l[1], id)
<1> DEFINE p == l[2]
           s == l[1]
           id == net[l][i].id
<1>1. /\ Types /\ AreQueries(queries) /\ Edges /\ AskedOnce /\ OwnQueries(net, queries)
  BY DEF Inv, Types
<1>2. net[l] \in Seq(MessageOf(Ids))
  BY <1>1 DEF Types, NetTypes, AreMessages
<1>3. net[l][i] \in MessageOf(Ids) /\ net[l][i] \in ToSet(net[l])
  BY <1>2 DEF ToSet
<1>4. id \in Ids
  BY <1>3, MessageFields
<1>5. l = <<s, p>> /\ s \in Neighbours(p) /\ s # p
  BY LinkEnds, SenderIs
<1>6. InQueue(net[<<s, p>>], id) \in Nat /\ InQueue(net[<<s, p>>], id) >= 1
  BY <1>1, <1>5, Counts
<1>7. CASE s \in Alps /\ AlpParent[s] = p
  <2>1. queries[id].agent = s
    BY <1>1, <1>3, <1>5, <1>7 DEF OwnQueries
  <2>2. Asked(net, fRangeTracker, s, id)
    BY <1>1, <1>4, <2>1 DEF AskedOnce
  <2>3. id \notin DOMAIN fRangeTracker[p]
    BY <1>6, <1>7, <2>2 DEF Asked, Tracks
  <2>4. GetDirectionFromRank(p, s) = AgentPort(p, id)
    BY <2>1 DEF AgentPort
  <2> QED
    BY <1>4, <2>3, <2>4
<1>8. CASE s \in ClpNeighbours(p)
  <2>1. /\ s \in Clp /\ p \in ClpNeighbours(s) /\ <<p, s>> \in Link
    BY <1>8, BothWays
  <2>2. InQueue(net[<<p, s>>], id) \in Nat
    BY <1>1, <2>1, Counts
  <2>3. CASE IsBeyond(p, s, id)
    <3>1. Edge(net, fRangeTracker, p, s, id)
      BY <1>1, <1>4, <1>8, <2>3 DEF Edges
    <3>2. id \in DOMAIN fRangeTracker[p]
      BY <1>6, <2>2, <3>1 DEF Edge, Tracks, Waits
    <3> QED
      BY <1>4, <1>8, <2>3, <3>2
  <2>4. CASE ~IsBeyond(p, s, id)
    <3>1. IsBeyond(s, p, id)
      BY <1>1, <1>4, <1>8, <2>4, OneSideIsBeyond
    <3>2. Edge(net, fRangeTracker, s, p, id)
      BY <1>1, <1>4, <2>1, <3>1 DEF Edges
    <3>3. id \notin DOMAIN fRangeTracker[p]
      BY <1>6, <2>2, <3>2 DEF Edge, Tracks, Waits
    <3> QED
      BY <1>4, <2>4, <3>3 DEF IsBeyond
  <2> QED
    BY <2>3, <2>4
<1> QED
  BY <1>7, <1>8, SenderIs

\* The tracker after a handler: nothing else changes, and a query that waits for no
\* port is gone.
SameElsewhere(tracker, p, id) ==
    \A q \in Clp : \A j : q # p \/ j # id =>
      /\ Tracks(tracker, q, j) = Tracks(fRangeTracker, q, j)
      /\ \A d : Waits(tracker, q, d, j) = Waits(fRangeTracker, q, d, j)
StandsFor(tracker, p, id, outs) ==
    /\ Tracks(tracker, p, id) = IF outs = {} THEN 0 ELSE 1
    /\ \A d : Waits(tracker, p, d, id) = IF d \in outs THEN 1 ELSE 0

LEMMA TrackedStands ==
    ASSUME TrackerTypes, NEW p \in Clp, NEW id, NEW status
    PROVE  LET new == [fRangeTracker EXCEPT ![p] = Tracked(p, id, status)]
           IN  SameElsewhere(new, p, id) /\ StandsFor(new, p, id, status.outstanding)
<1> DEFINE mine == Tracked(p, id, status)
           new == [fRangeTracker EXCEPT ![p] = mine]
<1>1. fRangeTracker = [q \in Clp |-> fRangeTracker[q]]
  BY DEF TrackerTypes
<1>2. \A q \in Clp : new[q] = IF q = p THEN mine ELSE fRangeTracker[q]
  BY <1>1
<1>3. CASE status.outstanding = {}
  <2>1. DOMAIN mine = DOMAIN fRangeTracker[p] \ {id}
        /\ \A j \in DOMAIN mine : mine[j] = fRangeTracker[p][j]
    BY <1>3 DEF Tracked
  <2> HIDE DEF mine, new
  <2>2. SameElsewhere(new, p, id)
    BY <1>2, <2>1 DEF SameElsewhere, Tracks, Waits
  <2>3. StandsFor(new, p, id, status.outstanding)
    BY <1>2, <1>3, <2>1 DEF StandsFor, Tracks, Waits
  <2> QED
    BY <2>2, <2>3 DEF new, mine
<1>4. CASE status.outstanding # {}
  <2>1. DOMAIN mine = DOMAIN fRangeTracker[p] \cup {id}
        /\ \A j \in DOMAIN mine : mine[j] = IF j = id THEN status ELSE fRangeTracker[p][j]
    BY <1>4 DEF Tracked
  <2> HIDE DEF mine, new
  <2>2. SameElsewhere(new, p, id)
    BY <1>2, <2>1 DEF SameElsewhere, Tracks, Waits
  <2>3. StandsFor(new, p, id, status.outstanding)
    BY <1>2, <1>4, <2>1 DEF StandsFor, Tracks, Waits
  <2> QED
    BY <2>2, <2>3 DEF new, mine
<1> QED
  BY <1>3, <1>4

\* A handler that takes a query, where the edges beyond are as they should be: all
\* others still are.  Towards the agent a reply goes exactly when the entry goes.
Handler(l, i, id, out, tracker, outs) ==
    /\ l[2] \in Clp /\ i \in DOMAIN net[l] /\ net[l][i].type = "query" /\ net[l][i].id = id
    /\ OnlyQueries(out, id)
    /\ SameElsewhere(tracker, l[2], id) /\ StandsFor(tracker, l[2], id, outs)
    /\ AgentPort(l[2], id) \in DOMAIN out <=> outs = {}

LEMMA EdgesAfter ==
    ASSUME LinksAgree, Inv, NEW l \in Link, NEW i, NEW id, NEW out, NEW tracker, NEW outs,
           Handler(l, i, id, out, tracker, outs),
           \A n \in ClpNeighbours(l[2]) : IsBeyond(l[2], n, id)
             => Edge(Exchanged(l, i, out), tracker, l[2], n, id)
    PROVE  /\ \A q \in Clp : \A n \in ClpNeighbours(q), j \in Ids :
                IsBeyond(q, n, j) => Edge(Exchanged(l, i, out), tracker, q, n, j)
           /\ \A j \in Ids : Asked(Exchanged(l, i, out), tracker, queries[j].agent, j)
<1> DEFINE p == l[2]
           s == l[1]
           links == Exchanged(l, i, out)
<1>1. /\ p \in Clp /\ i \in DOMAIN net[l] /\ net[l][i].type = "query" /\ net[l][i].id = id
      /\ OnlyQueries(out, id)
  BY DEF Handler
<1>2. /\ SameElsewhere(tracker, p, id) /\ StandsFor(tracker, p, id, outs)
      /\ AgentPort(p, id) \in DOMAIN out <=> outs = {}
  BY DEF Handler
<1>3. /\ Types /\ AreQueries(queries) /\ Edges /\ AskedOnce /\ AreMessages(net, Ids)
  BY DEF Inv, Types, NetTypes
<1>4. /\ id \in Ids
      /\ id \notin DOMAIN fRangeTracker[p] => GetDirectionFromRank(p, s) = AgentPort(p, id)
      /\ id \in DOMAIN fRangeTracker[p] => s \in ClpNeighbours(p) /\ IsBeyond(p, s, id)
  BY <1>1, CameFrom
<1>5. l = <<s, p>> /\ s \in Neighbours(p) /\ s # p
  BY <1>1, LinkEnds, SenderIs
<1>6. ASSUME NEW k \in Link
      PROVE  /\ InQueue(net[k], id) \in Nat
             /\ InQueue(links[k], id)
                  = InQueue(net[k], id) - (IF k = l THEN 1 ELSE 0)
                      + (IF k[1] = p /\ SendsTo(k[1], k[2], out) THEN 1 ELSE 0)
             /\ \A j : j # id => InQueue(links[k], j) = InQueue(net[k], j)
  <2>1. InQueue(net[k], id) \in Nat
    BY <1>3, Counts
  <2>2. /\ InQueue(links[k], id)
                  = InQueue(net[k], id) - (IF k = l THEN 1 ELSE 0)
                      + (IF k[1] = l[2] /\ SendsTo(k[1], k[2], out) THEN 1 ELSE 0)
        /\ \A j : j # id => InQueue(links[k], j) = InQueue(net[k], j)
    BY <1>1, <1>3, <1>4, CountsOfQueries
  <2> QED
    BY <2>1, <2>2
<1> HIDE DEF links
<1>7. ASSUME NEW q \in Clp, NEW n \in ClpNeighbours(q), NEW j \in Ids, IsBeyond(q, n, j)
      PROVE  Edge(links, tracker, q, n, j)
  <2>1. /\ n \in Clp /\ q \in ClpNeighbours(n) /\ n # q
        /\ <<q, n>> \in Link /\ <<n, q>> \in Link
    BY BothWays
  <2>2. Edge(net, fRangeTracker, q, n, j)
    BY <1>3, <1>7 DEF Edges
  <2>3. CASE j # id
    BY <1>2, <1>6, <2>1, <2>2, <2>3 DEF Edge, SameElsewhere
  <2>4. CASE j = id /\ q = p
    BY <1>7, <2>4 DEF links
  <2>5. CASE j = id /\ q # p /\ n # p
    <3>1. <<q, n>> # l /\ <<n, q>> # l
      BY <1>5, <2>5
    <3>2. InQueue(links[<<q, n>>], id) = InQueue(net[<<q, n>>], id)
          /\ InQueue(links[<<n, q>>], id) = InQueue(net[<<n, q>>], id)
      BY <1>6, <2>1, <2>5, <3>1
    <3> QED
      BY <1>2, <2>1, <2>2, <2>5, <3>2 DEF Edge, SameElsewhere
  <2>6. CASE j = id /\ q # p /\ n = p
    <3>1. GetDirectionFromRank(p, q) = AgentPort(p, id)
      <4>1. ~IsBeyond(p, q, id)
        BY <1>1, <1>3, <1>7, <2>1, <2>6, OneSideIsBeyond
      <4> QED
        BY <4>1 DEF IsBeyond
    <3> DEFINE there == InQueue(net[<<q, p>>], id)
               back == InQueue(net[<<p, q>>], id)
               waits == Waits(fRangeTracker, q, GetDirectionFromRank(q, p), id)
    <3>2. there \in Nat /\ back \in Nat
      BY <1>6, <2>1, <2>6
    <3>3. there + back + Tracks(fRangeTracker, p, id) = waits
      BY <2>2, <2>6 DEF Edge
    <3>4. Waits(tracker, q, GetDirectionFromRank(q, p), id) = waits
      BY <1>2, <2>6 DEF SameElsewhere
    <3>5. InQueue(links[<<q, p>>], id) = there - (IF q = s THEN 1 ELSE 0)
      <4>1. <<q, p>> = l <=> q = s
        BY <1>5
      <4>2. <<q, p>>[1] # p
        BY <2>6
      <4>3. InQueue(links[<<q, p>>], id) = there - (IF <<q, p>> = l THEN 1 ELSE 0) + 0
        BY <1>6, <2>1, <2>6, <4>2
      <4> QED
        BY <3>2, <4>1, <4>3
    <3>6. InQueue(links[<<p, q>>], id) = back + (IF outs = {} THEN 1 ELSE 0)
      <4>1. <<p, q>> # l
        BY <1>5, <2>6
      <4>2. SendsTo(p, q, out) <=> outs = {}
        BY <1>2, <3>1 DEF SendsTo
      <4>3. InQueue(links[<<p, q>>], id) = back - 0 + (IF SendsTo(p, q, out) THEN 1 ELSE 0)
        BY <1>6, <2>1, <2>6, <4>1
      <4> QED
        BY <3>2, <4>2, <4>3
    <3>7. Tracks(tracker, p, id) = IF outs = {} THEN 0 ELSE 1
      BY <1>2 DEF StandsFor
    <3>8. (q = s /\ Tracks(fRangeTracker, p, id) = 0) \/ (q # s /\ Tracks(fRangeTracker, p, id) = 1)
      <4>1. CASE id \in DOMAIN fRangeTracker[p]
        <5>1. q # s
          BY <1>4, <3>1, <4>1 DEF IsBeyond
        <5> QED
          BY <4>1, <5>1 DEF Tracks
      <4>2. CASE id \notin DOMAIN fRangeTracker[p]
        <5>1. q \in Neighbours(p)
          BY <2>1, <2>6 DEF ClpNeighbours
        <5>2. q = s
          BY <1>1, <1>4, <1>5, <3>1, <4>2, <5>1, OnePortEach
        <5> QED
          BY <4>2, <5>2 DEF Tracks
      <4> QED
        BY <4>1, <4>2
    <3> HIDE DEF there, back, waits
    <3>9. InQueue(links[<<q, p>>], id) + InQueue(links[<<p, q>>], id) + Tracks(tracker, p, id)
            = waits
      BY <3>2, <3>3, <3>5, <3>6, <3>7, <3>8
    <3> QED
      BY <2>6, <3>4, <3>9 DEF Edge
  <2> QED
    BY <2>3, <2>4, <2>5, <2>6
<1>8. ASSUME NEW j \in Ids PROVE Asked(links, tracker, queries[j].agent, j)
  <2> DEFINE a == queries[j].agent
             r == AlpParent[a]
  <2> SUFFICES Asked(links, tracker, a, j)
    OBVIOUS
  <2>1. a \in Alps
    BY <1>3, QueryFields
  <2>2. r \in Clp /\ <<a, r>> \in Link /\ a \notin Clp
    BY <2>1, AgentLink, ClpOrAlp
  <2>3. Asked(net, fRangeTracker, a, j)
    BY <1>3 DEF AskedOnce
  <2> HIDE DEF a
  <2>4. CASE j # id
    BY <1>2, <1>6, <2>2, <2>3, <2>4 DEF Asked, SameElsewhere
  <2>5. CASE j = id
    <3>1. InQueue(net[<<a, r>>], id) \in Nat
      BY <1>6, <2>2
    <3>2. InQueue(links[<<a, r>>], id)
            = InQueue(net[<<a, r>>], id) - (IF <<a, r>> = l THEN 1 ELSE 0)
      <4>1. <<a, r>>[1] # p
        BY <1>1, <2>2
      <4>2. InQueue(links[<<a, r>>], id)
              = InQueue(net[<<a, r>>], id) - (IF <<a, r>> = l THEN 1 ELSE 0) + 0
        BY <1>6, <2>2, <4>1
      <4> QED
        BY <3>1, <4>2
    <3>3. CASE r # p
      <4>1. <<a, r>> # l
        BY <1>5, <3>3
      <4>2. Tracks(tracker, r, id) = Tracks(fRangeTracker, r, id)
        BY <1>2, <2>2, <3>3 DEF SameElsewhere
      <4> QED
        BY <2>3, <2>5, <3>1, <3>2, <4>1, <4>2 DEF Asked
    <3>4. CASE r = p
      <4>1. GetDirectionFromRank(p, a) = AgentPort(p, id) /\ a \in Neighbours(p)
        BY <2>1, <2>5, <3>4, AgentLink DEF AgentPort, a
      <4>2. Tracks(tracker, p, id) = IF outs = {} THEN 0 ELSE 1
        BY <1>2 DEF StandsFor
      <4>3. CASE id \in DOMAIN fRangeTracker[p]
        <5>1. Tracks(fRangeTracker, p, id) = 1
          BY <4>3 DEF Tracks
        <5> QED
          BY <2>3, <2>5, <3>1, <3>2, <3>4, <4>2, <5>1 DEF Asked
      <4>4. CASE id \notin DOMAIN fRangeTracker[p]
        <5>1. s = a
          BY <1>1, <1>4, <1>5, <4>1, <4>4, OnePortEach
        <5>2. <<a, r>> = l /\ Tracks(fRangeTracker, p, id) = 0
          BY <1>5, <3>4, <4>4, <5>1 DEF Tracks
        <5> QED
          BY <2>3, <2>5, <3>1, <3>2, <3>4, <4>2, <5>2 DEF Asked
      <4> QED
        BY <4>3, <4>4
    <3> QED
      BY <3>3, <3>4
  <2> QED
    BY <2>4, <2>5
<1> QED
  BY <1>7, <1>8 DEF links
-----------------------------------------------------------------------------
(***************************************************************************)
(* The handlers of queries.                                                *)
(***************************************************************************)
\* What is on the links was there before, or is one more message of query id.
LEMMA QueriesExchanged ==
    ASSUME LinksAgree, Inv, NEW l \in Link, NEW i, NEW id, NEW out, NEW tracker, NEW outs,
           Handler(l, i, id, out, tracker, outs)
    PROVE  /\ OwnQueries(Exchanged(l, i, out), queries)
           /\ InTime(Exchanged(l, i, out), fGVT, queries)
<1> DEFINE links == Exchanged(l, i, out)
           p == l[2]
           M == MessageOf(Ids)
<1>1. /\ p \in Clp /\ i \in DOMAIN net[l] /\ net[l][i].type = "query" /\ net[l][i].id = id
      /\ OnlyQueries(out, id)
  BY DEF Handler
<1>2. /\ AreMessages(net, Ids) /\ OwnQueries(net, queries) /\ InTime(net, fGVT, queries)
  BY DEF Inv, Types, NetTypes
<1>3. id \in Ids
  BY <1>1, CameFrom
<1>4. net \in [Link -> Seq(M)] /\ \A d \in DOMAIN out : out[d] \in Seq(M)
  BY <1>1, <1>2, <1>3, MessagesToSend DEF AreMessages, OnlyQueries
<1> HIDE DEF M
<1>5. ASSUME NEW k \in Link, NEW m \in ToSet(links[k])
      PROVE  m \in ToSet(net[k]) \/ (k[1] = p /\ m.id = id)
  <2>1. CASE m \in ToSet(net[k])
    BY <2>1
  <2>2. CASE m \notin ToSet(net[k])
    <3>1. /\ k[1] = l[2] /\ GetDirectionFromRank(k[1], k[2]) \in DOMAIN out
          /\ m \in ToSet(out[GetDirectionFromRank(k[1], k[2])])
      BY <1>1, <1>4, <1>5, <2>2, ExchangedMessages
    <3>2. PICK found \in Found : m \in ToSet(<<Query(id, found)>>)
      BY <1>1, <3>1 DEF OnlyQueries
    <3>3. m = Query(id, found)
      BY <3>2 DEF ToSet
    <3> QED
      BY <3>1, <3>3 DEF Query
  <2> QED
    BY <2>1, <2>2
<1> HIDE DEF links
<1>6. OwnQueries(links, queries)
  <2> SUFFICES ASSUME NEW a \in Alps, NEW m \in ToSet(links[<<a, AlpParent[a]>>]),
                      m.type = "query"
               PROVE  queries[m.id].agent = a
    BY DEF OwnQueries
  <2>1. <<a, AlpParent[a]>> \in Link /\ a # p
    BY <1>1, AgentLink, ClpOrAlp
  <2>2. m \in ToSet(net[<<a, AlpParent[a]>>])
    BY <1>5, <2>1
  <2> QED
    BY <1>2, <2>2 DEF OwnQueries
<1>7. \A q \in Clp : fGVT[q] <= queries[id].time
  <2>1. net[l][i] \in ToSet(net[l])
    BY <1>1 DEF ToSet
  <2> QED
    BY <1>1, <1>2, <2>1 DEF InTime
<1>8. InTime(links, fGVT, queries)
  <2> SUFFICES ASSUME NEW k \in Link, NEW m \in ToSet(links[k]), m.type = "query",
                      NEW q \in Clp
               PROVE  fGVT[q] <= queries[m.id].time
    BY DEF InTime
  <2>1. CASE m \in ToSet(net[k])
    BY <1>2, <2>1 DEF InTime
  <2>2. CASE m.id = id
    BY <1>7, <2>2
  <2> QED
    BY <1>5, <2>1, <2>2
<1> QED
  BY <1>6, <1>8 DEF links

\* A query still finds a period at every port: what waits is what it is passed on to.
LEMMA AllRanged ==
    ASSUME LinksAgree, Inv, NEW p \in Clp, NEW id \in Ids, fGVT[p] <= queries[id].time
    PROVE  /\ Outstanding(p, id) = NotBlocked(p, id) \ {HERE}
           /\ AgentPort(p, id) \notin NotBlocked(p, id)
<1>1. AreTables(fRangeRoutingTable, fGVT, Ids) /\ queries[id].time \in Time
  BY QueryFields DEF Inv, Types, TableTypes
<1>2. Targets(p, id) \subseteq Direction
  BY PortsAreDirections DEF Targets
<1>3. ASSUME NEW d \in Direction
      PROVE  HasRangePeriod(fRangeRoutingTable[p][d], queries[id].time)
  <2>1. PICK list \in Periods(Ids) : list = fRangeRoutingTable[p][d]
    BY <1>1 DEF AreTables
  <2>2. PICK t \in Time : t = queries[id].time
    BY <1>1
  <2>3. list[1].time <= fGVT[p] /\ fGVT[p] \in Nat
    BY <1>1, <2>1, TimesAreNumbers DEF AreTables
  <2>4. 1 \in DOMAIN list /\ list[1].time \in Nat /\ t \in Nat
    BY PeriodsAre, TimesAreNumbers
  <2>5. list[1].time <= t
    BY <2>2, <2>3, <2>4
  <2>6. 1 <= PeriodAt(list, t)
    BY <2>4, <2>5, PeriodAtIs
  <2> QED
    BY <2>1, <2>2, <2>6 DEF HasRangePeriod
<1>4. Ranged(p, id) = Targets(p, id)
  BY <1>2, <1>3 DEF Ranged
<1>5. Outstanding(p, id) = NotBlocked(p, id) \ {HERE}
  BY <1>4 DEF Outstanding
<1>6. NotBlocked(p, id) \subseteq Targets(p, id)
  BY <1>4 DEF NotBlocked
<1> QED
  BY <1>5, <1>6 DEF Targets

\* What is proved of a handler of a query.
Served == /\ Edges' /\ AskedOnce' /\ OwnQueries(net', queries') /\ Origins'
          /\ InTime(net', fGVT', queries')

LEMMA ServedIfHandled ==
    ASSUME LinksAgree, Inv, NEW l \in Link, NEW i, NEW id, NEW out, NEW outs,
           Handler(l, i, id, out, fRangeTracker', outs),
           \A n \in ClpNeighbours(l[2]) : IsBeyond(l[2], n, id)
             => Edge(Exchanged(l, i, out), fRangeTracker', l[2], n, id),
           net' = Exchanged(l, i, out), queries' = queries, fGVT' = fGVT, Origins'
    PROVE  Served
<1>1. PICK tracker : tracker = fRangeTracker'
  OBVIOUS
<1>2. Handler(l, i, id, out, tracker, outs)
  BY <1>1
<1>3. \A n \in ClpNeighbours(l[2]) : IsBeyond(l[2], n, id)
        => Edge(Exchanged(l, i, out), tracker, l[2], n, id)
  BY <1>1
<1>4. /\ \A q \in Clp : \A n \in ClpNeighbours(q), j \in Ids :
                IsBeyond(q, n, j) => Edge(Exchanged(l, i, out), tracker, q, n, j)
      /\ \A j \in Ids : Asked(Exchanged(l, i, out), tracker, queries[j].agent, j)
  BY <1>2, <1>3, EdgesAfter
<1>5. OwnQueries(Exchanged(l, i, out), queries) /\ InTime(Exchanged(l, i, out), fGVT, queries)
  BY <1>2, QueriesExchanged
<1>6. Ids' = Ids /\ \A p, n, j : IsBeyond(p, n, j)' <=> IsBeyond(p, n, j)
  BY DEF Ids, IsBeyond, AgentPort
<1>7. Edges'
  BY <1>1, <1>4, <1>6 DEF Edges
<1>8. AskedOnce'
  BY <1>1, <1>4, <1>6 DEF AskedOnce
<1> QED
  BY <1>5, <1>7, <1>8 DEF Served

LEMMA OriginStays ==
    ASSUME TrackerTypes, Origins, NEW p \in Clp, NEW id, NEW status,
           status.originPort = AgentPort(p, id), queries' = queries,
           fRangeTracker' = [fRangeTracker EXCEPT ![p] = Tracked(p, id, status)]
    PROVE  Origins'
<1> DEFINE mine == Tracked(p, id, status)
<1>1. ASSUME NEW j \in DOMAIN mine
      PROVE  (mine[j] = status /\ j = id)
             \/ (j \in DOMAIN fRangeTracker[p] /\ mine[j] = fRangeTracker[p][j])
  <2>1. CASE status.outstanding = {}
    <3>1. DOMAIN mine = DOMAIN fRangeTracker[p] \ {id}
          /\ \A k \in DOMAIN mine : mine[k] = fRangeTracker[p][k]
      BY <2>1 DEF Tracked
    <3> QED
      BY <1>1, <3>1
  <2>2. CASE status.outstanding # {}
    <3>1. DOMAIN mine = DOMAIN fRangeTracker[p] \cup {id}
          /\ \A k \in DOMAIN mine : mine[k] = IF k = id THEN status ELSE fRangeTracker[p][k]
      BY <2>2 DEF Tracked
    <3> HIDE DEF mine
    <3> QED
      BY <1>1, <3>1
  <2> QED
    BY <2>1, <2>2
<1>2. \A q \in Clp : fRangeTracker'[q] = IF q = p THEN mine ELSE fRangeTracker[q]
  BY DEF TrackerTypes
<1> HIDE DEF mine
<1>3. \A q, j : AgentPort(q, j)' = AgentPort(q, j)
  BY DEF AgentPort
<1>4. ASSUME NEW q \in Clp, NEW j \in DOMAIN fRangeTracker'[q]
      PROVE  fRangeTracker'[q][j].originPort = AgentPort(q, j)
  BY <1>1, <1>2, <1>4 DEF Origins
<1> QED
  BY <1>3, <1>4 DEF Origins

\* The counts of a link beyond the CLP after its handler.
LEMMA CountsBeyond ==
    ASSUME LinksAgree, Inv, NEW l \in Link, NEW i, NEW id, NEW out, NEW tracker, NEW outs,
           Handler(l, i, id, out, tracker, outs), NEW n \in ClpNeighbours(l[2]),
           NEW before, before = Tracks(fRangeTracker, n, id),
           NEW there, there = InQueue(net[<<l[2], n>>], id),
           NEW back, back = InQueue(net[<<n, l[2]>>], id)
    PROVE  /\ there \in Nat /\ back \in Nat /\ before \in {0, 1}
           /\ Edge(Exchanged(l, i, out), tracker, l[2], n, id) <=>
                there + (IF SendsTo(l[2], n, out) THEN 1 ELSE 0)
                  + (back - (IF n = l[1] THEN 1 ELSE 0)) + before
                = (IF GetDirectionFromRank(l[2], n) \in outs THEN 1 ELSE 0)
<1> DEFINE p == l[2]
           s == l[1]
           links == Exchanged(l, i, out)
<1>1. /\ p \in Clp /\ i \in DOMAIN net[l] /\ net[l][i].type = "query" /\ net[l][i].id = id
      /\ OnlyQueries(out, id) /\ SameElsewhere(tracker, p, id) /\ StandsFor(tracker, p, id, outs)
  BY DEF Handler
<1>2. Types /\ AreMessages(net, Ids)
  BY DEF Inv, Types, NetTypes
<1>3. id \in Ids
  BY <1>1, CameFrom
<1>4. l = <<s, p>> /\ s # p
  BY <1>1, LinkEnds, SenderIs
<1>5. n \in Clp /\ n # p /\ <<p, n>> \in Link /\ <<n, p>> \in Link
  BY <1>1, BothWays
<1>6. there \in Nat /\ back \in Nat
  BY <1>2, <1>5, Counts
<1>7. ASSUME NEW k \in Link
      PROVE  InQueue(links[k], id)
               = InQueue(net[k], id) - (IF k = l THEN 1 ELSE 0)
                   + (IF k[1] = p /\ SendsTo(k[1], k[2], out) THEN 1 ELSE 0)
  BY <1>1, <1>2, <1>3, CountsOfQueries
<1> HIDE DEF links
<1>8. InQueue(links[<<p, n>>], id) = there + (IF SendsTo(p, n, out) THEN 1 ELSE 0)
  <2>1. <<p, n>> # l
    BY <1>4
  <2>2. InQueue(links[<<p, n>>], id) = there - 0 + (IF SendsTo(p, n, out) THEN 1 ELSE 0)
    BY <1>5, <1>7, <2>1
  <2> QED
    BY <1>6, <2>2
<1>9. InQueue(links[<<n, p>>], id) = back - (IF n = s THEN 1 ELSE 0)
  <2>1. <<n, p>> = l <=> n = s
    BY <1>4
  <2>2. <<n, p>>[1] # p
    BY <1>5
  <2>3. InQueue(links[<<n, p>>], id) = back - (IF <<n, p>> = l THEN 1 ELSE 0) + 0
    BY <1>5, <1>7, <2>2
  <2> QED
    BY <1>6, <2>1, <2>3
<1>10. Tracks(tracker, n, id) = before /\ before \in {0, 1}
  <2>1. Tracks(tracker, n, id) = before
    BY <1>1, <1>5 DEF SameElsewhere
  <2> QED
    BY <2>1 DEF Tracks
<1>11. Waits(tracker, p, GetDirectionFromRank(p, n), id)
         = IF GetDirectionFromRank(p, n) \in outs THEN 1 ELSE 0
  BY <1>1 DEF StandsFor
<1> QED
  BY <1>6, <1>8, <1>9, <1>10, <1>11 DEF Edge, links

LEMMA NewQueryServed ==
    ASSUME LinksAgree, Inv, NEW l \in Link, l[2] \in Clp, NEW i \in DOMAIN net[l],
           ProcessNewQuery(l[2], l, i), queries' = queries, fGVT' = fGVT
    PROVE  Served
<1> DEFINE p == l[2]
           id == net[l][i].id
           outs == Outstanding(p, id)
           found == IF HERE \in NotBlocked(p, id)
                    THEN RangeRead(p, queries[id].box, queries[id].time) ELSE {}
           status == [originPort |-> AgentPort(p, id), outstanding |-> outs, found |-> found]
           onward == [d \in NotBlocked(p, id) \ {HERE} |-> <<Query(id, {})>>]
           out == IF status.outstanding = {} THEN Reply(id, status) ELSE onward
<1>1. /\ net[l][i].type = "query" /\ id \notin DOMAIN fRangeTracker[p]
      /\ fRangeTracker' = [fRangeTracker EXCEPT ![p] = Tracked(p, id, status)]
      /\ net' = Exchanged(l, i, out)
  BY DEF ProcessNewQuery
<1>2. /\ Types /\ AreQueries(queries) /\ TrackerTypes /\ Edges /\ Origins
      /\ InTime(net, fGVT, queries)
  BY DEF Inv, Types
<1>3. id \in Ids /\ GetDirectionFromRank(p, l[1]) = AgentPort(p, id)
  BY <1>1, CameFrom
<1>4. fGVT[p] <= queries[id].time
  <2>1. net[l][i] \in ToSet(net[l])
    BY DEF ToSet
  <2> QED
    BY <1>1, <1>2, <2>1 DEF InTime
<1>5. outs = NotBlocked(p, id) \ {HERE} /\ AgentPort(p, id) \notin NotBlocked(p, id)
  BY <1>3, <1>4, AllRanged
<1>6. found \in Found /\ {} \in Found
  <2>1. RangeRead(p, queries[id].box, queries[id].time) \in Found
    BY <1>2, <1>3, QueryFields, RangeReadIsFound DEF Types, HistoryTypes
  <2> QED
    BY <2>1, FoundIsClosed
<1>7. status.originPort = AgentPort(p, id) /\ status.outstanding = outs /\ status.found = found
  OBVIOUS
<1>8. /\ DOMAIN out = IF outs = {} THEN {AgentPort(p, id)} ELSE outs
      /\ \A d \in DOMAIN out : \E f \in Found : out[d] = <<Query(id, f)>>
  <2>1. CASE outs = {}
    <3>1. out = [d \in {AgentPort(p, id)} |-> <<Query(id, found)>>]
      <4> HIDE DEF id, outs, found, onward
      <4> QED
        BY <2>1 DEF Reply
    <3> HIDE DEF out, found, id, outs
    <3> QED
      BY <1>6, <2>1, <3>1
  <2>2. CASE outs # {}
    <3>1. out = [d \in outs |-> <<Query(id, {})>>]
      <4>1. out = onward
        BY <2>2
      <4>2. onward = [d \in NotBlocked(p, id) \ {HERE} |-> <<Query(id, {})>>]
        OBVIOUS
      <4> HIDE DEF out, onward, outs
      <4> QED
        BY <1>5, <4>1, <4>2
    <3> HIDE DEF out, found, id, outs
    <3> QED
      BY <1>6, <2>2, <3>1
  <2> QED
    BY <2>1, <2>2
<1> HIDE DEF found, status, onward, out, outs, id
<1>9. OnlyQueries(out, id)
  BY <1>8 DEF OnlyQueries
<1>10. AgentPort(p, id) \in DOMAIN out <=> outs = {}
  BY <1>5, <1>8
<1>11. Handler(l, i, id, out, fRangeTracker', outs)
  <2>1. SameElsewhere(fRangeTracker', p, id) /\ StandsFor(fRangeTracker', p, id, outs)
    BY <1>1, <1>2, <1>7, TrackedStands
  <2> QED
    BY <1>1, <1>9, <1>10, <2>1 DEF Handler, id
<1>12. ASSUME NEW n \in ClpNeighbours(p), IsBeyond(p, n, id)
       PROVE  Edge(Exchanged(l, i, out), fRangeTracker', p, n, id)
  <2>1. PICK tracker : tracker = fRangeTracker'
    OBVIOUS
  <2>2. Handler(l, i, id, out, tracker, outs)
    BY <1>11, <2>1
  <2> DEFINE there == InQueue(net[<<p, n>>], id)
             back == InQueue(net[<<n, p>>], id)
             before == Tracks(fRangeTracker, n, id)
  <2>3. /\ there \in Nat /\ back \in Nat /\ before \in {0, 1}
        /\ Edge(Exchanged(l, i, out), tracker, p, n, id) <=>
             there + (IF SendsTo(p, n, out) THEN 1 ELSE 0)
               + (back - (IF n = l[1] THEN 1 ELSE 0)) + before
             = (IF GetDirectionFromRank(p, n) \in outs THEN 1 ELSE 0)
    BY <2>2, CountsBeyond
  <2>4. there + back + before = 0
    <3>1. Edge(net, fRangeTracker, p, n, id)
      BY <1>2, <1>3, <1>12 DEF Edges
    <3> QED
      BY <1>1, <3>1 DEF Edge, Waits
  <2> HIDE DEF there, back, before
  <2>5. n # l[1]
    BY <1>3, <1>12 DEF IsBeyond
  <2>6. SendsTo(p, n, out) <=> GetDirectionFromRank(p, n) \in outs
    <3>1. GetDirectionFromRank(p, n) # AgentPort(p, id)
      BY <1>12 DEF IsBeyond
    <3> QED
      BY <1>8, <3>1 DEF SendsTo
  <2> QED
    BY <2>1, <2>3, <2>4, <2>5, <2>6
<1>13. Origins'
  BY <1>1, <1>2, <1>7, OriginStays
<1> QED
  BY <1>1, <1>11, <1>12, <1>13, ServedIfHandled

LEMMA ReplyServed ==
    ASSUME LinksAgree, Inv, NEW l \in Link, l[2] \in Clp, NEW i \in DOMAIN net[l],
           ProcessReply(l[2], l, i), queries' = queries, fGVT' = fGVT
    PROVE  Served
<1> DEFINE p == l[2]
           s == l[1]
           id == net[l][i].id
           old == fRangeTracker[p][id]
           outs == old.outstanding \ {GetDirectionFromRank(p, s)}
           found == old.found \cup net[l][i].found
           status == Scanned(p, l, id, net[l][i].found)
           out == Reply(id, status)
<1>1. /\ net[l][i].type = "query" /\ id \in DOMAIN fRangeTracker[p]
      /\ fRangeTracker' = [fRangeTracker EXCEPT ![p] = Tracked(p, id, status)]
      /\ net' = Exchanged(l, i, out)
  BY DEF ProcessReply
<1>2. /\ Types /\ AreQueries(queries) /\ TrackerTypes /\ Edges /\ Origins
      /\ AreMessages(net, Ids)
  BY DEF Inv, Types, NetTypes
<1>3. id \in Ids /\ s \in ClpNeighbours(p) /\ IsBeyond(p, s, id)
  BY <1>1, CameFrom
<1>4. old \in Status /\ old.originPort = AgentPort(p, id)
  BY <1>1, <1>2 DEF TrackerTypes, AreTrackers, Origins
<1>5. status.originPort = AgentPort(p, id) /\ status.outstanding = outs /\ status.found = found
  <2>1. status = [old EXCEPT !.outstanding = @ \ {GetDirectionFromRank(p, l[1])},
                             !.found = @ \cup net[l][i].found]
    BY DEF Scanned
  <2> HIDE DEF status, old
  <2> QED
    BY <1>4, <2>1 DEF Status
<1>6. found \in Found
  <2>1. net[l][i] \in MessageOf(Ids)
    BY <1>2 DEF AreMessages
  <2>2. net[l][i].found \in Found
    BY <1>1, <2>1, MessageFields
  <2>3. old.found \in Found
    BY <1>4 DEF Status
  <2> HIDE DEF old
  <2> QED
    BY <2>2, <2>3, FoundIsClosed
<1>7. /\ DOMAIN out = IF outs = {} THEN {AgentPort(p, id)} ELSE {}
      /\ \A d \in DOMAIN out : \E f \in Found : out[d] = <<Query(id, f)>>
  <2> HIDE DEF status, outs, found, id
  <2> QED
    BY <1>5, <1>6 DEF Reply
<1> HIDE DEF found, status, out, outs, id, old
<1>8. OnlyQueries(out, id) /\ (AgentPort(p, id) \in DOMAIN out <=> outs = {})
  BY <1>7 DEF OnlyQueries
<1>9. Handler(l, i, id, out, fRangeTracker', outs)
  <2>1. SameElsewhere(fRangeTracker', p, id) /\ StandsFor(fRangeTracker', p, id, outs)
    BY <1>1, <1>2, <1>5, TrackedStands
  <2> QED
    BY <1>1, <1>8, <2>1 DEF Handler, id
<1>10. ASSUME NEW n \in ClpNeighbours(p), IsBeyond(p, n, id)
       PROVE  Edge(Exchanged(l, i, out), fRangeTracker', p, n, id)
  <2>1. PICK tracker : tracker = fRangeTracker'
    OBVIOUS
  <2>2. Handler(l, i, id, out, tracker, outs)
    BY <1>9, <2>1
  <2> DEFINE there == InQueue(net[<<p, n>>], id)
             back == InQueue(net[<<n, p>>], id)
             before == Tracks(fRangeTracker, n, id)
  <2>3. /\ there \in Nat /\ back \in Nat /\ before \in {0, 1}
        /\ Edge(Exchanged(l, i, out), tracker, p, n, id) <=>
             there + (IF SendsTo(p, n, out) THEN 1 ELSE 0)
               + (back - (IF n = s THEN 1 ELSE 0)) + before
             = (IF GetDirectionFromRank(p, n) \in outs THEN 1 ELSE 0)
    BY <2>2, CountsBeyond
  <2>4. there + back + before = IF GetDirectionFromRank(p, n) \in old.outstanding THEN 1 ELSE 0
    <3>1. Edge(net, fRangeTracker, p, n, id)
      BY <1>2, <1>3, <1>10 DEF Edges
    <3> QED
      BY <1>1, <3>1 DEF Edge, Waits, old
  <2>5. ~SendsTo(p, n, out)
    <3>1. GetDirectionFromRank(p, n) # AgentPort(p, id)
      BY <1>10 DEF IsBeyond
    <3> QED
      BY <1>7, <3>1 DEF SendsTo
  <2>6. n = s => back >= 1
    <3>1. l = <<s, p>>
      BY LinkEnds
    <3>2. InQueue(net[l], id) >= 1
      BY <1>1, <1>2, Counts DEF id
    <3> QED
      BY <3>1, <3>2
  <2>7. GetDirectionFromRank(p, n) \in outs
          <=> GetDirectionFromRank(p, n) \in old.outstanding /\ n # s
    <3>1. n \in Neighbours(p) /\ s \in Neighbours(p)
      BY <1>3 DEF ClpNeighbours
    <3>2. GetDirectionFromRank(p, n) = GetDirectionFromRank(p, s) => n = s
      BY <3>1, OnePortEach
    <3> QED
      BY <3>2 DEF outs
  <2> HIDE DEF there, back, before
  <2>8. CASE n = s
    <3>1. there = 0 /\ back = 1 /\ before = 0
      BY <2>3, <2>4, <2>6, <2>8
    <3> QED
      BY <2>1, <2>3, <2>5, <2>7, <2>8, <3>1
  <2>9. CASE n # s
    BY <2>1, <2>3, <2>4, <2>5, <2>7, <2>9
  <2> QED
    BY <2>8, <2>9
<1>11. Origins'
  BY <1>1, <1>2, <1>5, OriginStays
<1> QED
  BY <1>1, <1>9, <1>10, <1>11, ServedIfHandled

-----------------------------------------------------------------------------
(***************************************************************************)
(* The other steps: queries that no CLP takes stay where they are.         *)
(***************************************************************************)
SameQueries(links) ==
    \A k \in Link :
      /\ k[2] \in Clp => \A id \in Ids : InQueue(links[k], id) = InQueue(net[k], id)
      /\ \A m \in ToSet(links[k]) : m.type = "query" => m \in ToSet(net[k])

LEMMA ServedIfSame ==
    ASSUME LinksAgree, Inv, NEW links, SameQueries(links), net' = links,
           fRangeTracker' = fRangeTracker, queries' = queries, fGVT' = fGVT
    PROVE  Served
<1>1. /\ Edges /\ AskedOnce /\ OwnQueries(net, queries) /\ Origins /\ InTime(net, fGVT, queries)
      /\ AreQueries(queries)
  BY DEF Inv, Types
<1>2. Ids' = Ids /\ \A p, n, j : IsBeyond(p, n, j)' <=> IsBeyond(p, n, j)
  BY DEF Ids, IsBeyond, AgentPort
<1>3. Edges'
  <2>1. ASSUME NEW p \in Clp, NEW n \in ClpNeighbours(p), NEW id \in Ids, IsBeyond(p, n, id)
        PROVE  Edge(links, fRangeTracker, p, n, id)
    <3>1. <<p, n>> \in Link /\ <<n, p>> \in Link /\ n \in Clp
      BY BothWays
    <3>2. InQueue(links[<<p, n>>], id) = InQueue(net[<<p, n>>], id)
          /\ InQueue(links[<<n, p>>], id) = InQueue(net[<<n, p>>], id)
      BY <3>1 DEF SameQueries
    <3>3. Edge(net, fRangeTracker, p, n, id)
      BY <1>1, <2>1 DEF Edges
    <3> QED
      BY <3>2, <3>3 DEF Edge
  <2> QED
    BY <1>2, <2>1 DEF Edges
<1>4. AskedOnce'
  <2>1. ASSUME NEW id \in Ids PROVE Asked(links, fRangeTracker, queries[id].agent, id)
    <3>1. PICK a \in Alps : a = queries[id].agent
      BY <1>1, QueryFields
    <3>2. <<a, AlpParent[a]>> \in Link /\ AlpParent[a] \in Clp
      BY AgentLink
    <3>3. InQueue(links[<<a, AlpParent[a]>>], id) = InQueue(net[<<a, AlpParent[a]>>], id)
      BY <3>2 DEF SameQueries
    <3>4. Asked(net, fRangeTracker, a, id)
      BY <1>1, <3>1 DEF AskedOnce
    <3> QED
      BY <3>1, <3>3, <3>4 DEF Asked
  <2> QED
    BY <1>2, <2>1 DEF AskedOnce
<1>5. OwnQueries(links, queries)
  BY <1>1, AgentLink DEF OwnQueries, SameQueries
<1>6. InTime(links, fGVT, queries)
  BY <1>1 DEF InTime, SameQueries
<1>7. Origins'
  BY <1>1 DEF Origins, AgentPort
<1> QED
  BY <1>3, <1>4, <1>5, <1>6, <1>7 DEF Served

LEMMA ExchangedSame ==
    ASSUME LinksAgree, Inv, NEW l \in Link, NEW i \in DOMAIN net[l], net[l][i].type # "query",
           NEW out, NoQueries(out, Ids)
    PROVE  SameQueries(Exchanged(l, i, out))
<1> DEFINE M == MessageOf(Ids)
           links == Exchanged(l, i, out)
<1>1. AreMessages(net, Ids)
  BY DEF Inv, Types, NetTypes
<1>2. \A d \in DOMAIN out : out[d] \in Seq(M) /\ \A m \in ToSet(out[d]) : m.type # "query"
  BY DEF NoQueries
<1>3. net \in [Link -> Seq(M)]
  BY <1>1 DEF AreMessages
<1>4. ASSUME NEW k \in Link, NEW id PROVE InQueue(links[k], id) = InQueue(net[k], id)
  BY <1>1, CountsOfOthers
<1> HIDE DEF M
<1>5. ASSUME NEW k \in Link, NEW m \in ToSet(links[k]), m.type = "query"
      PROVE  m \in ToSet(net[k])
  <2>1. \/ m \in ToSet(net[k])
        \/ /\ k[1] = l[2] /\ GetDirectionFromRank(k[1], k[2]) \in DOMAIN out
           /\ m \in ToSet(out[GetDirectionFromRank(k[1], k[2])])
    BY <1>2, <1>3, ExchangedMessages
  <2> QED
    BY <1>2, <1>5, <2>1
<1> QED
  BY <1>4, <1>5 DEF SameQueries

LEMMA SentSame ==
    ASSUME LinksAgree, Inv, NEW p, NEW out, NoQueries(out, Ids)
    PROVE  SameQueries(Sent(p, out))
<1> DEFINE M == MessageOf(Ids)
           links == Sent(p, out)
<1>1. net \in [Link -> Seq(M)]
  BY DEF Inv, Types, NetTypes, AreMessages
<1>2. \A d \in DOMAIN out : out[d] \in Seq(M) /\ \A m \in ToSet(out[d]) : m.type # "query"
  BY DEF NoQueries
<1>3. \A k \in Link : links[k] = net[k] \o OutOn(k, p, out)
  BY DEF Sent, OutOn
<1> HIDE DEF M, links
<1>4. ASSUME NEW k \in Link
      PROVE  /\ net[k] \in Seq(M) /\ OutOn(k, p, out) \in Seq(M)
             /\ \A m \in ToSet(OutOn(k, p, out)) : m.type # "query"
  <2>1. OutOn(k, p, out) \in Seq(M)
    BY <1>2, OutOnIsSeq
  <2>2. ToSet(<<>>) = {}
    BY DEF ToSet
  <2> QED
    BY <1>1, <1>2, <2>1, <2>2 DEF OutOn
<1>5. ASSUME NEW k \in Link, NEW id PROVE InQueue(links[k], id) = InQueue(net[k], id)
  <2>1. \A m \in ToSet(OutOn(k, p, out)) : ~(m.type = "query" /\ m.id = id)
    BY <1>4
  <2>2. InQueue(net[k] \o OutOn(k, p, out), id) = InQueue(net[k], id)
    BY <1>4, <2>1, CountOfOthersAdded
  <2> QED
    BY <1>3, <2>2
<1>6. ASSUME NEW k \in Link, NEW m \in ToSet(links[k]), m.type = "query"
      PROVE  m \in ToSet(net[k])
  <2>1. m \in ToSet(net[k]) \/ m \in ToSet(OutOn(k, p, out))
    <3>1. m \in ToSet(net[k] \o OutOn(k, p, out))
      BY <1>3, <1>6
    <3> QED
      BY <1>4, <3>1, ToSetOfConcat
  <2> QED
    BY <1>4, <1>6, <2>1
<1> QED
  BY <1>5, <1>6 DEF SameQueries, links

LEMMA UpdatesAreNoQueries ==
    ASSUME NEW p, NEW updates \in Seq(Announcement), NEW source
    PROVE  NoQueries(SendRangeUpdates(p, updates, source), Ids)
<1> DEFINE out == SendRangeUpdates(p, updates, source)
           sent == [i \in DOMAIN updates |-> [type |-> "update", time |-> updates[i].time,
                                              range |-> updates[i].range]]
<1>1. MaySend(p, out, Ids)
  BY UpdatesMayBeSent
<1>2. \A d \in DOMAIN out : out[d] = sent
  BY DEF SendRangeUpdates
<1>3. \A m \in ToSet(sent) : m.type # "query"
  BY DEF ToSet
<1> HIDE DEF out, sent
<1> QED
  BY <1>1, <1>2, <1>3 DEF MaySend, NoQueries, out

LEMMA AntiServed ==
    ASSUME LinksAgree, Inv, NEW l \in Link, l[2] \in Clp, NEW i \in DOMAIN net[l],
           ProcessAntiMessage(l[2], l, i), queries' = queries, fGVT' = fGVT
    PROVE  Served
<1> DEFINE p == l[2]
           id == net[l][i].id
           late == fGVT[p] > queries[id].time
           m == <<[type |-> "anti", id |-> id]>>
           onward == [d \in Onward(p, id) \ {HERE} |-> m]
           out == IF late THEN <<>> ELSE onward
<1>1. net[l][i].type = "anti" /\ net' = Exchanged(l, i, out) /\ fRangeTracker' = fRangeTracker
  BY DEF ProcessAntiMessage
<1>2. id \in Ids
  <2>1. net[l][i] \in MessageOf(Ids)
    BY DEF Inv, Types, NetTypes, AreMessages
  <2> QED
    BY <1>1, <2>1, MessageFields
<1>3. m \in Seq(MessageOf(Ids)) /\ \A e \in ToSet(m) : e.type # "query"
  <2>1. \A e \in ToSet(m) : e.type = "anti"
    BY DEF ToSet
  <2> QED
    BY <1>2, <2>1, MessagesToSend
<1>4. NoQueries(out, Ids)
  <2>1. DOMAIN <<>> = {}
    OBVIOUS
  <2>2. \A d \in DOMAIN onward : onward[d] = m
    OBVIOUS
  <2> HIDE DEF onward, m
  <2> QED
    BY <1>3, <2>1, <2>2 DEF NoQueries
<1> HIDE DEF out
<1>5. SameQueries(Exchanged(l, i, out))
  BY <1>1, <1>4, ExchangedSame
<1> QED
  BY <1>1, <1>5, ServedIfSame

LEMMA UpdateServed ==
    ASSUME LinksAgree, Inv, NEW l \in Link, l[2] \in Clp, NEW i \in DOMAIN net[l],
           ProcessRangeUpdate(l[2], l, i), queries' = queries, fGVT' = fGVT
    PROVE  Served
<1> DEFINE p == l[2]
           m == net[l][i]
           source == GetDirectionFromRank(p, l[1])
           updates == Announced(fRangeRoutingTable[p][source], m.time, m.range)
           out == SendRangeUpdates(p, updates, source)
<1>1. m.type = "update" /\ net' = Exchanged(l, i, out) /\ fRangeTracker' = fRangeTracker
  BY DEF ProcessRangeUpdate
<1>2. m.time \in Time /\ m.range \in AnyRange
  <2>1. m \in MessageOf(Ids)
    BY DEF Inv, Types, NetTypes, AreMessages
  <2> QED
    BY <1>1, <2>1, MessageFields
<1>3. updates \in Seq(Announcement)
  BY <1>2, AnnouncedIs
<1>4. NoQueries(out, Ids)
  BY <1>3, UpdatesAreNoQueries
<1> HIDE DEF out
<1>5. SameQueries(Exchanged(l, i, out))
  BY <1>1, <1>4, ExchangedSame
<1> QED
  BY <1>1, <1>5, ServedIfSame

LEMMA WriteServed ==
    ASSUME LinksAgree, Inv, SendsUpdates
    PROVE  Served
<1>1. PICK p \in Clp, updates \in Seq(Announcement) :
        net' = Sent(p, SendRangeUpdates(p, updates, HERE))
  BY DEF SendsUpdates
<1>2. SameQueries(Sent(p, SendRangeUpdates(p, updates, HERE)))
  BY UpdatesAreNoQueries, SentSame
<1>3. UNCHANGED <<fGVT, fRangeTracker, queries>>
  BY DEF SendsUpdates
<1> QED
  BY <1>1, <1>2, <1>3, ServedIfSame

LEMMA AnswerServed ==
    ASSUME LinksAgree, Inv, NEW a \in Alps, ReceiveAnswer(a)
    PROVE  Served
<1> DEFINE l == <<AlpParent[a], a>>
<1>1. /\ net[l] # <<>> /\ net' = [net EXCEPT ![l] = Tail(@)]
      /\ UNCHANGED <<fGVT, fRangeTracker, queries>>
  BY DEF ReceiveAnswer
<1>2. l \in Link /\ net \in [Link -> Seq(MessageOf(Ids))] /\ l[2] \notin Clp
  BY AgentLink, ClpOrAlp DEF Inv, Types, NetTypes, AreMessages
<1>3. ToSet(Tail(net[l])) \subseteq ToSet(net[l])
  <2>1. PICK s \in Seq(MessageOf(Ids)) : s = net[l]
    BY <1>2
  <2> QED
    BY <1>1, <2>1, ToSetOfTail
<1>4. PICK links : links = net'
  OBVIOUS
<1>5. \A k \in Link : links[k] = IF k = l THEN Tail(net[l]) ELSE net[k]
  BY <1>1, <1>2, <1>4
<1> HIDE DEF l
<1>6. SameQueries(links)
  BY <1>2, <1>3, <1>5 DEF SameQueries
<1> QED
  BY <1>1, <1>4, <1>6, ServedIfSame

LEMMA RollbackServed ==
    ASSUME LinksAgree, Inv, NEW a \in Alps, NEW t \in QueryTime, ProcessRollback(a, t)
    PROVE  Served
<1> DEFINE l == <<a, AlpParent[a]>>
           M == MessageOf(Ids)
<1>1. PICK anti \in Seq(M) : /\ \A m \in ToSet(anti) : m.type = "anti"
                             /\ net' = [net EXCEPT ![l] = @ \o anti]
  BY RollbackSends DEF Inv
<1>2. UNCHANGED <<fGVT, fRangeTracker, queries>>
  BY DEF ProcessRollback
<1>3. l \in Link /\ net \in [Link -> Seq(M)]
  BY AgentLink DEF Inv, Types, NetTypes, AreMessages
<1>4. PICK links : links = net'
  OBVIOUS
<1> HIDE DEF l, M
<1>5. \A k \in Link : links[k] = IF k = l THEN net[l] \o anti ELSE net[k]
  BY <1>1, <1>3, <1>4
<1>6. net[l] \in Seq(M)
  BY <1>3
<1>7. \A id : InQueue(net[l] \o anti, id) = InQueue(net[l], id)
  <2> SUFFICES ASSUME NEW id PROVE InQueue(net[l] \o anti, id) = InQueue(net[l], id)
    OBVIOUS
  <2>1. \A m \in ToSet(anti) : ~(m.type = "query" /\ m.id = id)
    BY <1>1
  <2> QED
    BY <1>6, <2>1, CountOfOthersAdded
<1>8. ToSet(net[l] \o anti) = ToSet(net[l]) \cup ToSet(anti)
  BY <1>6, ToSetOfConcat
<1>9. SameQueries(links)
  BY <1>1, <1>5, <1>7, <1>8 DEF SameQueries
<1> QED
  BY <1>2, <1>4, <1>9, ServedIfSame

\* The GVT is not after what is counted, so after no query under way.
LEMMA GvtServed ==
    ASSUME LinksAgree, Inv, NEW p \in Clp, NEW t \in GvtTime, SetGvt(p, t)
    PROVE  Served
<1>1. /\ Edges /\ AskedOnce /\ OwnQueries(net, queries) /\ Origins /\ InTime(net, fGVT, queries)
      /\ fGVT \in [Clp -> Time]
  BY DEF Inv, Types, TableTypes, AreTables
<1>2. /\ fGVT' = [fGVT EXCEPT ![p] = t] /\ Promised(t)
      /\ UNCHANGED <<fRangeTracker, net, queries>>
  BY DEF SetGvt
<1>3. Edges' /\ AskedOnce'
  BY <1>1, <1>2 DEF Edges, AskedOnce, Ids, IsBeyond, AgentPort
<1>4. OwnQueries(net', queries') /\ Origins'
  BY <1>1, <1>2 DEF Origins, AgentPort
<1>5. InTime(net, fGVT', queries)
  BY <1>1, <1>2 DEF InTime, Promised
<1> QED
  BY <1>2, <1>3, <1>4, <1>5 DEF Served

\* A new query has a new identifier, which no message and no tracker knows.
LEMMA QueryServed ==
    ASSUME LinksAgree, Inv, NEW a \in Alps, NEW t \in QueryTime, NEW box \in Box,
           RangeQuery(a, t, box)
    PROVE  Served
<1> DEFINE q == [agent |-> a, time |-> t, box |-> box]
           new == Len(queries) + 1
           m == Query(new, {})
           l == <<a, AlpParent[a]>>
           M == MessageOf(Ids)
<1>1. /\ queries' = Append(queries, q) /\ net' = [net EXCEPT ![l] = Append(@, m)]
      /\ NotBeforeGvt(t) /\ UNCHANGED <<fGVT, fRangeTracker>>
  BY DEF RangeQuery
<1>2. /\ Types /\ Edges /\ AskedOnce /\ OwnQueries(net, queries) /\ Origins
      /\ InTime(net, fGVT, queries) /\ AreQueries(queries)
  BY DEF Inv, Types
<1>3. PICK n \in Nat : n = Len(queries) /\ Ids = 1..n
  BY <1>2 DEF AreQueries, Ids
<1>4. PICK links, asked : links = net' /\ asked = queries'
  OBVIOUS
<1>5. /\ new \notin Ids /\ new = n + 1
      /\ \A j : j \in 1..(n + 1) <=> j \in Ids \/ j = new
  BY <1>3
<1>6. /\ Ids' = 1..(n + 1) /\ asked[new] = q
      /\ \A j \in Ids : asked[j] = queries[j]
  <2>1. queries \in Seq(RangeQueryOf)
    BY <1>2 DEF AreQueries
  <2> HIDE DEF q
  <2> QED
    BY <1>1, <1>3, <1>4, <2>1 DEF Ids
<1>7. q.agent = a /\ q.time = t
  OBVIOUS
<1>8. m.type = "query" /\ m.id = new
  BY DEF Query
<1>9. l \in Link /\ net \in [Link -> Seq(M)] /\ AlpParent[a] \in Clp /\ l[1] \notin Clp
  BY <1>2, AgentLink, ClpOrAlp DEF Types, NetTypes, AreMessages
<1> HIDE DEF q, m, M, l, new
<1>10. \A k \in Link : links[k] = IF k = l THEN Append(net[l], m) ELSE net[k]
  BY <1>1, <1>4, <1>9
<1>11. Append(net[l], m) = net[l] \o <<m>> /\ net[l] \in Seq(M \cup {m})
  BY <1>9
<1>12. ASSUME NEW k \in Link, NEW e \in ToSet(links[k])
       PROVE  e \in ToSet(net[k]) \/ (k = l /\ e = m)
  <2>1. CASE k # l
    BY <1>10, <1>12, <2>1
  <2>2. CASE k = l
    <3>1. ToSet(<<m>>) = {m}
      BY DEF ToSet
    <3>2. PICK S : net[l] \in Seq(S) /\ <<m>> \in Seq(S)
      BY <1>11
    <3>3. ToSet(net[l] \o <<m>>) = ToSet(net[l]) \cup ToSet(<<m>>)
      BY ZenonT(30), <3>2, ToSetOfConcat
    <3> QED
      BY <1>10, <1>11, <1>12, <2>2, <3>1, <3>3
  <2> QED
    BY <2>1, <2>2
<1>13. ASSUME NEW k \in Link, NEW e \in ToSet(net[k]), e.type = "query" PROVE e.id \in Ids
  <2>1. net[k] \in Seq(MessageOf(Ids))
    BY <1>9 DEF M
  <2>2. e \in MessageOf(Ids)
    BY <1>13, <2>1 DEF ToSet
  <2> QED
    BY <1>13, <2>2, MessageFields
<1>14. ASSUME NEW k \in Link, NEW j \in Ids PROVE InQueue(links[k], j) = InQueue(net[k], j)
  <2>1. CASE k # l
    BY <1>10, <2>1
  <2>2. CASE k = l
    <3>1. \A e \in ToSet(<<m>>) : ~(e.type = "query" /\ e.id = j)
      BY <1>5, <1>8 DEF ToSet
    <3>2. <<m>> \in Seq(M \cup {m})
      OBVIOUS
    <3>3. InQueue(net[l] \o <<m>>, j) = InQueue(net[l], j)
      BY <1>11, <3>1, <3>2, CountOfOthersAdded
    <3> QED
      BY <1>10, <1>11, <2>2, <3>3
  <2> QED
    BY <2>1, <2>2
<1>15. ASSUME NEW k \in Link PROVE InQueue(net[k], new) = 0
  <2>1. Places(net[k], new) = {}
    BY <1>5, <1>13 DEF Places, ToSet
  <2> QED
    BY <2>1, FS_EmptySet DEF InQueue
<1>16. ASSUME NEW k \in Link PROVE InQueue(links[k], new) = IF k = l THEN 1 ELSE 0
  <2>1. CASE k # l
    BY <1>10, <1>15, <2>1
  <2>2. CASE k = l
    <3>1. InQueue(net[l] \o <<m>>, new) = InQueue(net[l], new) + 1
      BY <1>8, <1>11, CountOfOneAdded
    <3> QED
      BY <1>9, <1>10, <1>11, <1>15, <2>2, <3>1
  <2> QED
    BY <2>1, <2>2
<1>17. \A p \in Clp : DOMAIN fRangeTracker[p] \subseteq Ids
  BY <1>2 DEF Types, TrackerTypes, AreTrackers
<1>18. \A p \in Clp : /\ Tracks(fRangeTracker, p, new) = 0
                     /\ \A d : Waits(fRangeTracker, p, d, new) = 0
  BY <1>5, <1>17 DEF Tracks, Waits
<1>19. \A p : \A j \in Ids : GetDirectionFromRank(p, asked[j].agent) = AgentPort(p, j)
  BY <1>6 DEF AgentPort
<1>20. ASSUME NEW p \in Clp, NEW r \in ClpNeighbours(p), NEW j \in 1..(n + 1),
              GetDirectionFromRank(p, r) # GetDirectionFromRank(p, asked[j].agent)
       PROVE  Edge(links, fRangeTracker, p, r, j)
  <2>1. <<p, r>> \in Link /\ <<r, p>> \in Link /\ r \in Clp
    BY BothWays
  <2>2. CASE j \in Ids
    <3>1. IsBeyond(p, r, j)
      BY <1>19, <1>20, <2>2 DEF IsBeyond
    <3>2. Edge(net, fRangeTracker, p, r, j)
      BY <1>2, <2>2, <3>1 DEF Edges
    <3> QED
      BY <1>14, <2>1, <2>2, <3>2 DEF Edge
  <2>3. CASE j = new
    <3>1. <<p, r>> # l /\ <<r, p>> # l
      BY <1>9, <2>1
    <3>2. InQueue(links[<<p, r>>], new) = 0 /\ InQueue(links[<<r, p>>], new) = 0
      BY <1>16, <2>1, <3>1
    <3> QED
      BY <1>18, <2>1, <2>3, <3>2 DEF Edge
  <2> QED
    BY <1>5, <2>2, <2>3
<1>21. ASSUME NEW j \in 1..(n + 1) PROVE Asked(links, fRangeTracker, asked[j].agent, j)
  <2>1. CASE j \in Ids
    <3>1. PICK b \in Alps : b = queries[j].agent
      BY <1>2, <2>1, QueryFields
    <3>2. <<b, AlpParent[b]>> \in Link
      BY AgentLink
    <3>3. Asked(net, fRangeTracker, b, j)
      BY <1>2, <2>1, <3>1 DEF AskedOnce
    <3>4. asked[j].agent = b
      BY <1>6, <2>1, <3>1
    <3> QED
      BY <1>14, <2>1, <3>2, <3>3, <3>4 DEF Asked
  <2>2. CASE j = new
    <3>1. asked[j].agent = a
      BY <1>6, <1>7, <2>2
    <3>2. InQueue(links[<<a, AlpParent[a]>>], new) = 1
      BY <1>9, <1>16 DEF l
    <3>3. Tracks(fRangeTracker, AlpParent[a], new) = 0
      BY <1>9, <1>18
    <3>4. Asked(links, fRangeTracker, a, new)
      BY <3>2, <3>3 DEF Asked
    <3> QED
      BY <2>2, <3>1, <3>4
  <2> QED
    BY <1>5, <2>1, <2>2
<1>22. OwnQueries(links, asked)
  <2> SUFFICES ASSUME NEW b \in Alps, NEW e \in ToSet(links[<<b, AlpParent[b]>>]),
                      e.type = "query"
               PROVE  asked[e.id].agent = b
    BY DEF OwnQueries
  <2>1. <<b, AlpParent[b]>> \in Link
    BY AgentLink
  <2>2. CASE e \in ToSet(net[<<b, AlpParent[b]>>])
    BY <1>2, <1>6, <1>13, <2>1, <2>2 DEF OwnQueries
  <2>3. CASE <<b, AlpParent[b]>> = l /\ e = m
    BY <1>6, <1>7, <1>8, <2>3 DEF l
  <2> QED
    BY <1>12, <2>1, <2>2, <2>3
<1>23. InTime(links, fGVT, asked)
  <2> SUFFICES ASSUME NEW k \in Link, NEW e \in ToSet(links[k]), e.type = "query",
                      NEW p \in Clp
               PROVE  fGVT[p] <= asked[e.id].time
    BY DEF InTime
  <2>1. CASE e \in ToSet(net[k])
    BY <1>2, <1>6, <1>13, <2>1 DEF InTime
  <2>2. CASE e = m
    <3>1. t >= fGVT[p]
      BY <1>1 DEF NotBeforeGvt
    <3>2. t \in Nat /\ fGVT[p] \in Nat
      BY <1>2, ConstantsAssumption, TimesAreNumbers DEF Types, TableTypes, AreTables
    <3> QED
      BY <1>6, <1>7, <1>8, <2>2, <3>1, <3>2
  <2> QED
    BY <1>12, <2>1, <2>2
<1>24. Edges'
  BY <1>1, <1>4, <1>6, <1>20 DEF Edges, IsBeyond, AgentPort
<1>25. AskedOnce'
  BY <1>1, <1>4, <1>6, <1>21 DEF AskedOnce
<1>26. \A p \in Clp : \A j \in DOMAIN fRangeTracker[p] :
         fRangeTracker[p][j].originPort = GetDirectionFromRank(p, asked[j].agent)
  BY <1>2, <1>17, <1>19 DEF Origins
<1>27. Origins'
  BY <1>1, <1>4, <1>26 DEF Origins, AgentPort
<1> QED
  BY <1>1, <1>4, <1>22, <1>23, <1>24, <1>25, <1>27 DEF Served
-----------------------------------------------------------------------------
(***************************************************************************)
(* One reply per port.                                                     *)
(***************************************************************************)
LEMMA ReceiveServed ==
    ASSUME LinksAgree, Inv, NEW p \in Clp, Receive(p)
    PROVE  Served
<1>1. PICK l \in Link : /\ l[2] = p
                       /\ \E i \in Receivable(net[l]) :
                            \/ ProcessNewQuery(p, l, i) \/ ProcessReply(p, l, i)
                            \/ ProcessAntiMessage(p, l, i) \/ ProcessRangeUpdate(p, l, i)
  BY DEF Receive
<1>2. PICK i \in Receivable(net[l]) :
        \/ ProcessNewQuery(p, l, i) \/ ProcessReply(p, l, i)
        \/ ProcessAntiMessage(p, l, i) \/ ProcessRangeUpdate(p, l, i)
  BY <1>1
<1>3. queries' = queries /\ fGVT' = fGVT
  BY DEF Receive
<1>4. i \in DOMAIN net[l]
  <2>1. net[l] \in Seq(MessageOf(Ids))
    BY DEF Inv, Types, NetTypes, AreMessages
  <2> QED
    BY <2>1, ReceivableIsThere
<1>5. CASE ProcessNewQuery(p, l, i)
  BY <1>1, <1>3, <1>4, <1>5, NewQueryServed
<1>6. CASE ProcessReply(p, l, i)
  BY <1>1, <1>3, <1>4, <1>6, ReplyServed
<1>7. CASE ProcessAntiMessage(p, l, i)
  BY <1>1, <1>3, <1>4, <1>7, AntiServed
<1>8. CASE ProcessRangeUpdate(p, l, i)
  BY <1>1, <1>3, <1>4, <1>8, UpdateServed
<1> QED
  BY <1>2, <1>5, <1>6, <1>7, <1>8

LEMMA StartInv ==
    ASSUME LinksAgree, Init
    PROVE  Inv
<1>1. Types /\ AreMessages(net, Ids)
  BY StartTypes DEF Types, NetTypes
<1>2. queries = <<>> /\ fRangeTracker = [p \in Clp |-> <<>>]
  BY DEF Init
<1>3. Ids = {}
  BY <1>2 DEF Ids
<1>4. \A l \in Link : \A m \in ToSet(net[l]) : m.type # "query"
  <2> SUFFICES ASSUME NEW l \in Link, NEW m \in ToSet(net[l]) PROVE m.type # "query"
    OBVIOUS
  <2>1. net[l] \in Seq(MessageOf(Ids))
    BY <1>1 DEF AreMessages
  <2>2. m \in MessageOf(Ids)
    BY <2>1 DEF ToSet
  <2> QED
    BY <1>3, <2>2, MessageFields
<1>5. Edges /\ AskedOnce
  BY <1>3 DEF Edges, AskedOnce
<1>6. OwnQueries(net, queries) /\ InTime(net, fGVT, queries)
  BY <1>4, AgentLink DEF OwnQueries, InTime
<1>7. Origins
  BY <1>2 DEF Origins
<1> QED
  BY <1>1, <1>5, <1>6, <1>7 DEF Inv

LEMMA StepInv ==
    ASSUME LinksAgree, Inv, [Next]_vars
    PROVE  Inv'
<1>1. Types
  BY DEF Inv
<1>2. Types'
  BY <1>1, StepTypes
<1>3. CASE UNCHANGED vars
  BY <1>2, <1>3 DEF Inv, vars, Edges, AskedOnce, Origins, Ids, IsBeyond, AgentPort
<1>4. ASSUME Served PROVE Inv'
  BY <1>2, <1>4 DEF Served, Inv
<1>5. ASSUME NEW a \in Alps, NEW t \in QueryTime, NEW box \in Box, RangeQuery(a, t, box)
      PROVE  Inv'
  BY <1>4, <1>5, QueryServed
<1>6. ASSUME NEW a \in Alps, NEW t \in QueryTime, ProcessRollback(a, t) PROVE Inv'
  BY <1>4, <1>6, RollbackServed
<1>7. ASSUME NEW a \in Alps, ReceiveAnswer(a) PROVE Inv'
  BY <1>4, <1>7, AnswerServed
<1>8. ASSUME NEW p \in Clp, Receive(p) PROVE Inv'
  BY <1>4, <1>8, ReceiveServed
<1>9. ASSUME NEW p \in Clp, NEW t \in GvtTime, SetGvt(p, t) PROVE Inv'
  BY <1>4, <1>9, GvtServed
<1>10. ASSUME NEW v \in Ssv, NEW t \in WriteTime,
              \/ \E q \in Position[v] : WriteWithRollback(v, t, q)
              \/ RollbackWrite(v, t)
       PROVE  Inv'
  <2>1. SendsUpdates
    BY <1>1, <1>10, WriteTypes
  <2> QED
    BY <1>4, <2>1, WriteServed
<1> QED
  BY <1>3, <1>5, <1>6, <1>7, <1>8, <1>9, <1>10 DEF Next

LEMMA InvIsEnough ==
    ASSUME LinksAgree, Inv
    PROVE  OneReplyPerPort
<1> SUFFICES ASSUME NEW p \in Clp, NEW id \in DOMAIN queries,
                    NEW d \in ClpPorts(p) \ {AgentPort(p, id)}
             PROVE  LET n == GetRankFromDirection(p, d)
                    IN  CountOf(<<p, n>>, id) + CountOf(<<n, p>>, id)
                          + (IF id \in DOMAIN fRangeTracker[n] THEN 1 ELSE 0)
                        = (IF id \in DOMAIN fRangeTracker[p]
                              /\ d \in fRangeTracker[p][id].outstanding THEN 1 ELSE 0)
  BY DEF OneReplyPerPort
<1>1. PICK n \in ClpNeighbours(p) : d = GetDirectionFromRank(p, n)
  BY DEF LinksAgree, ClpNeighbours
<1>2. GetRankFromDirection(p, d) = n
  BY <1>1 DEF LinksAgree, ClpNeighbours
<1>3. id \in Ids /\ IsBeyond(p, n, id)
  BY <1>1 DEF Ids, IsBeyond
<1>4. Edge(net, fRangeTracker, p, n, id)
  BY <1>3 DEF Inv, Edges
<1>5. \A l : CountOf(l, id) = InQueue(net[l], id)
  BY DEF CountOf, InQueue, Places
<1> QED
  BY <1>1, <1>2, <1>4, <1>5 DEF Edge, Tracks, Waits

\* A CLP waits for a port exactly while one message or one tracker entry stands for
\* the query beyond it: so no reply is taken for a new query, and no CLP waits for a
\* reply that does not come (Clp.cpp:714, 813).  However deep the tree, however many
\* agents ask at once, and whatever updates, rollbacks and GVTs come in between.
THEOREM OneReplyPerPortAlways ==
    ASSUME LinksAgree
    PROVE  Spec => []OneReplyPerPort
<1>1. Init => Inv
  BY StartInv
<1>2. Inv /\ [Next]_vars => Inv'
  BY StepInv
<1>3. Inv => OneReplyPerPort
  BY InvIsEnough
<1> QED
  BY <1>1, <1>2, <1>3, PTL DEF Spec
-----------------------------------------------------------------------------
(***************************************************************************)
(* What a CLP has noted of queries: the entries of a list, wherever they   *)
(* stand in it, and whether each stands in the period of its time.         *)
(***************************************************************************)
EntriesOf(list) == UNION {ToSet(list[i].info) : i \in DOMAIN list}

StandsAt(list, i, e) ==
    /\ list[i].time <= e.time
    /\ \A j \in DOMAIN list : list[j].time <= e.time => list[j].time <= list[i].time
InPlace(list) == \A i \in DOMAIN list : \A e \in ToSet(list[i].info) : StandsAt(list, i, e)

LEMMA EntriesAreTyped ==
    ASSUME NEW ids, NEW list \in Periods(ids)
    PROVE  /\ \A i \in DOMAIN list : \A e \in ToSet(list[i].info) : e \in EntryOf(ids)
           /\ \A e \in EntriesOf(list) : /\ e \in EntryOf(ids) /\ e.id \in ids
                                         /\ e.time \in Time /\ e.time \in Nat
<1>1. ASSUME NEW i \in DOMAIN list, NEW e \in ToSet(list[i].info)
      PROVE  e \in EntryOf(ids)
  <2>1. list[i] \in Period(ids)
    BY PeriodsAre
  <2>2. list[i].info \in Seq(EntryOf(ids))
    BY <2>1 DEF Period
  <2> QED
    BY <1>1, <2>2 DEF ToSet
<1>2. \A e \in EntryOf(ids) : e.id \in ids /\ e.time \in Time /\ e.time \in Nat
  BY TimesAreNumbers DEF EntryOf
<1> QED
  BY <1>1, <1>2 DEF EntriesOf

\* A change of the ranges alone.
LEMMA EntriesSame ==
    ASSUME NEW list, NEW new, DOMAIN new = DOMAIN list,
           \A j \in DOMAIN list : new[j].time = list[j].time /\ new[j].info = list[j].info
    PROVE  EntriesOf(new) = EntriesOf(list) /\ (InPlace(list) => InPlace(new))
  BY DEF EntriesOf, InPlace, StandsAt

\* The list gets a new period i, with other entries or none; all others stay.
LEMMA EntriesInfoReplaced ==
    ASSUME NEW ids, NEW list \in Periods(ids), NEW i \in DOMAIN list, NEW info,
           NEW new, DOMAIN new = DOMAIN list,
           \A j \in DOMAIN list : new[j].time = list[j].time,
           \A j \in DOMAIN list : j # i => new[j].info = list[j].info,
           new[i].info = info
    PROVE  /\ \A e : e \in EntriesOf(new) <=>
                e \in ToSet(info) \/ \E j \in DOMAIN list : j # i /\ e \in ToSet(list[j].info)
           /\ InPlace(list) /\ (\A e \in ToSet(info) : StandsAt(list, i, e)) => InPlace(new)
<1>1. \A e : e \in EntriesOf(new) <=>
        e \in ToSet(info) \/ \E j \in DOMAIN list : j # i /\ e \in ToSet(list[j].info)
  BY DEF EntriesOf
<1>2. ASSUME InPlace(list), \A e \in ToSet(info) : StandsAt(list, i, e) PROVE InPlace(new)
  <2> SUFFICES ASSUME NEW j \in DOMAIN list, NEW e \in ToSet(new[j].info)
               PROVE  StandsAt(new, j, e)
    BY DEF InPlace
  <2>1. StandsAt(list, j, e)
    <3>1. CASE j = i
      BY <1>2, <3>1
    <3>2. CASE j # i
      BY <1>2, <3>2 DEF InPlace
    <3> QED
      BY <3>1, <3>2
  <2> QED
    BY <2>1 DEF StandsAt
<1> QED
  BY <1>1, <1>2

\* Adding an entry.
LEMMA AddRangeQueryInfoEntries ==
    ASSUME NEW ids, NEW list \in Periods(ids), NEW e \in EntryOf(ids)
    PROVE  LET new == AddRangeQueryInfo(list, e)
           IN  /\ EntriesOf(new) \subseteq EntriesOf(list) \cup {e}
               /\ EntriesOf(list) \subseteq EntriesOf(new)
               /\ HasRangePeriod(list, e.time) => e \in EntriesOf(new)
               /\ InPlace(list) => InPlace(new)
<1> DEFINE i == PeriodAt(list, e.time)
           this == list[i]
           more == Append(this.info, e)
           that == [this EXCEPT !.info = more]
<1>0. e.time \in Time
  BY DEF EntryOf
<1>1. CASE ~HasRangePeriod(list, e.time)
  BY <1>1 DEF AddRangeQueryInfo
<1>2. CASE HasRangePeriod(list, e.time)
  <2>1. /\ i \in DOMAIN list /\ list[i].time <= e.time
        /\ \A j \in DOMAIN list : list[j].time <= e.time => j <= i
    BY <1>0, <1>2, PeriodAtIs DEF HasRangePeriod
  <2>2. this \in Period(ids)
    BY <2>1, PeriodsAre
  <2>3. this.info \in Seq(EntryOf(ids))
    BY <2>2 DEF Period
  <2>4. more \in Seq(EntryOf(ids)) /\ ToSet(more) = ToSet(this.info) \cup {e}
    <3> HIDE DEF this
    <3> QED
      BY <2>3, ToSetOfAppend
  <2>5. that \in Period(ids) /\ that.time = this.time /\ that.info = more
    <3> HIDE DEF this, more
    <3> QED
      BY <2>2, <2>4, PeriodWithInfo
  <2>6. AddRangeQueryInfo(list, e) = [list EXCEPT ![i] = that]
    BY <1>2, <2>1 DEF AddRangeQueryInfo
  <2> DEFINE new == [list EXCEPT ![i] = that]
  <2>7. /\ DOMAIN new = DOMAIN list
        /\ \A j \in DOMAIN list : new[j].time = list[j].time
        /\ \A j \in DOMAIN list : j # i => new[j].info = list[j].info
        /\ new[i].info = more
    <3> HIDE DEF that, more, i
    <3> QED
      BY <2>1, <2>5 DEF this
  <2>8. StandsAt(list, i, e)
    <3> SUFFICES ASSUME NEW j \in DOMAIN list, list[j].time <= e.time
                 PROVE  list[j].time <= list[i].time
      BY <2>1 DEF StandsAt
    <3> HIDE DEF i
    <3>1. j <= i /\ j \in Nat /\ i \in Nat /\ list[j].time \in Nat /\ list[i].time \in Nat
      BY <2>1, PeriodsAre
    <3>2. j < i => list[j].time < list[i].time
      BY <2>1, PeriodsAre
    <3> QED
      BY <3>1, <3>2
  <2> HIDE DEF that, new, more, i
  <2>9. /\ \A f : f \in EntriesOf(new) <=>
             f \in ToSet(more) \/ \E j \in DOMAIN list : j # i /\ f \in ToSet(list[j].info)
        /\ InPlace(list) /\ (\A f \in ToSet(more) : StandsAt(list, i, f)) => InPlace(new)
    BY <2>1, <2>7, EntriesInfoReplaced
  <2>10. InPlace(list) => \A f \in ToSet(more) : StandsAt(list, i, f)
    BY <2>1, <2>4, <2>8 DEF InPlace, this
  <2>11. \A f : f \in EntriesOf(list) <=> \E j \in DOMAIN list : f \in ToSet(list[j].info)
    BY DEF EntriesOf
  <2>12. \A f : f \in EntriesOf(new) <=> f \in EntriesOf(list) \/ f = e
    BY <2>1, <2>4, <2>9, <2>11 DEF this
  <2> QED
    BY <2>6, <2>9, <2>10, <2>12 DEF new
<1> QED
  BY <1>1, <1>2

\* Deleting those of a query, which have its time.
LEMMA DeleteRangeQueryInfoEntries ==
    ASSUME NEW ids, NEW list \in Periods(ids), NEW t \in Time, NEW id
    PROVE  LET new == DeleteRangeQueryInfo(list, t, id)
           IN  /\ EntriesOf(new) \subseteq EntriesOf(list)
               /\ \A e \in EntriesOf(list) : e.id # id => e \in EntriesOf(new)
               /\ InPlace(list) => InPlace(new)
               /\ InPlace(list) /\ (\A e \in EntriesOf(list) : e.id = id => e.time = t)
                    => \A e \in EntriesOf(new) : e.id # id
<1> DEFINE i == PeriodAt(list, t)
           this == list[i]
           places == {n \in DOMAIN this.info : this.info[n].id # id}
           fewer == Selected(this.info, places)
           that == [this EXCEPT !.info = fewer]
<1>0. /\ i # 0 => i \in DOMAIN list /\ list[i].time <= t
      /\ \A j \in DOMAIN list : list[j].time <= t => j <= i
  BY PeriodAtIs
<1>1. CASE ~HasRangePeriod(list, t)
  <2>1. \A j \in DOMAIN list : ~(list[j].time <= t)
    <3> HIDE DEF i
    <3> SUFFICES ASSUME NEW j \in DOMAIN list, list[j].time <= t PROVE FALSE
      OBVIOUS
    <3>1. j <= 0
      BY <1>0, <1>1 DEF HasRangePeriod, i
    <3> QED
      BY <3>1, PeriodsAre
  <2>2. DeleteRangeQueryInfo(list, t, id) = list
    BY <1>1 DEF DeleteRangeQueryInfo
  <2>3. InPlace(list) => \A e \in EntriesOf(list) : e.time # t
    BY <2>1 DEF InPlace, EntriesOf, StandsAt
  <2> HIDE DEF i
  <2> QED
    BY <2>2, <2>3
<1>2. CASE HasRangePeriod(list, t)
  <2>1. i \in DOMAIN list /\ list[i].time <= t
    BY <1>0, <1>2 DEF HasRangePeriod
  <2>2. this \in Period(ids)
    BY <2>1, PeriodsAre
  <2>3. this.info \in Seq(EntryOf(ids))
    BY <2>2 DEF Period
  <2>4. fewer \in Seq(EntryOf(ids)) /\ ToSet(fewer) = {this.info[n] : n \in places}
    <3>1. places \in SUBSET DOMAIN this.info
      OBVIOUS
    <3> HIDE DEF this, places
    <3> QED
      BY <2>3, <3>1, SelectedElements
  <2>5. \A e : e \in ToSet(fewer) <=> e \in ToSet(this.info) /\ e.id # id
    <3> HIDE DEF fewer, this
    <3> QED
      BY <2>4 DEF ToSet
  <2>6. that \in Period(ids) /\ that.time = this.time /\ that.info = fewer
    <3> HIDE DEF this, fewer
    <3> QED
      BY <2>2, <2>4, PeriodWithInfo
  <2>7. DeleteRangeQueryInfo(list, t, id) = [list EXCEPT ![i] = that]
    BY <1>2, <2>1 DEF DeleteRangeQueryInfo
  <2> DEFINE new == [list EXCEPT ![i] = that]
  <2>8. /\ DOMAIN new = DOMAIN list
        /\ \A j \in DOMAIN list : new[j].time = list[j].time
        /\ \A j \in DOMAIN list : j # i => new[j].info = list[j].info
        /\ new[i].info = fewer
    <3> HIDE DEF that, fewer, i
    <3> QED
      BY <2>1, <2>6 DEF this
  <2> HIDE DEF that, new, fewer, i
  <2>9. /\ \A f : f \in EntriesOf(new) <=>
             f \in ToSet(fewer) \/ \E j \in DOMAIN list : j # i /\ f \in ToSet(list[j].info)
        /\ InPlace(list) /\ (\A f \in ToSet(fewer) : StandsAt(list, i, f)) => InPlace(new)
    BY <2>1, <2>8, EntriesInfoReplaced
  <2>10. InPlace(list) => \A f \in ToSet(fewer) : StandsAt(list, i, f)
    BY <2>1, <2>5 DEF InPlace, this
  <2>11. \A f : f \in EntriesOf(list) <=> \E j \in DOMAIN list : f \in ToSet(list[j].info)
    BY DEF EntriesOf
  <2>12. \A f : f \in EntriesOf(new) => f \in EntriesOf(list)
    BY <2>1, <2>5, <2>9, <2>11 DEF this
  <2>13. \A f \in EntriesOf(list) : f.id # id => f \in EntriesOf(new)
    BY <2>1, <2>5, <2>9, <2>11 DEF this
  <2>14. ASSUME InPlace(list), \A e \in EntriesOf(list) : e.id = id => e.time = t,
                NEW f \in EntriesOf(new), f.id = id
         PROVE  FALSE
    <3>1. PICK j \in DOMAIN list : j # i /\ f \in ToSet(list[j].info)
      BY <2>5, <2>9, <2>14
    <3>2. f.time = t
      BY <2>11, <2>14, <3>1
    <3>3. StandsAt(list, j, f)
      BY <2>14, <3>1 DEF InPlace
    <3>4. list[j].time <= t /\ list[i].time <= list[j].time
      BY <2>1, <3>2, <3>3 DEF StandsAt
    <3>5. j <= i
      BY <1>0, <3>4 DEF i
    <3>6. j \in Nat /\ i \in Nat /\ list[j].time \in Nat /\ list[i].time \in Nat
      BY <2>1, PeriodsAre
    <3>7. j < i => list[j].time < list[i].time
      BY <2>1, PeriodsAre
    <3> QED
      BY <3>1, <3>4, <3>5, <3>6, <3>7
  <2> QED
    BY <2>7, <2>9, <2>10, <2>12, <2>13, <2>14 DEF new
<1> QED
  BY <1>1, <1>2
\* A new range: the entries after its time go to a period of their own.
LEMMA WithRangeEntries ==
    ASSUME NEW ids, NEW list \in Periods(ids), NEW t \in Time, NEW range \in KnownRange
    PROVE  LET new == WithRange(list, t, range)
           IN  /\ EntriesOf(new) = EntriesOf(list)
               /\ InPlace(list) /\ ~SameTime(list, t) => InPlace(new)
<1> DEFINE i == PeriodAt(list, t)
           this == list[i]
           new == [time |-> t, range |-> range, info |-> <<>>]
           cut == [this EXCEPT !.info = Until(@, t)]
           shorter == [list EXCEPT ![i] = cut]
           second == [new EXCEPT !.info = After(this.info, t)]
           Splits == NoRange \notin {range, this.range} /\ range # this.range /\ this.time # t
           result == WithRange(list, t, range)
<1>1. /\ i \in 0..Len(list)
      /\ i # 0 => i \in DOMAIN list /\ this.time <= t
      /\ \A j \in DOMAIN list : list[j].time <= t => j <= i
  BY PeriodAtIs
<1>2. PICK n \in Nat : /\ DOMAIN list = 1..n /\ Len(list) = n /\ 1 \in DOMAIN list
                       /\ list \in Seq(Period(ids))
                       /\ \A j \in DOMAIN list : list[j] \in Period(ids) /\ list[j].time \in Nat
                       /\ \A h, j \in DOMAIN list : h < j => list[h].time < list[j].time
  BY PeriodsAre
<1>3. new \in Period(ids) /\ new.time = t /\ new.info = <<>>
  <2>1. <<>> \in Seq(EntryOf(ids))
    OBVIOUS
  <2> QED
    BY <2>1 DEF Period
<1>4. t \in Nat /\ ToSet(<<>>) = {}
  BY TimesAreNumbers DEF ToSet
<1>5. CASE i = 0
  <2>1. result = InsertAt(list, 1, new)
    BY <1>5 DEF WithRange
  <2>2. \A j \in 1..n : t < list[j].time
    <3> SUFFICES ASSUME NEW j \in 1..n PROVE t < list[j].time
      OBVIOUS
    <3>1. ~(list[j].time <= t)
      BY <1>1, <1>2, <1>5
    <3> QED
      BY <1>2, <1>4, <3>1
  <2> HIDE DEF new, result
  <2>3. /\ DOMAIN result = 1..(n + 1)
        /\ result[1] = new
        /\ \A j \in 2..(n + 1) : result[j] = list[j - 1]
    <3>1. /\ InsertAt(list, 1, new) \in Seq(Period(ids)) /\ Len(InsertAt(list, 1, new)) = n + 1
          /\ InsertAt(list, 1, new)[1] = new
          /\ \A j \in 2..(n + 1) : InsertAt(list, 1, new)[j] = list[j - 1]
      <4>1. PICK S : S = Period(ids)
        OBVIOUS
      <4>2. list \in Seq(S) /\ Len(list) = n /\ n \in Nat /\ new \in S
        BY <1>2, <1>3, <4>1
      <4>3. ASSUME NEW T, list \in Seq(T), new \in T
            PROVE  /\ InsertAt(list, 1, new) \in Seq(T) /\ Len(InsertAt(list, 1, new)) = n + 1
                   /\ InsertAt(list, 1, new)[1] = new
                   /\ \A j \in 2..(n + 1) : InsertAt(list, 1, new)[j] = list[j - 1]
        BY <4>2, <4>3, InsertFirstElements
      <4> QED
        BY <4>1, <4>2, <4>3
    <3> QED
      BY <2>1, <3>1
  <2>4. \A j \in 1..n : j + 1 \in 2..(n + 1) /\ j + 1 \in 1..(n + 1) /\ result[j + 1] = list[j]
    <3> SUFFICES ASSUME NEW j \in 1..n
                 PROVE  j + 1 \in 2..(n + 1) /\ j + 1 \in 1..(n + 1) /\ result[j + 1] = list[j]
      OBVIOUS
    <3>1. j + 1 \in 2..(n + 1) /\ j + 1 \in 1..(n + 1) /\ (j + 1) - 1 = j
      OBVIOUS
    <3> QED
      BY <2>3, <3>1
  <2>5. \A j \in 1..(n + 1) : j = 1 \/ (j \in 2..(n + 1) /\ j - 1 \in 1..n)
    OBVIOUS
  <2>6. ASSUME NEW e PROVE e \in EntriesOf(result) <=> e \in EntriesOf(list)
    <3>1. ASSUME NEW j \in 1..(n + 1), e \in ToSet(result[j].info) PROVE e \in EntriesOf(list)
      <4>1. j \in 2..(n + 1) /\ j - 1 \in 1..n
        BY <1>3, <1>4, <2>3, <2>5, <3>1
      <4> QED
        BY <1>2, <2>3, <3>1, <4>1 DEF EntriesOf
    <3>2. ASSUME NEW j \in 1..n, e \in ToSet(list[j].info) PROVE e \in EntriesOf(result)
      BY <2>3, <2>4, <3>2 DEF EntriesOf
    <3> QED
      BY <1>2, <2>3, <3>1, <3>2 DEF EntriesOf
  <2>7. ASSUME InPlace(list) PROVE InPlace(result)
    <3> SUFFICES ASSUME NEW j \in 1..(n + 1), NEW e \in ToSet(result[j].info)
                 PROVE  StandsAt(result, j, e)
      BY <2>3 DEF InPlace
    <3>1. j \in 2..(n + 1) /\ j - 1 \in 1..n
      BY <1>3, <1>4, <2>3, <2>5
    <3>2. result[j] = list[j - 1]
      BY <2>3, <3>1
    <3>3. StandsAt(list, j - 1, e)
      BY <1>2, <2>7, <3>1, <3>2 DEF InPlace
    <3>4. list[j - 1].time <= e.time
          /\ \A h \in 1..n : list[h].time <= e.time => list[h].time <= list[j - 1].time
      BY <1>2, <3>3 DEF StandsAt
    <3>5. t <= list[j - 1].time
      BY <1>2, <1>4, <2>2, <3>1
    <3>6. ASSUME NEW h \in 1..(n + 1), result[h].time <= e.time
          PROVE  result[h].time <= result[j].time
      <4>1. CASE h = 1
        BY <1>3, <2>3, <3>2, <3>5, <4>1
      <4>2. CASE h \in 2..(n + 1) /\ h - 1 \in 1..n
        BY <2>3, <3>2, <3>4, <3>6, <4>2
      <4> QED
        BY <2>5, <4>1, <4>2
    <3> QED
      BY <2>3, <3>2, <3>4, <3>6 DEF StandsAt
  <2> QED
    BY <2>6, <2>7 DEF result
<1>6. ASSUME i # 0, Splits
      PROVE  /\ EntriesOf(result) = EntriesOf(list)
             /\ InPlace(list) /\ ~SameTime(list, t) => InPlace(result)
  <2>1. i \in 1..n /\ this \in Period(ids) /\ this.time < t /\ this.time \in Nat
    BY <1>1, <1>2, <1>4, <1>6
  <2>2. this.info \in Seq(EntryOf(ids))
    BY <2>1 DEF Period
  <2>3. /\ Until(this.info, t) \in Seq(EntryOf(ids))
        /\ \A e : e \in ToSet(Until(this.info, t)) <=> e \in ToSet(this.info) /\ e.time <= t
    <3> DEFINE places == {k \in DOMAIN this.info : this.info[k].time <= t}
    <3>1. places \in SUBSET DOMAIN this.info
      OBVIOUS
    <3>2. /\ Selected(this.info, places) \in Seq(EntryOf(ids))
          /\ ToSet(Selected(this.info, places)) = {this.info[k] : k \in places}
      <4> HIDE DEF this, places
      <4> QED
        BY <2>2, <3>1, SelectedElements
    <3>3. Until(this.info, t) = Selected(this.info, places)
      BY DEF Until
    <3> QED
      BY <3>2, <3>3 DEF ToSet
  <2>4. /\ After(this.info, t) \in Seq(EntryOf(ids))
        /\ \A e : e \in ToSet(After(this.info, t)) <=> e \in ToSet(this.info) /\ e.time > t
    <3> DEFINE places == {k \in DOMAIN this.info : this.info[k].time > t}
    <3>1. places \in SUBSET DOMAIN this.info
      OBVIOUS
    <3>2. /\ Selected(this.info, places) \in Seq(EntryOf(ids))
          /\ ToSet(Selected(this.info, places)) = {this.info[k] : k \in places}
      <4> HIDE DEF this, places
      <4> QED
        BY <2>2, <3>1, SelectedElements
    <3>3. After(this.info, t) = Selected(this.info, places)
      BY DEF After
    <3> QED
      BY <3>2, <3>3 DEF ToSet
  <2>5. cut \in Period(ids) /\ cut.time = this.time /\ cut.info = Until(this.info, t)
    <3>1. cut = [this EXCEPT !.info = Until(this.info, t)]
      OBVIOUS
    <3> HIDE DEF this, cut
    <3> QED
      BY <2>1, <2>3, <3>1, PeriodWithInfo
  <2>6. second \in Period(ids) /\ second.time = t /\ second.info = After(this.info, t)
    <3>1. second = [new EXCEPT !.info = After(this.info, t)]
      OBVIOUS
    <3> HIDE DEF this, new, second
    <3> QED
      BY <1>3, <2>4, <3>1, PeriodWithInfo
  <2>7. result = InsertAt(shorter, i + 1, second)
    <3>1. result = InsertAt([list EXCEPT ![i].info = Until(@, t)], i + 1,
                            [new EXCEPT !.info = After(this.info, t)])
      BY <1>6 DEF WithRange
    <3>2. [list EXCEPT ![i].info = Until(@, t)] = shorter
      BY <1>2, <2>1
    <3> QED
      BY <3>1, <3>2
  <2> HIDE DEF cut, second
  <2>8. /\ shorter \in Seq(Period(ids)) /\ Len(shorter) = n
        /\ \A j \in 1..n : shorter[j] = IF j = i THEN cut ELSE list[j]
    <3> HIDE DEF i, this
    <3> QED
      BY <1>2, <2>1, <2>5
  <2> HIDE DEF shorter, result, i
  <2>9. /\ DOMAIN result = 1..(n + 1)
        /\ \A j \in 1..i : result[j] = shorter[j]
        /\ result[i + 1] = second
        /\ \A j \in (i + 2)..(n + 1) : result[j] = shorter[j - 1]
    <3>1. /\ DOMAIN InsertAt(shorter, i + 1, second) = 1..(n + 1)
          /\ \A j \in 1..i : InsertAt(shorter, i + 1, second)[j] = shorter[j]
          /\ InsertAt(shorter, i + 1, second)[i + 1] = second
          /\ \A j \in (i + 2)..(n + 1) : InsertAt(shorter, i + 1, second)[j] = shorter[j - 1]
      <4>1. InsertAt(shorter, i + 1, second)
              = [j \in 1..(n + 1) |-> IF j <= i THEN shorter[j]
                                     ELSE IF j = i + 1 THEN second ELSE shorter[j - 1]]
        <5>1. /\ shorter \in Seq(Period(ids)) /\ Len(shorter) = n /\ n \in Nat
              /\ i \in 1..n /\ second \in Period(ids)
          BY <2>1, <2>6, <2>8
        <5> HIDE DEF this, new
        <5> QED
          BY <5>1, InsertAtIs
      <4>2. /\ DOMAIN InsertAt(shorter, i + 1, second) = 1..(n + 1)
            /\ \A j \in 1..(n + 1) : InsertAt(shorter, i + 1, second)[j]
                  = IF j <= i THEN shorter[j] ELSE IF j = i + 1 THEN second ELSE shorter[j - 1]
        BY <4>1, Zenon
      <4>3. i + 1 \in 1..(n + 1) /\ \A j \in 1..i : j \in 1..(n + 1)
        BY <2>1
      <4>4. ~(i + 1 <= i)
        BY <2>1
      <4>5. ASSUME NEW j \in (i + 2)..(n + 1)
            PROVE  j \in 1..(n + 1) /\ ~(j <= i) /\ j # i + 1
        BY <2>1
      <4> QED
        BY <4>2, <4>3, <4>4, <4>5
    <3> QED
      BY <2>7, <3>1
  <2>10. /\ \A j \in 1..n : j < i => j \in 1..(n + 1) /\ result[j] = list[j]
         /\ i \in 1..(n + 1) /\ result[i] = cut
         /\ i + 1 \in 1..(n + 1) /\ result[i + 1] = second
         /\ \A j \in 1..n : j > i => j + 1 \in 1..(n + 1) /\ result[j + 1] = list[j]
    <3>1. ASSUME NEW j \in 1..n, j < i PROVE j \in 1..(n + 1) /\ result[j] = list[j]
      <4>1. j \in 1..i /\ j \in 1..(n + 1) /\ j # i
        BY <2>1, <3>1
      <4> QED
        BY <2>8, <2>9, <4>1
    <3>2. i \in 1..i /\ i \in 1..(n + 1) /\ i + 1 \in 1..(n + 1)
      BY <2>1
    <3>3. result[i] = cut
      BY <2>1, <2>8, <2>9, <3>2
    <3>4. ASSUME NEW j \in 1..n, j > i PROVE j + 1 \in 1..(n + 1) /\ result[j + 1] = list[j]
      <4>1. j + 1 \in (i + 2)..(n + 1) /\ j + 1 \in 1..(n + 1) /\ (j + 1) - 1 = j /\ j # i
        BY <2>1, <3>4
      <4>2. result[j + 1] = shorter[(j + 1) - 1]
        BY <2>9, <4>1
      <4> QED
        BY <2>8, <4>1, <4>2
    <3> QED
      BY <2>9, <3>1, <3>2, <3>3, <3>4
  <2>11. \A k \in 1..(n + 1) : \/ k \in 1..n /\ k < i
                               \/ k = i
                               \/ k = i + 1
                               \/ \E j \in 1..n : j > i /\ k = j + 1
    <3> SUFFICES ASSUME NEW k \in 1..(n + 1), k > i + 1
                 PROVE  \E j \in 1..n : j > i /\ k = j + 1
      BY <2>1
    <3>1. k - 1 \in 1..n /\ k - 1 > i /\ k = (k - 1) + 1
      BY <2>1
    <3> QED
      BY <3>1
  <2>12. \A e \in ToSet(this.info) : e.time \in Nat
    <3>1. i \in DOMAIN list
      BY <1>2, <2>1
    <3> QED
      BY <3>1, EntriesAreTyped DEF EntriesOf, this
  <2>13. ASSUME NEW e PROVE e \in EntriesOf(result) <=> e \in EntriesOf(list)
    <3>1. ASSUME NEW k \in 1..(n + 1), e \in ToSet(result[k].info) PROVE e \in EntriesOf(list)
      <4>1. CASE k \in 1..n /\ k < i
        BY <1>2, <2>10, <3>1, <4>1 DEF EntriesOf
      <4>2. CASE k = i \/ k = i + 1
        <5>1. e \in ToSet(this.info)
          BY <2>3, <2>4, <2>5, <2>6, <2>10, <3>1, <4>2
        <5> QED
          BY <1>2, <2>1, <5>1 DEF EntriesOf, this
      <4>3. CASE \E j \in 1..n : j > i /\ k = j + 1
        BY <1>2, <2>10, <3>1, <4>3 DEF EntriesOf
      <4> QED
        BY <2>11, <4>1, <4>2, <4>3
    <3>2. ASSUME NEW j \in 1..n, e \in ToSet(list[j].info)
          PROVE  \E k \in 1..(n + 1) : e \in ToSet(result[k].info)
      <4>1. CASE j < i
        BY <2>10, <3>2, <4>1
      <4>2. CASE j > i
        BY <2>10, <3>2, <4>2
      <4>3. CASE j = i
        <5>1. e \in ToSet(this.info) /\ e.time \in Nat
          BY <2>12, <3>2, <4>3 DEF this
        <5>2. e.time <= t \/ e.time > t
          BY <1>4, <5>1
        <5>3. e \in ToSet(cut.info) \/ e \in ToSet(second.info)
          BY <2>3, <2>4, <2>5, <2>6, <5>1, <5>2
        <5> QED
          BY <2>10, <5>3
      <4> QED
        BY <2>1, <4>1, <4>2, <4>3
    <3>3. e \in EntriesOf(list) <=> \E j \in 1..n : e \in ToSet(list[j].info)
      BY <1>2 DEF EntriesOf
    <3>4. e \in EntriesOf(result) <=> \E k \in 1..(n + 1) : e \in ToSet(result[k].info)
      BY <2>9 DEF EntriesOf
    <3> QED
      BY <3>1, <3>2, <3>3, <3>4
  <2>14. ASSUME InPlace(list), ~SameTime(list, t) PROVE InPlace(result)
    <3> DEFINE Right(u, e) == /\ u \in Nat /\ u <= e.time
                              /\ \A j \in 1..n : list[j].time <= e.time => list[j].time <= u
                              /\ t <= e.time => t <= u
    <3>1. ASSUME NEW k \in 1..(n + 1), NEW e \in ToSet(result[k].info), Right(result[k].time, e)
          PROVE  StandsAt(result, k, e)
      <4>1. ASSUME NEW h \in 1..(n + 1), result[h].time <= e.time
            PROVE  result[h].time <= result[k].time
        <5>1. CASE h \in 1..n /\ h < i
          BY <2>10, <3>1, <4>1, <5>1
        <5>2. CASE h = i
          BY <2>1, <2>5, <2>10, <3>1, <4>1, <5>2 DEF this
        <5>3. CASE h = i + 1
          BY <2>6, <2>10, <3>1, <4>1, <5>3
        <5>4. CASE \E j \in 1..n : j > i /\ h = j + 1
          BY <2>10, <3>1, <4>1, <5>4
        <5> QED
          BY <2>11, <5>1, <5>2, <5>3, <5>4
      <4> QED
        BY <2>9, <3>1, <4>1 DEF StandsAt
    <3>2. ASSUME NEW j \in 1..n, NEW e \in ToSet(list[j].info)
          PROVE  /\ e.time \in Nat /\ list[j].time \in Nat /\ list[j].time <= e.time
                 /\ \A h \in 1..n : list[h].time <= e.time => list[h].time <= list[j].time
      <4>1. StandsAt(list, j, e)
        BY <1>2, <2>14, <3>2 DEF InPlace
      <4>2. e \in EntriesOf(list)
        BY <1>2, <3>2 DEF EntriesOf
      <4>3. e.time \in Nat
        BY <4>2, EntriesAreTyped
      <4> QED
        BY <1>2, <4>1, <4>3 DEF StandsAt
    <3>3. ASSUME NEW j \in 1..n, NEW e \in ToSet(list[j].info), j < i PROVE Right(list[j].time, e)
      <4>1. list[j].time < list[i].time /\ list[i].time \in Nat
        BY <1>2, <2>1, <3>3
      <4>2. ~(list[i].time <= e.time)
        BY <2>1, <3>2, <4>1
      <4>3. ~(t <= e.time)
        BY <1>4, <2>1, <3>2, <4>1, <4>2 DEF this
      <4> QED
        BY <3>2, <4>3
    <3>4. ASSUME NEW j \in 1..n, NEW e \in ToSet(list[j].info), j > i PROVE Right(list[j].time, e)
      <4>1. ~(list[j].time <= t) /\ list[j].time \in Nat
        BY <1>1, <1>2, <2>1, <3>4 DEF i
      <4>2. t <= list[j].time
        BY <1>4, <4>1
      <4> QED
        BY <3>2, <4>2
    <3>5. ASSUME NEW e \in ToSet(cut.info) PROVE Right(cut.time, e)
      <4>1. e \in ToSet(list[i].info) /\ e.time <= t
        BY <2>3, <2>5 DEF this
      <4>2. e.time # t
        <5>1. HasRangePeriod(list, t)
          BY <1>6 DEF HasRangePeriod, i
        <5>2. e \in EntriesAt(list, t)
          BY <4>1, <5>1 DEF EntriesAt, i
        <5> QED
          BY <2>14, <5>2 DEF SameTime
      <4>3. ~(t <= e.time)
        BY <1>4, <2>1, <3>2, <4>1, <4>2
      <4> QED
        BY <2>1, <2>5, <3>2, <4>1, <4>3 DEF this
    <3>6. ASSUME NEW e \in ToSet(second.info) PROVE Right(second.time, e)
      <4>1. e \in ToSet(list[i].info) /\ e.time > t
        BY <2>4, <2>6 DEF this
      <4>2. \A h \in 1..n : list[h].time <= e.time => list[h].time <= list[i].time
        BY <2>1, <3>2, <4>1
      <4>3. ASSUME NEW h \in 1..n, list[h].time <= e.time PROVE list[h].time <= t
        <5>1. list[h].time <= list[i].time /\ list[h].time \in Nat
          BY <1>2, <4>2, <4>3
        <5> QED
          BY <1>4, <2>1, <5>1 DEF this
      <4>4. t <= e.time
        BY <1>4, <2>1, <3>2, <4>1
      <4> QED
        BY <1>4, <2>6, <4>3, <4>4
    <3> HIDE DEF Right
    <3>7. ASSUME NEW k \in 1..(n + 1), NEW e \in ToSet(result[k].info)
          PROVE  Right(result[k].time, e)
      <4>1. CASE k \in 1..n /\ k < i
        BY <2>10, <3>3, <3>7, <4>1
      <4>2. CASE k = i
        BY <2>10, <3>5, <3>7, <4>2
      <4>3. CASE k = i + 1
        BY <2>10, <3>6, <3>7, <4>3
      <4>4. CASE \E j \in 1..n : j > i /\ k = j + 1
        BY <2>10, <3>4, <3>7, <4>4
      <4> QED
        BY <2>11, <4>1, <4>2, <4>3, <4>4
    <3> QED
      BY <2>9, <3>1, <3>7 DEF InPlace
  <2> QED
    BY <2>13, <2>14
<1>7. ASSUME i # 0, ~Splits
      PROVE  EntriesOf(result) = EntriesOf(list) /\ (InPlace(list) => InPlace(result))
  <2> DEFINE e == [this EXCEPT !.range = range]
  <2>1. i \in DOMAIN list /\ this \in Period(ids)
    BY <1>1, <1>2, <1>7
  <2>2. result = [list EXCEPT ![i] = e]
    <3>1. result = [list EXCEPT ![i].range = range]
      BY <1>7 DEF WithRange
    <3> QED
      BY <2>1, <3>1
  <2>3. e \in Period(ids) /\ e.time = this.time /\ e.info = this.info
    <3> HIDE DEF this
    <3> QED
      BY <2>1, PeriodWithRange
  <2> HIDE DEF e, result, i
  <2>4. /\ DOMAIN result = DOMAIN list
        /\ \A j \in DOMAIN list : result[j].time = list[j].time /\ result[j].info = list[j].info
    BY <2>1, <2>2, <2>3 DEF this
  <2> QED
    BY <2>4, EntriesSame
<1> QED
  BY <1>5, <1>6, <1>7
\* What SetGvt leaves of a list of periods: those after period i, and of that one
\* what is at or after the GVT.
IsCleared(list, new, gvt, n, i) ==
    /\ i \in 1..n /\ DOMAIN list = 1..n /\ list[i].time <= gvt
    /\ \A j \in 1..n : list[j].time <= gvt => j <= i
    /\ DOMAIN new = 1..(n - i + 1) /\ new[1].time = gvt /\ new[1].range = list[i].range
    /\ list[i].time = gvt => new[1].info = list[i].info
    /\ list[i].time # gvt =>
         \A e : e \in ToSet(new[1].info) <=> e \in ToSet(list[i].info) /\ e.time >= gvt
    /\ \A j \in 2..(n - i + 1) : new[j] = list[i + j - 1] /\ i + j - 1 \in 1..n

LEMMA ClearRangePeriodsElements ==
    ASSUME NEW ids, NEW list \in Periods(ids), NEW gvt \in Time, list[1].time <= gvt
    PROVE  \E n \in Nat, i \in Nat : IsCleared(list, ClearRangePeriods(list, gvt), gvt, n, i)
<1> DEFINE i == PeriodAt(list, gvt)
           this == list[i]
           fewer == Selected(this.info, {n \in DOMAIN this.info : this.info[n].time >= gvt})
           kept == IF this.time = gvt THEN this ELSE [this EXCEPT !.time = gvt, !.info = fewer]
           n == Len(list)
           rest == SubSeq(list, i + 1, n)
           new == <<kept>> \o rest
<1>1. /\ list \in Seq(Period(ids)) /\ n \in Nat /\ DOMAIN list = 1..n /\ 1 \in DOMAIN list
      /\ \A j \in 1..n : list[j] \in Period(ids) /\ list[j].time \in Nat
      /\ \A h, j \in 1..n : h < j => list[h].time < list[j].time
  BY PeriodsAre
<1>2. /\ i \in 1..n /\ this.time <= gvt
      /\ \A j \in 1..n : list[j].time <= gvt => j <= i
  BY <1>1, PeriodAtIs
<1>3. gvt \in Nat
  BY TimesAreNumbers
<1>4. this \in Period(ids)
  BY <1>1, <1>2
<1>5. /\ fewer \in Seq(EntryOf(ids))
      /\ ToSet(fewer) = {this.info[k] : k \in {m \in DOMAIN this.info : this.info[m].time >= gvt}}
  <2> DEFINE places == {k \in DOMAIN this.info : this.info[k].time >= gvt}
  <2>1. places \in SUBSET DOMAIN this.info
    OBVIOUS
  <2>2. this.info \in Seq(EntryOf(ids))
    BY <1>4 DEF Period
  <2>3. /\ Selected(this.info, places) \in Seq(EntryOf(ids))
        /\ ToSet(Selected(this.info, places)) = {this.info[k] : k \in places}
    <3> HIDE DEF this, places
    <3> QED
      BY <2>1, <2>2, SelectedElements
  <2> QED
    BY <2>3
<1>6. /\ kept \in Period(ids) /\ kept.time = gvt /\ kept.range = this.range
      /\ this.time = gvt => kept.info = this.info
      /\ this.time # gvt => kept.info = fewer
  <2>1. CASE this.time = gvt
    BY <1>4, <2>1
  <2>2. CASE this.time # gvt
    <3>1. kept = [this EXCEPT !.time = gvt, !.info = fewer]
      BY <2>2
    <3> HIDE DEF this, fewer, kept
    <3>2. kept \in Period(ids) /\ kept.time = gvt /\ kept.range = this.range /\ kept.info = fewer
      BY <1>4, <1>5, <3>1 DEF Period
    <3> QED
      BY <2>2, <3>2
  <2> QED
    BY <2>1, <2>2
<1>7. ClearRangePeriods(list, gvt) = new
  <2> DEFINE moved == [this EXCEPT !.time = gvt,
                               !.info = Selected(@, {k \in DOMAIN @ : @[k].time >= gvt})]
  <2>1. ClearRangePeriods(list, gvt)
          = <<IF this.time = gvt THEN this ELSE moved>> \o SubSeq(list, i + 1, Len(list))
    <3>1. i # 0
      BY <1>1, <1>2
    <3> QED
      BY <3>1, Zenon DEF ClearRangePeriods
  <2>2. moved = [this EXCEPT !.time = gvt, !.info = fewer]
    <3> HIDE DEF this
    <3> QED
      BY <1>4 DEF Period
  <2> HIDE DEF moved, fewer, this, i
  <2> QED
    BY <2>1, <2>2
<1> HIDE DEF kept, fewer
<1>8. /\ rest \in Seq(Period(ids)) /\ Len(rest) = n - i
      /\ \A j \in 1..(n - i) : rest[j] = list[i + j]
  <2>1. i + 1 \in Nat /\ 1 <= i + 1 /\ i + 1 <= n + 1 /\ n <= Len(list)
    BY <1>1, <1>2
  <2> QED
    BY SMTT(30), <1>1, <1>2, <2>1
<1>9. /\ new \in Seq(Period(ids)) /\ Len(new) = n - i + 1 /\ new[1] = kept
      /\ \A j \in 2..(n - i + 1) : new[j] = rest[j - 1]
  <2> HIDE DEF rest, this, i, n
  <2> QED
    BY <1>1, <1>2, <1>6, <1>8
<1> HIDE DEF rest, new
<1>10. \A j \in 2..(n - i + 1) : new[j] = list[i + j - 1] /\ i + j - 1 \in 1..n /\ i < i + j - 1
  <2> HIDE DEF this, i, n
  <2> SUFFICES ASSUME NEW j \in 2..(n - i + 1)
               PROVE  new[j] = list[i + j - 1] /\ i + j - 1 \in 1..n /\ i < i + j - 1
    OBVIOUS
  <2>1. j - 1 \in 1..(n - i) /\ i + (j - 1) = i + j - 1
    BY <1>1, <1>2
  <2>2. rest[j - 1] = list[i + (j - 1)]
    BY <1>8, <2>1
  <2>3. new[j] = list[i + (j - 1)]
    BY <1>9, <2>2
  <2> QED
    BY <1>1, <1>2, <2>1, <2>3
<1>11. this.time # gvt =>
         \A e : e \in ToSet(new[1].info) <=> e \in ToSet(this.info) /\ e.time >= gvt
  <2>1. \A e : e \in ToSet(fewer) <=> e \in ToSet(this.info) /\ e.time >= gvt
    <3> HIDE DEF this
    <3> QED
      BY <1>5 DEF ToSet
  <2> QED
    BY <1>6, <1>9, <2>1
<1>12. DOMAIN new = 1..(n - i + 1)
  BY <1>9
<1>13. n \in Nat /\ i \in Nat
  BY <1>1, <1>2
<1>14. /\ new[1].time = gvt /\ new[1].range = list[i].range
       /\ list[i].time = gvt => new[1].info = list[i].info
       /\ list[i].time # gvt =>
            \A e : e \in ToSet(new[1].info) <=> e \in ToSet(list[i].info) /\ e.time >= gvt
  BY <1>6, <1>9, <1>11 DEF this
<1>15. \A j \in 2..(n - i + 1) : new[j] = list[i + j - 1] /\ i + j - 1 \in 1..n
  BY <1>10
<1>16. list[i].time <= gvt
  BY <1>2 DEF this
<1>17. i \in 1..n /\ DOMAIN list = 1..n /\ \A j \in 1..n : list[j].time <= gvt => j <= i
  BY <1>1, <1>2
<1> HIDE DEF i, n, this
<1> QED
  BY <1>7, <1>12, <1>13, <1>14, <1>15, <1>16, <1>17 DEF IsCleared

\* The entries of times from the GVT on stay, if they are in place.
LEMMA ClearRangePeriodsEntries ==
    ASSUME NEW ids, NEW list \in Periods(ids), NEW gvt \in Time, list[1].time <= gvt
    PROVE  LET new == ClearRangePeriods(list, gvt)
           IN  /\ EntriesOf(new) \subseteq EntriesOf(list)
               /\ InPlace(list) => InPlace(new)
               /\ InPlace(list) => \A e \in EntriesOf(list) : e.time >= gvt => e \in EntriesOf(new)
<1> DEFINE new == ClearRangePeriods(list, gvt)
<1>0. PICK n \in Nat, i \in Nat : IsCleared(list, new, gvt, n, i)
  BY ClearRangePeriodsElements
<1>1. /\ i \in 1..n /\ DOMAIN list = 1..n /\ list[i].time <= gvt
      /\ \A j \in 1..n : list[j].time <= gvt => j <= i
      /\ DOMAIN new = 1..(n - i + 1) /\ new[1].time = gvt
      /\ list[i].time = gvt => new[1].info = list[i].info
      /\ list[i].time # gvt =>
           \A e : e \in ToSet(new[1].info) <=> e \in ToSet(list[i].info) /\ e.time >= gvt
      /\ \A j \in 2..(n - i + 1) : new[j] = list[i + j - 1] /\ i + j - 1 \in 1..n
  BY <1>0 DEF IsCleared
<1> HIDE DEF new
<1>2. /\ \A j \in 1..n : list[j].time \in Nat
      /\ \A h, j \in 1..n : h < j => list[h].time < list[j].time
  BY <1>1, PeriodsAre
<1>3. gvt \in Nat
  BY TimesAreNumbers
<1>4. \A j \in 1..n : \A e \in ToSet(list[j].info) : e.time \in Nat
  BY <1>1, EntriesAreTyped DEF EntriesOf
<1>5. \A k \in 1..(n - i + 1) : k = 1 \/ k \in 2..(n - i + 1)
  BY <1>1
<1>6. \A j \in 1..n : j > i => j - i + 1 \in 2..(n - i + 1) /\ j - i + 1 \in 1..(n - i + 1)
                              /\ new[j - i + 1] = list[j]
  <2> SUFFICES ASSUME NEW j \in 1..n, j > i
               PROVE  /\ j - i + 1 \in 2..(n - i + 1) /\ j - i + 1 \in 1..(n - i + 1)
                      /\ new[j - i + 1] = list[j]
    OBVIOUS
  <2>1. j - i + 1 \in 2..(n - i + 1) /\ j - i + 1 \in 1..(n - i + 1) /\ i + (j - i + 1) - 1 = j
    BY <1>1
  <2>2. new[j - i + 1] = list[i + (j - i + 1) - 1]
    BY <1>1, <2>1
  <2> QED
    BY <2>1, <2>2
<1>7. 1 \in 1..(n - i + 1)
  BY <1>1
<1>8. \A e : e \in EntriesOf(new) <=> \E k \in 1..(n - i + 1) : e \in ToSet(new[k].info)
  BY <1>1 DEF EntriesOf
<1>9. \A e : e \in EntriesOf(list) <=> \E j \in 1..n : e \in ToSet(list[j].info)
  BY <1>1 DEF EntriesOf
<1>10. \A e \in ToSet(new[1].info) : e \in ToSet(list[i].info)
  BY <1>1
<1>11. ASSUME NEW e \in EntriesOf(new) PROVE e \in EntriesOf(list)
  <2>1. PICK k \in 1..(n - i + 1) : e \in ToSet(new[k].info)
    BY <1>8, <1>11
  <2>2. CASE k = 1
    BY <1>1, <1>9, <1>10, <2>1, <2>2
  <2>3. CASE k \in 2..(n - i + 1)
    BY <1>1, <1>9, <2>1, <2>3
  <2> QED
    BY <1>5, <2>2, <2>3
<1>12. ASSUME InPlace(list), NEW e \in EntriesOf(list), e.time >= gvt PROVE e \in EntriesOf(new)
  <2>1. PICK j \in 1..n : e \in ToSet(list[j].info)
    BY <1>9, <1>12
  <2>2. StandsAt(list, j, e)
    BY <1>1, <1>12, <2>1 DEF InPlace
  <2>3. list[i].time <= e.time
    BY <1>1, <1>2, <1>3, <1>4, <1>12, <2>1
  <2>4. list[i].time <= list[j].time
    BY <1>1, <2>2, <2>3 DEF StandsAt
  <2>5. ~(j < i)
    BY <1>1, <1>2, <2>4
  <2>6. CASE j = i
    <3>1. e \in ToSet(new[1].info)
      BY <1>1, <1>12, <2>1, <2>6
    <3> QED
      BY <1>7, <1>8, <3>1
  <2>7. CASE j > i
    BY <1>6, <1>8, <2>1, <2>7
  <2> QED
    BY <1>1, <2>5, <2>6, <2>7
<1>13. ASSUME InPlace(list) PROVE InPlace(new)
  <2> SUFFICES ASSUME NEW k \in 1..(n - i + 1), NEW e \in ToSet(new[k].info)
               PROVE  StandsAt(new, k, e)
    BY <1>1 DEF InPlace
  <2>1. ASSUME NEW j \in 1..n, e \in ToSet(list[j].info)
        PROVE  /\ list[j].time <= e.time
               /\ \A h \in 1..n : list[h].time <= e.time => list[h].time <= list[j].time
    BY <1>1, <1>13, <2>1 DEF InPlace, StandsAt
  <2>2. CASE k = 1
    <3>1. e \in ToSet(list[i].info) /\ e.time \in Nat
      BY <1>1, <1>4, <1>10, <2>2
    <3>2. gvt <= e.time
      <4>1. CASE list[i].time = gvt
        BY <1>1, <2>1, <3>1, <4>1
      <4>2. CASE list[i].time # gvt
        BY <1>1, <1>3, <2>2, <3>1, <4>2
      <4> QED
        BY <4>1, <4>2
    <3>3. ASSUME NEW h \in 1..(n - i + 1), new[h].time <= e.time PROVE new[h].time <= gvt
      <4>1. CASE h = 1
        BY <1>1, <1>3, <4>1
      <4>2. CASE h \in 2..(n - i + 1)
        <5>1. new[h] = list[i + h - 1] /\ i + h - 1 \in 1..n
          BY <1>1, <4>2
        <5>2. list[i + h - 1].time <= list[i].time
          BY <1>1, <2>1, <3>1, <3>3, <5>1
        <5>3. list[i].time < list[i + h - 1].time
          <6>1. i < i + h - 1
            BY <1>1, <4>2
          <6> QED
            BY <1>1, <1>2, <5>1, <6>1
        <5> QED
          BY <1>1, <1>2, <5>1, <5>2, <5>3
      <4> QED
        BY <1>5, <4>1, <4>2
    <3> QED
      BY <1>1, <2>2, <3>2, <3>3 DEF StandsAt
  <2>3. CASE k \in 2..(n - i + 1)
    <3>1. new[k] = list[i + k - 1] /\ i + k - 1 \in 1..n /\ ~(i + k - 1 <= i)
      BY <1>1, <2>3
    <3>2. /\ list[i + k - 1].time <= e.time
          /\ \A h \in 1..n : list[h].time <= e.time => list[h].time <= list[i + k - 1].time
      BY <2>1, <3>1
    <3>3. ~(list[i + k - 1].time <= gvt) /\ list[i + k - 1].time \in Nat
      BY <1>1, <1>2, <3>1
    <3>4. ASSUME NEW h \in 1..(n - i + 1), new[h].time <= e.time
          PROVE  new[h].time <= new[k].time
      <4>1. CASE h = 1
        BY <1>1, <1>3, <3>1, <3>3, <4>1
      <4>2. CASE h \in 2..(n - i + 1)
        BY <1>1, <3>1, <3>2, <3>4, <4>2
      <4> QED
        BY <1>5, <4>1, <4>2
    <3> QED
      BY <1>1, <3>1, <3>2, <3>4 DEF StandsAt
  <2> QED
    BY <1>5, <2>2, <2>3
<1> QED
  BY <1>11, <1>12, <1>13 DEF new
(***************************************************************************)
(* The messages of a query on a link, and the order of the query and its   *)
(* anti-message.                                                           *)
(***************************************************************************)
Has(queue, type, id) == \E m \in ToSet(queue) : m.type = type /\ m.id = id

QueryFirst(queue, id) ==
    \A i, j \in DOMAIN queue :
      /\ queue[i].type = "query" /\ queue[i].id = id
      /\ queue[j].type = "anti" /\ queue[j].id = id
      => i < j

LEMMA HasInConcat ==
    ASSUME NEW M, NEW s \in Seq(M), NEW t \in Seq(M), NEW type, NEW id
    PROVE  Has(s \o t, type, id) <=> Has(s, type, id) \/ Has(t, type, id)
<1>1. ToSet(s \o t) = ToSet(s) \cup ToSet(t)
  BY ToSetOfConcat
<1> QED
  BY <1>1 DEF Has

LEMMA OrderIfNoAnti ==
    ASSUME NEW queue, NEW id, ~Has(queue, "anti", id)
    PROVE  QueryFirst(queue, id)
  BY DEF Has, QueryFirst, ToSet

LEMMA OrderInConcat ==
    ASSUME NEW M, NEW s \in Seq(M), NEW t \in Seq(M), NEW id,
           QueryFirst(s, id), ~Has(t, "query", id)
    PROVE  QueryFirst(s \o t, id)
<1> DEFINE u == s \o t
<1>1. PICK n \in Nat : n = Len(s)
  OBVIOUS
<1>2. PICK m \in Nat : m = Len(t)
  OBVIOUS
<1>3. /\ DOMAIN s = 1..n /\ DOMAIN t = 1..m /\ DOMAIN u = 1..(n + m)
      /\ \A i \in 1..n : u[i] = s[i]
      /\ \A i \in (n + 1)..(n + m) : u[i] = t[i - n]
  BY <1>1, <1>2
<1> HIDE DEF u
<1>4. ASSUME NEW i \in 1..(n + m), u[i].type = "query", u[i].id = id PROVE i \in 1..n
  <2> SUFFICES ASSUME ~(i \in 1..n) PROVE FALSE
    OBVIOUS
  <2>1. i \in (n + 1)..(n + m) /\ i - n \in 1..m
    OBVIOUS
  <2>2. u[i] \in ToSet(t)
    BY <1>3, <2>1 DEF ToSet
  <2> QED
    BY <1>4, <2>2 DEF Has
<1>5. ASSUME NEW i \in 1..(n + m), NEW j \in 1..(n + m),
             u[i].type = "query", u[i].id = id, u[j].type = "anti", u[j].id = id
      PROVE  i < j
  <2>1. i \in 1..n
    BY <1>4, <1>5
  <2>2. CASE j \in 1..n
    BY <1>3, <1>5, <2>1, <2>2 DEF QueryFirst
  <2>3. CASE ~(j \in 1..n)
    BY <2>1, <2>3
  <2> QED
    BY <2>2, <2>3
<1> QED
  BY <1>3, <1>5 DEF QueryFirst, u

LEMMA OrderAfterRemoval ==
    ASSUME NEW M, NEW s \in Seq(M), NEW n \in Nat, Len(s) = n, NEW k \in 1..n
    PROVE  LET r == RemoveAt(s, k)
           IN  /\ r \in Seq(M)
               /\ \A type, id : Has(r, type, id) => Has(s, type, id)
               /\ \A type, id : Has(s, type, id) /\ ~(s[k].type = type /\ s[k].id = id)
                    => Has(r, type, id)
               /\ \A id : QueryFirst(s, id) => QueryFirst(r, id)
<1> DEFINE r == RemoveAt(s, k)
<1>2. k \in 1..n /\ DOMAIN s = 1..n
  OBVIOUS
<1>3. r \in Seq(M) /\ Len(r) = n - 1
  BY RemoveAtElements
<1>4. \A i \in 1..(k - 1) : r[i] = s[i]
  BY RemoveAtElements
<1>5. \A i \in k..(n - 1) : r[i] = s[i + 1]
  BY RemoveAtElements
<1> HIDE DEF r
<1>6. DOMAIN r = 1..(n - 1)
  BY <1>2, <1>3
<1> DEFINE at(i) == IF i < k THEN i ELSE i + 1
<1>7. ASSUME NEW i \in 1..(n - 1) PROVE at(i) \in 1..n /\ r[i] = s[at(i)]
  <2>1. CASE i < k
    <3>1. i \in 1..(k - 1) /\ i \in 1..n /\ at(i) = i
      BY <1>2, <2>1
    <3> QED
      BY <1>4, <3>1
  <2>2. CASE ~(i < k)
    <3>1. i \in k..(n - 1) /\ i + 1 \in 1..n /\ at(i) = i + 1
      BY <1>2, <2>2
    <3> QED
      BY <1>5, <3>1
  <2> QED
    BY <2>1, <2>2
<1>8. ASSUME NEW i \in 1..(n - 1), NEW j \in 1..(n - 1), at(i) < at(j) PROVE i < j
  BY <1>2, <1>8
<1>9. ASSUME NEW j \in 1..n, j # k PROVE \E i \in 1..(n - 1) : at(i) = j
  <2>1. CASE j < k
    <3>1. j \in 1..(n - 1) /\ at(j) = j
      BY <1>2, <2>1
    <3> QED
      BY <3>1
  <2>2. CASE j > k
    <3>1. j - 1 \in 1..(n - 1) /\ at(j - 1) = j
      BY <1>2, <2>2
    <3> QED
      BY <3>1
  <2> QED
    BY <1>2, <1>9, <2>1, <2>2
<1> HIDE DEF at
<1>10. \A m : m \in ToSet(r) <=> \E i \in 1..(n - 1) : m = r[i]
  BY <1>6 DEF ToSet
<1>11. \A m : m \in ToSet(s) <=> \E i \in 1..n : m = s[i]
  BY <1>2 DEF ToSet
<1>12. ASSUME NEW type, NEW id, Has(r, type, id) PROVE Has(s, type, id)
  BY <1>7, <1>10, <1>11, <1>12 DEF Has
<1>13. ASSUME NEW type, NEW id, Has(s, type, id), ~(s[k].type = type /\ s[k].id = id)
       PROVE  Has(r, type, id)
  <2>1. PICK j \in 1..n : s[j].type = type /\ s[j].id = id
    BY <1>11, <1>13 DEF Has
  <2>2. PICK i \in 1..(n - 1) : at(i) = j
    BY <1>9, <1>13, <2>1
  <2> QED
    BY <1>7, <1>10, <2>1, <2>2 DEF Has
<1>14. ASSUME NEW id, QueryFirst(s, id) PROVE QueryFirst(r, id)
  <2> SUFFICES ASSUME NEW i \in 1..(n - 1), NEW j \in 1..(n - 1),
                      r[i].type = "query", r[i].id = id, r[j].type = "anti", r[j].id = id
               PROVE  i < j
    BY <1>6 DEF QueryFirst
  <2>1. at(i) \in 1..n /\ at(j) \in 1..n /\ r[i] = s[at(i)] /\ r[j] = s[at(j)]
    BY <1>7
  <2>2. at(i) < at(j)
    BY <1>2, <1>14, <2>1 DEF QueryFirst
  <2> QED
    BY <1>8, <2>2
<1> QED
  BY <1>3, <1>12, <1>13, <1>14 DEF r

\* What a handler takes and sends, seen from a query.
LEMMA ExchangedHas ==
    ASSUME NEW M, net \in [Link -> Seq(M)], NEW l \in Link, NEW i \in DOMAIN net[l],
           NEW out, \A d \in DOMAIN out : out[d] \in Seq(M), NEW k \in Link, NEW id
    PROVE  LET queue == Exchanged(l, i, out)[k]
               more == OutOn(k, l[2], out)
           IN  /\ \A type : Has(queue, type, id) => Has(net[k], type, id) \/ Has(more, type, id)
               /\ \A type : Has(more, type, id) => Has(queue, type, id)
               /\ \A type : /\ Has(net[k], type, id)
                            /\ k # l \/ ~(net[l][i].type = type /\ net[l][i].id = id)
                            => Has(queue, type, id)
               /\ QueryFirst(net[k], id) /\ ~Has(more, "query", id) => QueryFirst(queue, id)
               /\ ~Has(net[k], "anti", id) /\ ~Has(more, "anti", id) => QueryFirst(queue, id)
<1> DEFINE rest == IF k = l THEN RemoveAt(net[l], i) ELSE net[k]
           more == OutOn(k, l[2], out)
           queue == Exchanged(l, i, out)[k]
<1>1. net[k] \in Seq(M) /\ net[l] \in Seq(M)
  OBVIOUS
<1>2. more \in Seq(M)
  BY OutOnIsSeq
<1>3. queue = rest \o more
  BY DEF Exchanged, OutOn
<1>4. /\ rest \in Seq(M)
      /\ \A type : Has(rest, type, id) => Has(net[k], type, id)
      /\ \A type : /\ Has(net[k], type, id)
                   /\ k # l \/ ~(net[l][i].type = type /\ net[l][i].id = id)
                   => Has(rest, type, id)
      /\ QueryFirst(net[k], id) => QueryFirst(rest, id)
  <2>1. CASE k = l
    <3>1. PICK s \in Seq(M) : s = net[l]
      BY <1>1
    <3>2. PICK n \in Nat : n = Len(s)
      OBVIOUS
    <3>3. i \in 1..n /\ Len(s) = n
      BY <3>1, <3>2
    <3>4. /\ RemoveAt(s, i) \in Seq(M)
          /\ \A type : Has(RemoveAt(s, i), type, id) => Has(s, type, id)
          /\ \A type : Has(s, type, id) /\ ~(s[i].type = type /\ s[i].id = id)
               => Has(RemoveAt(s, i), type, id)
          /\ QueryFirst(s, id) => QueryFirst(RemoveAt(s, i), id)
      BY <3>3, OrderAfterRemoval
    <3> QED
      BY <2>1, <3>1, <3>4
  <2>2. CASE k # l
    BY <1>1, <2>2
  <2> QED
    BY <2>1, <2>2
<1> HIDE DEF rest, more, queue
<1>5. \A type : Has(queue, type, id) <=> Has(rest, type, id) \/ Has(more, type, id)
  BY <1>2, <1>3, <1>4, HasInConcat
<1>6. QueryFirst(net[k], id) /\ ~Has(more, "query", id) => QueryFirst(queue, id)
  BY <1>2, <1>3, <1>4, OrderInConcat
<1>7. ~Has(net[k], "anti", id) /\ ~Has(more, "anti", id) => QueryFirst(queue, id)
  BY <1>4, <1>5, OrderIfNoAnti
<1> QED
  BY <1>4, <1>5, <1>6, <1>7 DEF queue, more

LEMMA NothingSent ==
    ASSUME NEW k, NEW p, NEW out,
           k[1] # p \/ GetDirectionFromRank(k[1], k[2]) \notin DOMAIN out
    PROVE  /\ OutOn(k, p, out) = <<>>
           /\ \A type, id : ~Has(OutOn(k, p, out), type, id)
  BY DEF OutOn, Has, ToSet

LEMMA AntiIsFirst ==
    ASSUME NEW M, NEW queue \in Seq(M), NEW i \in Receivable(queue), queue[i].type # "update"
    PROVE  /\ i = 1 /\ i \in DOMAIN queue
           /\ \A id : queue[i].type = "anti" /\ queue[i].id = id /\ QueryFirst(queue, id)
                => ~Has(queue, "query", id)
<1> DEFINE updates == {j \in DOMAIN queue : queue[j].type = "update"}
<1>1. updates \in SUBSET Nat
  OBVIOUS
<1>2. updates # {} => Min(updates) \in updates
  <2> HIDE DEF updates
  <2> QED
    BY <1>1, MinInSet
<1>3. i = 1 /\ i \in DOMAIN queue
  BY <1>2 DEF Receivable
<1>4. \A j \in DOMAIN queue : ~(j < 1)
  OBVIOUS
<1> QED
  BY <1>3, <1>4 DEF QueryFirst, Has, ToSet
-----------------------------------------------------------------------------
(***************************************************************************)
(* The trail of a query: what the CLPs have noted of it, and what is on    *)
(* its way.  Links and CLPs are seen from the agent a of the query.        *)
(***************************************************************************)
FromAgent(l, a) ==
    l[2] \in Clp /\ GetDirectionFromRank(l[2], l[1]) = GetDirectionFromRank(l[2], a)
Behind(p, a) == {q \in Clp : GetDirectionFromRank(p, q) # GetDirectionFromRank(p, a)}

Knows(table, p, id) == \E d \in Direction : \E e \in EntriesOf(table[p][d]) : e.id = id
PassedOn(table, p, d, id) == \E e \in EntriesOf(table[p][d]) : e.id = id /\ ~e.blocked

Carries(links, l, id) == Has(links[l], "query", id) \/ Has(links[l], "anti", id)
Touched(table, links, q, id) ==
    Knows(table, q, id) \/ \E l \in Link : l[1] = q /\ l[2] \in Clp /\ Carries(links, l, id)

\* On its way, a query is before its anti-message; it comes to CLPs that have heard
\* of neither; and what a CLP has noted of it, or is about to, is noted as passed on
\* by the one it came from, unless the anti-message is on the way.
Ordered(links, a, id) == \A l \in Link : FromAgent(l, a) => QueryFirst(links[l], id)

Untouched(table, links, a, id) ==
    \A l \in Link : FromAgent(l, a) /\ Has(links[l], "query", id) =>
      \A q \in Behind(l[2], a) : ~Touched(table, links, q, id)

Source(table, undone, l, id) ==
    IF l[1] \in Clp THEN PassedOn(table, l[1], GetDirectionFromRank(l[1], l[2]), id)
                    ELSE id \notin undone
Followed(table, links, undone, a, id) ==
    \A l \in Link :
      FromAgent(l, a) /\ (Has(links[l], "query", id) \/ Knows(table, l[2], id))
      => Source(table, undone, l, id) \/ Has(links[l], "anti", id)

OwnAntis(links, asked) ==
    \A a \in Alps : \A m \in ToSet(links[<<a, AlpParent[a]>>]) :
      m.type = "anti" => asked[m.id].agent = a

LEMMA LinkInto ==
    ASSUME LinksAgree, WaysAgree, NEW a \in Alps, NEW t \in Clp, NEW l \in Link,
           l[2] \in Behind(t, a)
    PROVE  \/ l[2] = t /\ FromAgent(l, a)
           \/ l[1] \in Clp /\ l[1] \in Behind(t, a)
           \/ l[1] \in Alps /\ l[1] # a
<1> DEFINE q == l[2]
           s == l[1]
           D(p, r) == GetDirectionFromRank(p, r)
<1>1. q \in Clp /\ D(t, q) # D(t, a)
  BY DEF Behind
<1>2. s \in Neighbours(q) /\ s # q /\ (s \in Clp \/ s \in Alps)
  <2>1. s \in Neighbours(q) /\ s # q
    BY <1>1, SenderIs
  <2>2. s \in LpRank
    BY LinkEnds
  <2> QED
    BY <2>1, <2>2 DEF LpRank
<1>3. t \in LpRank /\ a \in LpRank /\ a # t
  BY ClpOrAlp
<1>4. D(t, t) = HERE /\ D(t, a) # HERE
  BY <1>3 DEF LinksAgree
<1>5. D(t, s) = D(t, a) => q = t
  <2> SUFFICES ASSUME D(t, s) = D(t, a), q # t PROVE FALSE
    OBVIOUS
  <2>1. t # s
    BY <1>4
  <2>2. D(t, q) = D(t, s)
    BY <1>1, <1>2, <2>1 DEF WaysAgree
  <2> QED
    BY <1>1, <2>2
<1>6. CASE D(t, s) = D(t, a)
  BY <1>1, <1>5, <1>6 DEF FromAgent
<1>7. CASE D(t, s) # D(t, a)
  BY <1>2, <1>7 DEF Behind
<1> QED
  BY <1>6, <1>7

LEMMA OnFromAgent ==
    ASSUME LinksAgree, NEW a \in Alps, NEW l \in Link, FromAgent(l, a), l[1] \in Clp
    PROVE  /\ l[2] \in ClpNeighbours(l[1]) /\ l = <<l[1], l[2]>>
           /\ GetDirectionFromRank(l[1], l[2]) # GetDirectionFromRank(l[1], a)
           /\ l[2] \in Behind(l[1], a)
           /\ Behind(l[2], a) \subseteq Behind(l[1], a) \ {l[1]}
<1> DEFINE t == l[1]
           s == l[2]
           D(p, r) == GetDirectionFromRank(p, r)
<1>1. s \in Clp /\ D(s, t) = D(s, a)
  BY DEF FromAgent
<1>2. t \in ClpNeighbours(s)
  BY <1>1, SenderIs, ClpOrAlp
<1>3. s \in ClpNeighbours(t) /\ \A r \in LpRank : D(s, r) = D(s, t) <=> D(t, r) # D(t, s)
  BY <1>1, <1>2, BothWays
<1>4. a \in LpRank /\ Clp \subseteq LpRank
  BY ClpOrAlp
<1>5. D(t, s) # D(t, a)
  BY <1>1, <1>3, <1>4
<1>6. ASSUME NEW q \in Behind(s, a) PROVE q \in Behind(t, a) \ {t}
  <2>1. q \in Clp /\ D(s, q) # D(s, t)
    BY <1>1 DEF Behind
  <2>2. D(t, q) = D(t, s)
    BY <1>3, <1>4, <2>1
  <2> QED
    BY <1>5, <2>1, <2>2 DEF Behind
<1>7. l = <<l[1], l[2]>>
  BY LinkEnds
<1> QED
  BY <1>1, <1>3, <1>5, <1>6, <1>7 DEF Behind

LEMMA OneFromAgent ==
    ASSUME LinksAgree, NEW a \in Alps, NEW k \in Link, NEW l \in Link,
           FromAgent(k, a), FromAgent(l, a), k[2] = l[2]
    PROVE  k = l
<1>1. k[1] \in Neighbours(k[2]) /\ l[1] \in Neighbours(k[2]) /\ k[2] \in Clp
  BY SenderIs DEF FromAgent
<1>2. k[1] = l[1]
  BY <1>1, OnePortEach DEF FromAgent
<1> QED
  BY <1>2, LinkEnds

LEMMA FromAgentItself ==
    ASSUME LinksAgree, NEW a \in Alps, NEW l \in Link, FromAgent(l, a), l[1] \notin Clp
    PROVE  l[1] = a /\ l = <<a, AlpParent[a]>> /\ l[2] = AlpParent[a]
<1>1. /\ l[1] \in Neighbours(l[2]) /\ l[2] \in Clp
      /\ l[1] \in Alps /\ AlpParent[l[1]] = l[2]
  BY SenderIs DEF FromAgent, ClpNeighbours
<1>2. a \in LpRank
  BY ClpOrAlp
<1>3. a = l[1]
  BY <1>1, <1>2 DEF LinksAgree, FromAgent
<1> QED
  BY <1>1, <1>3, LinkEnds

LEMMA HereIsBehind ==
    ASSUME LinksAgree, NEW a \in Alps, NEW p \in Clp
    PROVE  p \in Behind(p, a)
<1>1. p \in LpRank /\ a \in LpRank /\ a # p
  BY ClpOrAlp
<1> QED
  BY <1>1 DEF LinksAgree, Behind

\* There is nothing else of a query where it is still going to.
LEMMA Unreached ==
    ASSUME LinksAgree, WaysAgree, NEW table, NEW a \in Alps, NEW id,
           OwnQueries(net, queries), OwnAntis(net, queries), queries[id].agent = a,
           Untouched(table, net, a, id),
           NEW k \in Link, FromAgent(k, a), Has(net[k], "query", id),
           NEW l \in Link, l[2] \in Behind(k[2], a), Carries(net, l, id)
    PROVE  l = k
<1>1. k[2] \in Clp /\ l[2] \in Clp
  BY DEF FromAgent, Behind
<1>2. CASE l[2] = k[2] /\ FromAgent(l, a)
  BY <1>2, OneFromAgent
<1>3. CASE l[1] \in Clp /\ l[1] \in Behind(k[2], a)
  <2>1. Touched(table, net, l[1], id)
    BY <1>1 DEF Touched
  <2> QED
    BY <1>3, <2>1 DEF Untouched
<1>4. CASE l[1] \in Alps /\ l[1] # a
  <2>1. AlpParent[l[1]] = l[2] /\ l = <<l[1], l[2]>>
    BY <1>1, <1>4, SenderIs, LinkEnds, ClpOrAlp DEF ClpNeighbours
  <2>2. PICK m \in ToSet(net[l]) : m.type \in {"query", "anti"} /\ m.id = id
    BY DEF Carries, Has
  <2>3. queries[id].agent = l[1]
    BY <1>4, <2>1, <2>2 DEF OwnQueries, OwnAntis
  <2> QED
    BY <1>4, <2>3
<1> QED
  BY <1>1, <1>2, <1>3, <1>4, LinkInto

(***************************************************************************)
(* A step that leaves a query and its anti-message alone.                  *)
(***************************************************************************)
SameOnLinks(old, new, id) ==
    \A l \in Link : l[2] \in Clp =>
      /\ Has(new[l], "query", id) => Has(old[l], "query", id)
      /\ Has(new[l], "anti", id) <=> Has(old[l], "anti", id)
      /\ QueryFirst(old[l], id) => QueryFirst(new[l], id)
NoMoreKnow(old, new, id) == \A p \in Clp : Knows(new, p, id) => Knows(old, p, id)
StayPassedOn(old, new, id) ==
    \A p \in Clp, d \in Direction : PassedOn(old, p, d, id) => PassedOn(new, p, d, id)

LEMMA CalmKeeps ==
    ASSUME LinksAgree, NEW table, NEW links, NEW undone, NEW table2, NEW links2, NEW undone2,
           NEW a, NEW id, SameOnLinks(links, links2, id), NoMoreKnow(table, table2, id),
           id \in undone2 => id \in undone
    PROVE  /\ Ordered(links, a, id) => Ordered(links2, a, id)
           /\ Untouched(table, links, a, id) => Untouched(table2, links2, a, id)
           /\ StayPassedOn(table, table2, id) /\ Followed(table, links, undone, a, id)
                => Followed(table2, links2, undone2, a, id)
<1>1. Ordered(links, a, id) => Ordered(links2, a, id)
  BY DEF Ordered, SameOnLinks, FromAgent
<1>2. ASSUME NEW q \in Clp, Touched(table2, links2, q, id) PROVE Touched(table, links, q, id)
  BY <1>2 DEF Touched, Carries, SameOnLinks, NoMoreKnow
<1>3. Untouched(table, links, a, id) => Untouched(table2, links2, a, id)
  BY <1>2 DEF Untouched, SameOnLinks, FromAgent, Behind
<1>4. ASSUME StayPassedOn(table, table2, id), Followed(table, links, undone, a, id),
             NEW l \in Link, FromAgent(l, a),
             Has(links2[l], "query", id) \/ Knows(table2, l[2], id)
      PROVE  Source(table2, undone2, l, id) \/ Has(links2[l], "anti", id)
  <2>1. l[2] \in Clp
    BY <1>4 DEF FromAgent
  <2>2. Has(links[l], "query", id) \/ Knows(table, l[2], id)
    BY <1>4, <2>1 DEF SameOnLinks, NoMoreKnow
  <2>3. Source(table, undone, l, id) \/ Has(links[l], "anti", id)
    BY <1>4, <2>2 DEF Followed
  <2>4. Has(links[l], "anti", id) => Has(links2[l], "anti", id)
    BY <2>1 DEF SameOnLinks
  <2>5. Source(table, undone, l, id) => Source(table2, undone2, l, id)
    <3>1. l[2] \in LpRank
      BY LinkEnds
    <3>2. l[1] \in Clp => GetDirectionFromRank(l[1], l[2]) \in Direction
      BY <3>1 DEF LinksAgree
    <3> QED
      BY <1>4, <3>2 DEF Source, StayPassedOn
  <2> QED
    BY <2>3, <2>4, <2>5
<1> QED
  BY <1>1, <1>3, <1>4 DEF Followed
-----------------------------------------------------------------------------
(***************************************************************************)
(* The invariant: the trail of every query, what is noted where, and in    *)
(* which period, as long as no flaw was met that is in its way.            *)
(***************************************************************************)
Ahead(gvt, t) == \A p \in Clp : t >= gvt[p]

EntriesFit(table, asked) ==
    \A p \in Clp, d \in Direction : \A e \in EntriesOf(table[p][d]) :
      e.time = asked[e.id].time /\ d # GetDirectionFromRank(p, asked[e.id].agent)

AllInPlace(table) == \A p \in Clp, d \in Direction : InPlace(table[p][d])

NoFlaw(seen) == "tied" \notin seen /\ "misread" \notin seen

TrailOf(table, links, undone, gvt, seen, asked, id) ==
    /\ Ordered(links, asked[id].agent, id)
    /\ Untouched(table, links, asked[id].agent, id)
    /\ NoFlaw(seen) /\ Ahead(gvt, asked[id].time)
         => Followed(table, links, undone, asked[id].agent, id)

Trail(id) == TrailOf(fRangeRoutingTable, net, retracted, fGVT, met, queries, id)

Trails ==
    /\ EntriesFit(fRangeRoutingTable, queries) /\ OwnAntis(net, queries)
    /\ "tied" \notin met => AllInPlace(fRangeRoutingTable)
    /\ \A id \in Ids : Trail(id)

LEMMA CalmTrail ==
    ASSUME LinksAgree, NEW id,
           NEW table, NEW links, NEW undone, NEW gvt, NEW seen, NEW asked,
           NEW table2, NEW links2, NEW undone2, NEW gvt2, NEW seen2, NEW asked2,
           TrailOf(table, links, undone, gvt, seen, asked, id),
           SameOnLinks(links, links2, id), NoMoreKnow(table, table2, id),
           id \in undone2 => id \in undone, seen \subseteq seen2, asked2[id] = asked[id],
           Ahead(gvt2, asked[id].time) => Ahead(gvt, asked[id].time),
           NoFlaw(seen2) /\ Ahead(gvt2, asked[id].time) => StayPassedOn(table, table2, id)
    PROVE  TrailOf(table2, links2, undone2, gvt2, seen2, asked2, id)
<1> DEFINE a == asked[id].agent
<1>1. /\ Ordered(links, a, id) => Ordered(links2, a, id)
      /\ Untouched(table, links, a, id) => Untouched(table2, links2, a, id)
      /\ StayPassedOn(table, table2, id) /\ Followed(table, links, undone, a, id)
           => Followed(table2, links2, undone2, a, id)
  BY CalmKeeps
<1>2. NoFlaw(seen2) => NoFlaw(seen)
  BY DEF NoFlaw
<1> QED
  BY <1>1, <1>2 DEF TrailOf

\* What is sent says nothing of a query.
Silent(out, id) ==
    \A d \in DOMAIN out : \A m \in ToSet(out[d]) : m.type \in {"query", "anti"} => m.id # id

LEMMA SilentOn ==
    ASSUME NEW out, NEW id, Silent(out, id), NEW k, NEW p
    PROVE  ~Has(OutOn(k, p, out), "query", id) /\ ~Has(OutOn(k, p, out), "anti", id)
<1>1. CASE k[1] = p /\ GetDirectionFromRank(k[1], k[2]) \in DOMAIN out
  <2>1. OutOn(k, p, out) = out[GetDirectionFromRank(k[1], k[2])]
    BY <1>1 DEF OutOn
  <2> QED
    BY <1>1, <2>1 DEF Has, Silent
<1>2. CASE ~(k[1] = p /\ GetDirectionFromRank(k[1], k[2]) \in DOMAIN out)
  BY <1>2, NothingSent
<1> QED
  BY <1>1, <1>2

LEMMA ExchangedCalm ==
    ASSUME NEW M, net \in [Link -> Seq(M)], NEW l \in Link, NEW i \in DOMAIN net[l],
           NEW out, \A d \in DOMAIN out : out[d] \in Seq(M), NEW id, Silent(out, id),
           net[l][i].type \in {"query", "anti"} => net[l][i].id # id
    PROVE  SameOnLinks(net, Exchanged(l, i, out), id)
<1> SUFFICES ASSUME NEW k \in Link
             PROVE  /\ Has(Exchanged(l, i, out)[k], "query", id) => Has(net[k], "query", id)
                    /\ Has(Exchanged(l, i, out)[k], "anti", id) <=> Has(net[k], "anti", id)
                    /\ QueryFirst(net[k], id) => QueryFirst(Exchanged(l, i, out)[k], id)
  BY DEF SameOnLinks
<1>1. ~Has(OutOn(k, l[2], out), "query", id) /\ ~Has(OutOn(k, l[2], out), "anti", id)
  BY SilentOn
<1> DEFINE queue == Exchanged(l, i, out)[k]
<1>2. /\ \A type : Has(queue, type, id) => Has(net[k], type, id) \/ Has(OutOn(k, l[2], out), type, id)
      /\ \A type : /\ Has(net[k], type, id)
                   /\ k # l \/ ~(net[l][i].type = type /\ net[l][i].id = id)
                   => Has(queue, type, id)
      /\ QueryFirst(net[k], id) /\ ~Has(OutOn(k, l[2], out), "query", id) => QueryFirst(queue, id)
  BY ExchangedHas
<1>3. ~(net[l][i].type = "anti" /\ net[l][i].id = id)
  OBVIOUS
<1> QED
  BY <1>1, <1>2, <1>3
-----------------------------------------------------------------------------
\* On a link from the agent, there is at most one message for a query.
LEMMA OneOnItsWay ==
    ASSUME LinksAgree, Inv, NEW l \in Link, NEW id \in Ids, FromAgent(l, queries[id].agent)
    PROVE  InQueue(net[l], id) <= 1
<1> DEFINE a == queries[id].agent
<1>1. Types /\ Edges /\ AskedOnce /\ a \in Alps
  BY QueryFields DEF Inv, Types
<1>2. CASE l[1] \in Clp
  <2>1. l[2] \in ClpNeighbours(l[1]) /\ l = <<l[1], l[2]>> /\ IsBeyond(l[1], l[2], id)
    BY <1>1, <1>2, OnFromAgent DEF IsBeyond, AgentPort
  <2>2. Edge(net, fRangeTracker, l[1], l[2], id)
    BY <1>1, <1>2, <2>1 DEF Edges
  <2>3. <<l[2], l[1]>> \in Link
    BY <1>2, <2>1, BothWays
  <2> DEFINE here == InQueue(net[l], id)
             back == InQueue(net[<<l[2], l[1]>>], id)
  <2>4. here \in Nat /\ back \in Nat
    BY <1>1, <2>3, Counts
  <2>5. here + back + Tracks(fRangeTracker, l[2], id)
          = Waits(fRangeTracker, l[1], GetDirectionFromRank(l[1], l[2]), id)
    BY <2>1, <2>2 DEF Edge
  <2> HIDE DEF here, back
  <2>6. here <= 1
    BY <2>4, <2>5 DEF Tracks, Waits
  <2> QED
    BY <2>6 DEF here
<1>3. CASE l[1] \notin Clp
  <2>1. l = <<a, AlpParent[a]>>
    BY <1>1, <1>3, FromAgentItself
  <2>2. Asked(net, fRangeTracker, a, id)
    BY <1>1 DEF AskedOnce
  <2> DEFINE here == InQueue(net[l], id)
  <2>3. here \in Nat
    BY <1>1, Counts
  <2>4. here + Tracks(fRangeTracker, AlpParent[a], id) <= 1
    BY <2>1, <2>2 DEF Asked
  <2> HIDE DEF here
  <2>5. here <= 1
    BY <2>3, <2>4 DEF Tracks
  <2> QED
    BY <2>5 DEF here
<1> QED
  BY <1>2, <1>3

LEMMA NoneLeft ==
    ASSUME LinksAgree, Inv, NEW l \in Link, NEW i \in DOMAIN net[l], NEW id \in Ids,
           net[l][i].type = "query", net[l][i].id = id, FromAgent(l, queries[id].agent),
           NEW out, OnlyQueries(out, id)
    PROVE  ~Has(Exchanged(l, i, out)[l], "query", id)
<1> DEFINE new == Exchanged(l, i, out)[l]
<1>1. l[1] # l[2]
  BY SenderIs DEF FromAgent
<1>2. AreMessages(net, Ids) /\ Types
  BY DEF Inv, Types, NetTypes
<1>3. InQueue(new, id) = InQueue(net[l], id) - (IF l = l THEN 1 ELSE 0)
                           + (IF l[1] = l[2] /\ SendsTo(l[1], l[2], out) THEN 1 ELSE 0)
  BY <1>2, CountsOfQueries
<1>4. InQueue(net[l], id) <= 1 /\ InQueue(net[l], id) \in Nat
  BY <1>2, OneOnItsWay, Counts
<1>5. \A found \in Found : <<Query(id, found)>> \in Seq(MessageOf(Ids))
  BY MessagesToSend
<1>6. \A d \in DOMAIN out : out[d] \in Seq(MessageOf(Ids))
  BY <1>5 DEF OnlyQueries
<1>7. net \in [Link -> Seq(MessageOf(Ids))]
  BY <1>2 DEF AreMessages
<1>8. Exchanged(l, i, out) \in [Link -> Seq(MessageOf(Ids))]
  BY <1>6, <1>7, ExchangedLinks
<1>9. new \in Seq(MessageOf(Ids))
  BY <1>8
<1> HIDE DEF new
<1>10. InQueue(new, id) <= 0
  BY <1>1, <1>3, <1>4
<1>11. Places(new, id) = {}
  <2>1. InQueue(new, id) \in Nat /\ (Places(new, id) # {} => InQueue(new, id) >= 1)
    BY <1>9, PlacesAreFinite
  <2> QED
    BY <1>10, <2>1
<1>12. ~Has(new, "query", id)
  BY <1>9, <1>11 DEF Places, Has, ToSet
<1> QED
  BY <1>12 DEF new

LEMMA OthersSilent ==
    ASSUME NEW out, NEW id, OnlyQueries(out, id), NEW other, other # id
    PROVE  Silent(out, other)
  BY DEF OnlyQueries, Silent, Query, ToSet

LEMMA QueriesHaveNoAnti ==
    ASSUME NEW out, NEW id, OnlyQueries(out, id), NEW k, NEW p, NEW other
    PROVE  ~Has(OutOn(k, p, out), "anti", other)
<1>1. CASE k[1] = p /\ GetDirectionFromRank(k[1], k[2]) \in DOMAIN out
  <2>1. OutOn(k, p, out) = out[GetDirectionFromRank(k[1], k[2])]
    BY <1>1 DEF OutOn
  <2>2. PICK found \in Found : OutOn(k, p, out) = <<Query(id, found)>>
    BY <1>1, <2>1 DEF OnlyQueries
  <2> QED
    BY <2>2 DEF Has, Query, ToSet
<1>2. CASE ~(k[1] = p /\ GetDirectionFromRank(k[1], k[2]) \in DOMAIN out)
  BY <1>2, NothingSent
<1> QED
  BY <1>1, <1>2

(***************************************************************************)
(* A new query.                                                            *)
(***************************************************************************)
GoesOnward(p, id, out) ==
    /\ OnlyQueries(out, id)
    /\ \A d \in DOMAIN out : d # AgentPort(p, id) => d \in NotBlocked(p, id)
    /\ AgentPort(p, id) \notin NotBlocked(p, id)

LEMMA NewQuerySends ==
    ASSUME LinksAgree, Inv, NEW l \in Link, l[2] \in Clp, NEW i \in DOMAIN net[l],
           ProcessNewQuery(l[2], l, i)
    PROVE  \E out : net' = Exchanged(l, i, out) /\ GoesOnward(l[2], net[l][i].id, out)
<1> DEFINE p == l[2]
           id == net[l][i].id
           outs == Outstanding(p, id)
           found == IF HERE \in NotBlocked(p, id)
                    THEN RangeRead(p, queries[id].box, queries[id].time) ELSE {}
           status == [originPort |-> AgentPort(p, id), outstanding |-> outs, found |-> found]
           onward == [d \in NotBlocked(p, id) \ {HERE} |-> <<Query(id, {})>>]
           out == IF status.outstanding = {} THEN Reply(id, status) ELSE onward
<1>1. net[l][i].type = "query" /\ net' = Exchanged(l, i, out)
  BY DEF ProcessNewQuery
<1>2. Types /\ InTime(net, fGVT, queries)
  BY DEF Inv
<1>3. id \in Ids
  BY <1>1, CameFrom
<1>4. fGVT[p] <= queries[id].time
  <2>1. net[l][i] \in ToSet(net[l])
    BY DEF ToSet
  <2> QED
    BY <1>1, <1>2, <2>1 DEF InTime
<1>5. AgentPort(p, id) \notin NotBlocked(p, id)
  BY <1>3, <1>4, AllRanged
<1>6. found \in Found /\ {} \in Found
  <2>1. RangeRead(p, queries[id].box, queries[id].time) \in Found
    BY <1>2, <1>3, QueryFields, RangeReadIsFound DEF Types, HistoryTypes
  <2> QED
    BY <2>1, FoundIsClosed
<1>7. GoesOnward(p, id, Reply(id, status))
  <2>1. Reply(id, status) = [d \in IF outs = {} THEN {AgentPort(p, id)} ELSE {} |->
                               <<Query(id, found)>>]
    BY DEF Reply
  <2> HIDE DEF status, outs, found, id
  <2> QED
    BY <1>5, <1>6, <2>1 DEF GoesOnward, OnlyQueries
<1>8. GoesOnward(p, id, onward)
  <2> HIDE DEF id
  <2> QED
    BY <1>5, <1>6 DEF GoesOnward, OnlyQueries
<1>9. GoesOnward(p, id, out)
  <2> HIDE DEF onward, outs, found, id
  <2> QED
    BY <1>7, <1>8
<1> HIDE DEF out
<1> QED
  BY <1>1, <1>9
-----------------------------------------------------------------------------
\* What a CLP notes of a new query: for each port it goes on to, that it did.
NotesOf(new, p, id) ==
    /\ DOMAIN new = Clp
    /\ \A q \in Clp, d \in Direction :
         /\ EntriesOf(fRangeRoutingTable[q][d]) \subseteq EntriesOf(new[q][d])
         /\ \A e \in EntriesOf(new[q][d]) :
              e \notin EntriesOf(fRangeRoutingTable[q][d]) =>
                /\ q = p /\ d # AgentPort(p, id)
                /\ e.id = id /\ e.time = queries[id].time
         /\ InPlace(fRangeRoutingTable[q][d]) => InPlace(new[q][d])
    /\ \A d \in NotBlocked(p, id) : PassedOn(new, p, d, id)

LEMMA NotedEntries ==
    ASSUME Types, LinksAgree, NEW p \in Clp, NEW id \in Ids
    PROVE  NotesOf([fRangeRoutingTable EXCEPT ![p] = Noted(p, id)], p, id)
<1> DEFINE row == Noted(p, id)
           new == [fRangeRoutingTable EXCEPT ![p] = row]
           e(d) == [id |-> id, time |-> queries[id].time, box |-> queries[id].box,
                    blocked |-> d \notin NotBlocked(p, id), agent |-> queries[id].agent]
<1>1. AreTables(fRangeRoutingTable, fGVT, Ids)
  BY DEF Types, TableTypes
<1>2. /\ queries[id].agent \in Alps /\ queries[id].time \in Time /\ queries[id].box \in Box
  BY QueryFields DEF Types
<1>3. \A d : /\ d \in Direction => e(d) \in EntryOf(Ids)
             /\ e(d).id = id /\ e(d).time = queries[id].time
             /\ e(d).blocked = (d \notin NotBlocked(p, id))
  BY <1>2 DEF EntryOf
<1>4. \A d \in Direction : row[d] = IF d \in Ranged(p, id)
                                    THEN AddRangeQueryInfo(fRangeRoutingTable[p][d], e(d))
                                    ELSE fRangeRoutingTable[p][d]
  BY DEF Noted
<1>5. /\ Ranged(p, id) \subseteq Direction /\ AgentPort(p, id) \notin Ranged(p, id)
      /\ \A d \in Ranged(p, id) : HasRangePeriod(fRangeRoutingTable[p][d], queries[id].time)
      /\ NotBlocked(p, id) \subseteq Ranged(p, id)
  BY PortsAreDirections DEF Ranged, Targets, NotBlocked
<1>6. \A q \in Clp : new[q] = IF q = p THEN row ELSE fRangeRoutingTable[q]
  BY <1>1 DEF AreTables
<1>7. DOMAIN new = Clp
  BY <1>1 DEF AreTables
<1> HIDE DEF e, row, new
<1>8. ASSUME NEW d \in Ranged(p, id)
      PROVE  LET list == fRangeRoutingTable[p][d]
             IN  /\ EntriesOf(row[d]) \subseteq EntriesOf(list) \cup {e(d)}
                 /\ EntriesOf(list) \subseteq EntriesOf(row[d])
                 /\ e(d) \in EntriesOf(row[d])
                 /\ InPlace(list) => InPlace(row[d])
  <2>1. PICK list \in Periods(Ids) : list = fRangeRoutingTable[p][d]
    BY <1>1, <1>5 DEF AreTables
  <2>2. PICK f \in EntryOf(Ids) : f = e(d) /\ f.time = queries[id].time
    BY <1>3, <1>5
  <2>3. /\ EntriesOf(AddRangeQueryInfo(list, f)) \subseteq EntriesOf(list) \cup {f}
        /\ EntriesOf(list) \subseteq EntriesOf(AddRangeQueryInfo(list, f))
        /\ HasRangePeriod(list, f.time) => f \in EntriesOf(AddRangeQueryInfo(list, f))
        /\ InPlace(list) => InPlace(AddRangeQueryInfo(list, f))
    BY AddRangeQueryInfoEntries
  <2>4. row[d] = AddRangeQueryInfo(list, f) /\ HasRangePeriod(list, f.time)
    BY <1>4, <1>5, <2>1, <2>2
  <2> QED
    BY <2>1, <2>2, <2>3, <2>4
<1>9. ASSUME NEW q \in Clp, NEW d \in Direction
      PROVE  /\ EntriesOf(fRangeRoutingTable[q][d]) \subseteq EntriesOf(new[q][d])
             /\ \A f \in EntriesOf(new[q][d]) :
                  f \notin EntriesOf(fRangeRoutingTable[q][d]) =>
                    /\ q = p /\ d # AgentPort(p, id)
                    /\ f.id = id /\ f.time = queries[id].time
             /\ InPlace(fRangeRoutingTable[q][d]) => InPlace(new[q][d])
  <2>1. CASE q = p /\ d \in Ranged(p, id)
    <3>1. new[q][d] = row[d]
      BY <1>6, <2>1
    <3> QED
      BY <1>3, <1>5, <1>8, <2>1, <3>1
  <2>2. CASE ~(q = p /\ d \in Ranged(p, id))
    <3>1. new[q][d] = fRangeRoutingTable[q][d]
      BY <1>4, <1>6, <2>2
    <3> QED
      BY <3>1
  <2> QED
    BY <2>1, <2>2
<1>10. ASSUME NEW d \in NotBlocked(p, id) PROVE PassedOn(new, p, d, id)
  <2>1. new[p][d] = row[d]
    BY <1>6
  <2>2. e(d) \in EntriesOf(new[p][d])
    BY <1>5, <1>8, <2>1
  <2> QED
    BY <1>3, <2>2 DEF PassedOn
<1>11. NotesOf(new, p, id)
  BY <1>7, <1>9, <1>10 DEF NotesOf
<1> QED
  BY <1>11 DEF new, row

LEMMA NotesKeep ==
    ASSUME NEW new, NEW p \in Clp, NEW id \in Ids, NotesOf(new, p, id)
    PROVE  /\ EntriesFit(fRangeRoutingTable, queries) => EntriesFit(new, queries)
           /\ AllInPlace(fRangeRoutingTable) => AllInPlace(new)
           /\ \A j : StayPassedOn(fRangeRoutingTable, new, j)
           /\ \A j : j # id => NoMoreKnow(fRangeRoutingTable, new, j)
           /\ \A j : \A q \in Clp \ {p} : Knows(new, q, j) => Knows(fRangeRoutingTable, q, j)
<1>1. ASSUME NEW q \in Clp, NEW d \in Direction, NEW e \in EntriesOf(new[q][d])
      PROVE  \/ e \in EntriesOf(fRangeRoutingTable[q][d])
             \/ /\ q = p /\ d # AgentPort(p, id)
                /\ e.id = id /\ e.time = queries[id].time
  BY DEF NotesOf
<1>2. EntriesFit(fRangeRoutingTable, queries) => EntriesFit(new, queries)
  BY <1>1 DEF EntriesFit, AgentPort
<1>3. AllInPlace(fRangeRoutingTable) => AllInPlace(new)
  BY DEF NotesOf, AllInPlace
<1>4. \A j : StayPassedOn(fRangeRoutingTable, new, j)
  BY DEF NotesOf, StayPassedOn, PassedOn
<1>5. ASSUME NEW q \in Clp, NEW j, q # p \/ j # id, Knows(new, q, j)
      PROVE  Knows(fRangeRoutingTable, q, j)
  <2>0. PICK d \in Direction : \E e \in EntriesOf(new[q][d]) : e.id = j
    BY <1>5 DEF Knows
  <2>1. PICK e \in EntriesOf(new[q][d]) : e.id = j
    BY <2>0
  <2>2. e \in EntriesOf(fRangeRoutingTable[q][d])
    BY <1>1, <1>5, <2>1
  <2> QED
    BY <2>1, <2>2 DEF Knows
<1> QED
  BY <1>2, <1>3, <1>4, <1>5 DEF NoMoreKnow
-----------------------------------------------------------------------------
LEMMA NewQueryTrail ==
    ASSUME LinksAgree, WaysAgree, Inv, Trails, NEW l \in Link, l[2] \in Clp,
           NEW i \in DOMAIN net[l], NEW id, net[l][i].type = "query", net[l][i].id = id,
           id \notin DOMAIN fRangeTracker[l[2]],
           NEW out, GoesOnward(l[2], id, out), NEW table, NotesOf(table, l[2], id),
           NEW seen, met \subseteq seen
    PROVE  TrailOf(table, Exchanged(l, i, out), retracted, fGVT, seen, queries, id)
<1> DEFINE p == l[2]
           a == queries[id].agent
           links == Exchanged(l, i, out)
           D(q, r) == GetDirectionFromRank(q, r)
<1>1. /\ Types /\ AreMessages(net, Ids) /\ id \in Ids /\ a \in Alps
      /\ OnlyQueries(out, id) /\ OwnQueries(net, queries) /\ OwnAntis(net, queries)
  BY CameFrom, QueryFields DEF Inv, Types, NetTypes, Trails, GoesOnward
<1>2. FromAgent(l, a) /\ Has(net[l], "query", id) /\ l[1] # p
  <2>1. D(p, l[1]) = D(p, a)
    BY CameFrom DEF AgentPort
  <2>2. Has(net[l], "query", id)
    BY DEF Has, ToSet
  <2> QED
    BY <2>1, <2>2, SenderIs DEF FromAgent
<1>3. /\ Ordered(net, a, id) /\ Untouched(fRangeRoutingTable, net, a, id)
      /\ NoFlaw(met) /\ Ahead(fGVT, queries[id].time)
           => Followed(fRangeRoutingTable, net, retracted, a, id)
  BY <1>1 DEF Trails, Trail, TrailOf
<1>4. ASSUME NEW k \in Link
      PROVE  /\ Has(links[k], "query", id)
                  => Has(net[k], "query", id)
                     \/ (k[1] = p /\ D(p, k[2]) \in DOMAIN out)
             /\ Has(links[k], "anti", id) <=> Has(net[k], "anti", id)
             /\ k[1] # p /\ QueryFirst(net[k], id) => QueryFirst(links[k], id)
             /\ ~Has(net[k], "anti", id) => QueryFirst(links[k], id)
  <2>1. net \in [Link -> Seq(MessageOf(Ids))]
    BY <1>1 DEF AreMessages
  <2>2. \A d \in DOMAIN out : out[d] \in Seq(MessageOf(Ids))
    <3>1. \A found \in Found : <<Query(id, found)>> \in Seq(MessageOf(Ids))
      BY <1>1, MessagesToSend
    <3> QED
      BY <1>1, <3>1 DEF OnlyQueries
  <2> DEFINE queue == Exchanged(l, i, out)[k]
             more == OutOn(k, l[2], out)
  <2>3. /\ \A type : Has(queue, type, id) => Has(net[k], type, id) \/ Has(more, type, id)
        /\ \A type : /\ Has(net[k], type, id)
                     /\ k # l \/ ~(net[l][i].type = type /\ net[l][i].id = id)
                     => Has(queue, type, id)
        /\ QueryFirst(net[k], id) /\ ~Has(more, "query", id) => QueryFirst(queue, id)
        /\ ~Has(net[k], "anti", id) /\ ~Has(more, "anti", id) => QueryFirst(queue, id)
    BY <2>1, <2>2, ExchangedHas
  <2>4. ~Has(more, "anti", id)
    BY <1>1, QueriesHaveNoAnti
  <2>5. k[1] # p \/ D(p, k[2]) \notin DOMAIN out => ~Has(more, "query", id)
    BY NothingSent
  <2>6. ~(net[l][i].type = "anti" /\ net[l][i].id = id)
    OBVIOUS
  <2>7. /\ Has(queue, "query", id) => Has(net[k], "query", id) \/ Has(more, "query", id)
        /\ Has(queue, "anti", id) => Has(net[k], "anti", id) \/ Has(more, "anti", id)
        /\ Has(net[k], "anti", id) => Has(queue, "anti", id)
    BY <2>3, <2>6
  <2>8. queue = links[k]
    OBVIOUS
  <2> HIDE DEF more, queue, links
  <2> QED
    BY <2>3, <2>4, <2>5, <2>7, <2>8
<1>5. ~Has(links[l], "query", id)
  BY <1>1, <1>2, NoneLeft
<1>6. \A q \in Behind(p, a) : ~Touched(fRangeRoutingTable, net, q, id)
  BY <1>2, <1>3 DEF Untouched
<1>7. p \in Behind(p, a)
  BY <1>1, HereIsBehind
<1> HIDE DEF links
<1>8. Ordered(links, a, id)
  <2> SUFFICES ASSUME NEW k \in Link, FromAgent(k, a) PROVE QueryFirst(links[k], id)
    BY DEF Ordered
  <2>1. CASE k[1] # p
    BY <1>3, <1>4, <2>1 DEF Ordered
  <2>2. CASE k[1] = p
    <3>1. ~Has(net[k], "anti", id)
      BY <1>6, <1>7, <2>2 DEF Touched, Carries, FromAgent
    <3> QED
      BY <1>4, <3>1
  <2> QED
    BY <2>1, <2>2
<1>9. \A q \in Clp \ {p} : Touched(table, links, q, id) => Touched(fRangeRoutingTable, net, q, id)
  <2> SUFFICES ASSUME NEW q \in Clp \ {p}, Touched(table, links, q, id)
               PROVE  Touched(fRangeRoutingTable, net, q, id)
    OBVIOUS
  <2>1. Knows(table, q, id) => Knows(fRangeRoutingTable, q, id)
    BY <1>1, NotesKeep
  <2>2. \A k \in Link : k[1] = q /\ Carries(links, k, id) => Carries(net, k, id)
    BY <1>4 DEF Carries
  <2> QED
    BY <2>1, <2>2 DEF Touched
<1>10. Untouched(table, links, a, id)
  <2> SUFFICES ASSUME NEW k \in Link, FromAgent(k, a), Has(links[k], "query", id),
                      NEW q \in Behind(k[2], a)
               PROVE  ~Touched(table, links, q, id)
    BY DEF Untouched
  <2>1. k # l /\ q \in Clp
    BY <1>5 DEF Behind
  <2>2. CASE k[1] = p
    <3>1. q \in Behind(p, a) /\ q # p
      BY <1>1, <2>2, OnFromAgent
    <3> QED
      BY <1>6, <1>9, <2>1, <3>1
  <2>3. CASE k[1] # p
    <3>1. Has(net[k], "query", id)
      BY <1>4, <2>3
    <3>2. p \notin Behind(k[2], a)
      <4> SUFFICES ASSUME p \in Behind(k[2], a) PROVE l = k
        BY <2>1
      <4>1. Carries(net, l, id)
        BY <1>2 DEF Carries
      <4> QED
        BY <1>1, <1>3, <3>1, <4>1, Unreached
    <3>3. ~Touched(fRangeRoutingTable, net, q, id)
      BY <1>3, <3>1 DEF Untouched
    <3> QED
      BY <1>9, <2>1, <3>2, <3>3
  <2> QED
    BY <2>2, <2>3
<1>11. ASSUME NoFlaw(seen), Ahead(fGVT, queries[id].time)
       PROVE  Followed(table, links, retracted, a, id)
  <2>1. Followed(fRangeRoutingTable, net, retracted, a, id)
    BY <1>3, <1>11 DEF NoFlaw
  <2> SUFFICES ASSUME NEW k \in Link, FromAgent(k, a),
                      Has(links[k], "query", id) \/ Knows(table, k[2], id)
               PROVE  Source(table, retracted, k, id) \/ Has(links[k], "anti", id)
    BY DEF Followed
  <2>2. k[2] \in Clp /\ k[2] \in LpRank
    BY LinkEnds DEF FromAgent
  <2>3. Source(fRangeRoutingTable, retracted, k, id) => Source(table, retracted, k, id)
    <3>1. k[1] \in Clp => D(k[1], k[2]) \in Direction
      BY <2>2 DEF LinksAgree
    <3>2. StayPassedOn(fRangeRoutingTable, table, id)
      BY <1>1, NotesKeep
    <3> QED
      BY <3>1, <3>2 DEF Source, StayPassedOn
  <2>4. CASE k[2] = p
    <3>1. k = l
      BY <1>1, <1>2, <2>4, OneFromAgent
    <3> QED
      BY <1>2, <1>4, <2>1, <2>3, <3>1 DEF Followed
  <2>5. CASE k[2] # p /\ k[1] # p
    <3>1. Has(net[k], "query", id) \/ Knows(fRangeRoutingTable, k[2], id)
      BY <1>1, <1>4, <2>2, <2>5, NotesKeep
    <3> QED
      BY <1>4, <2>1, <2>3, <3>1 DEF Followed
  <2>6. CASE k[2] # p /\ k[1] = p
    <3>1. k[2] \in Behind(p, a) /\ D(p, k[2]) # D(p, a)
      BY <1>1, <2>6, OnFromAgent
    <3>2. ~Knows(fRangeRoutingTable, k[2], id)
      BY <1>6, <3>1 DEF Touched
    <3>3. ~Has(net[k], "query", id)
      BY <1>6, <1>7, <2>2, <2>6 DEF Touched, Carries
    <3>4. Has(links[k], "query", id)
      BY <1>1, <2>2, <2>6, <3>2, NotesKeep
    <3>5. D(p, k[2]) \in DOMAIN out
      BY <1>4, <2>6, <3>3, <3>4
    <3>6. D(p, k[2]) \in NotBlocked(p, id)
      BY <3>1, <3>5 DEF GoesOnward, AgentPort
    <3>7. PassedOn(table, p, D(p, k[2]), id)
      BY <3>6 DEF NotesOf
    <3> QED
      BY <2>6, <3>7 DEF Source
  <2> QED
    BY <2>4, <2>5, <2>6
<1>12. TrailOf(table, links, retracted, fGVT, seen, queries, id)
  BY <1>8, <1>10, <1>11 DEF TrailOf
<1> QED
  BY <1>12 DEF links
-----------------------------------------------------------------------------
\* A step that leaves this query and its anti-message alone.
Calm(table, links, id) ==
    /\ SameOnLinks(net, links, id) /\ NoMoreKnow(fRangeRoutingTable, table, id)
    /\ StayPassedOn(fRangeRoutingTable, table, id)

LEMMA TrailsAfter ==
    ASSUME LinksAgree, Trails, NEW table, NEW links, NEW seen, NEW id,
           table = fRangeRoutingTable', links = net', seen = met',
           queries' = queries, retracted' = retracted, fGVT' = fGVT, met \subseteq seen,
           EntriesFit(table, queries), OwnAntis(links, queries),
           "tied" \notin seen => AllInPlace(table),
           \A j \in Ids \ {id} : Calm(table, links, j),
           id \in Ids => TrailOf(table, links, retracted, fGVT, seen, queries, id)
    PROVE  Trails'
<1>1. ASSUME NEW j \in Ids
      PROVE  TrailOf(table, links, retracted, fGVT, seen, queries, j)
  <2>1. CASE j = id
    BY <2>1
  <2>2. CASE j # id
    <3>1. TrailOf(fRangeRoutingTable, net, retracted, fGVT, met, queries, j)
      BY DEF Trails, Trail
    <3>2. Calm(table, links, j)
      BY <2>2
    <3> QED
      BY <3>1, <3>2, CalmTrail DEF Calm
  <2> QED
    BY <2>1, <2>2
<1>2. Ids' = Ids
  BY DEF Ids
<1>3. \A j \in Ids' : Trail(j)'
  BY <1>1, <1>2 DEF Trail
<1>4. EntriesFit(fRangeRoutingTable', queries') /\ OwnAntis(net', queries')
  OBVIOUS
<1>5. "tied" \notin met' => AllInPlace(fRangeRoutingTable')
  OBVIOUS
<1> QED
  BY <1>3, <1>4, <1>5 DEF Trails

LEMMA OwnAntisExchanged ==
    ASSUME LinksAgree, Inv, OwnAntis(net, queries), NEW l \in Link, l[2] \in Clp,
           NEW i \in DOMAIN net[l],
           NEW out, \A d \in DOMAIN out : out[d] \in Seq(MessageOf(Ids))
    PROVE  OwnAntis(Exchanged(l, i, out), queries)
<1> SUFFICES ASSUME NEW a \in Alps, NEW m \in ToSet(Exchanged(l, i, out)[<<a, AlpParent[a]>>]),
                    m.type = "anti"
             PROVE  queries[m.id].agent = a
  BY DEF OwnAntis
<1>1. net \in [Link -> Seq(MessageOf(Ids))]
  BY DEF Inv, Types, NetTypes, AreMessages
<1>2. PICK k \in Link : k = <<a, AlpParent[a]>>
  BY AgentLink
<1>3. k[1] # l[2]
  BY <1>2, ClpOrAlp
<1>4. m \in ToSet(net[k])
  <2>1. m \in ToSet(Exchanged(l, i, out)[k])
    BY <1>2
  <2> DEFINE M == MessageOf(Ids)
  <2>2. net \in [Link -> Seq(M)] /\ \A d \in DOMAIN out : out[d] \in Seq(M)
    BY <1>1
  <2> HIDE DEF M
  <2> QED
    BY <1>3, <2>1, <2>2, ExchangedMessages
<1> QED
  BY <1>2, <1>4 DEF OwnAntis

LEMMA NewQueryTrails ==
    ASSUME LinksAgree, WaysAgree, Inv, Trails, NEW l \in Link, l[2] \in Clp,
           NEW i \in DOMAIN net[l], ProcessNewQuery(l[2], l, i),
           queries' = queries, retracted' = retracted, fGVT' = fGVT
    PROVE  Trails'
<1> DEFINE p == l[2]
           id == net[l][i].id
<1>1. /\ net[l][i].type = "query" /\ id \notin DOMAIN fRangeTracker[p]
      /\ fRangeRoutingTable' = [fRangeRoutingTable EXCEPT ![p] = Noted(p, id)]
      /\ met \subseteq met'
  BY DEF ProcessNewQuery
<1>2. /\ Types /\ AreMessages(net, Ids) /\ id \in Ids
      /\ EntriesFit(fRangeRoutingTable, queries) /\ OwnAntis(net, queries)
      /\ "tied" \notin met => AllInPlace(fRangeRoutingTable)
  BY <1>1, CameFrom DEF Inv, Types, NetTypes, Trails
<1>3. PICK out : net' = Exchanged(l, i, out) /\ GoesOnward(p, id, out)
  BY NewQuerySends
<1>4. PICK table : table = fRangeRoutingTable' /\ NotesOf(table, p, id)
  BY <1>1, <1>2, NotedEntries
<1>5. PICK links : links = net' /\ links = Exchanged(l, i, out)
  BY <1>3
<1>6. PICK seen : seen = met' /\ met \subseteq seen
  BY <1>1
<1>7. \A d \in DOMAIN out : out[d] \in Seq(MessageOf(Ids))
  <2>1. \A found \in Found : <<Query(id, found)>> \in Seq(MessageOf(Ids))
    BY <1>2, MessagesToSend
  <2> QED
    BY <1>3, <2>1 DEF OnlyQueries, GoesOnward
<1>8. TrailOf(table, links, retracted, fGVT, seen, queries, id)
  BY <1>1, <1>3, <1>4, <1>5, <1>6, NewQueryTrail
<1>9. OwnAntis(links, queries)
  BY <1>2, <1>5, <1>7, OwnAntisExchanged
<1>10. ASSUME NEW j \in Ids \ {id} PROVE Calm(table, links, j)
  <2>1. Silent(out, j)
    BY <1>3, OthersSilent DEF GoesOnward
  <2>2. net \in [Link -> Seq(MessageOf(Ids))]
    BY <1>2 DEF AreMessages
  <2>3. SameOnLinks(net, links, j)
    <3>1. net[l][i].id # j
      OBVIOUS
    <3> HIDE DEF id
    <3> QED
      BY <1>5, <1>7, <2>1, <2>2, <3>1, ExchangedCalm
  <2>4. NoMoreKnow(fRangeRoutingTable, table, j) /\ StayPassedOn(fRangeRoutingTable, table, j)
    BY <1>2, <1>4, NotesKeep
  <2> QED
    BY <2>3, <2>4 DEF Calm
<1>11. EntriesFit(table, queries) /\ ("tied" \notin seen => AllInPlace(table))
  <2>1. /\ EntriesFit(fRangeRoutingTable, queries) => EntriesFit(table, queries)
        /\ AllInPlace(fRangeRoutingTable) => AllInPlace(table)
    BY <1>2, <1>4, NotesKeep
  <2> QED
    BY <1>2, <1>6, <2>1
<1> HIDE DEF id
<1> QED
  BY <1>4, <1>5, <1>6, <1>8, <1>9, <1>10, <1>11, TrailsAfter
-----------------------------------------------------------------------------
(***************************************************************************)
(* A reply goes the other way.                                             *)
(***************************************************************************)
LEMMA ReplyTrail ==
    ASSUME LinksAgree, WaysAgree, Inv, Trails, NEW l \in Link, l[2] \in Clp,
           NEW i \in DOMAIN net[l], NEW id, net[l][i].type = "query", net[l][i].id = id,
           id \in DOMAIN fRangeTracker[l[2]],
           NEW out, OnlyQueries(out, id), DOMAIN out \subseteq {AgentPort(l[2], id)},
           NEW seen, met \subseteq seen
    PROVE  TrailOf(fRangeRoutingTable, Exchanged(l, i, out), retracted, fGVT, seen, queries, id)
<1> DEFINE p == l[2]
           a == queries[id].agent
           links == Exchanged(l, i, out)
           D(q, r) == GetDirectionFromRank(q, r)
<1>1. /\ Types /\ AreMessages(net, Ids) /\ id \in Ids /\ a \in Alps
      /\ OwnQueries(net, queries) /\ OwnAntis(net, queries)
  BY CameFrom, QueryFields DEF Inv, Types, NetTypes, Trails
<1>2. ~FromAgent(l, a) /\ Carries(net, l, id)
  <2>1. D(p, l[1]) # D(p, a)
    BY CameFrom DEF AgentPort, IsBeyond
  <2>2. Has(net[l], "query", id)
    BY DEF Has, ToSet
  <2> QED
    BY <2>1, <2>2 DEF FromAgent, Carries
<1>3. /\ Ordered(net, a, id) /\ Untouched(fRangeRoutingTable, net, a, id)
      /\ NoFlaw(met) /\ Ahead(fGVT, queries[id].time)
           => Followed(fRangeRoutingTable, net, retracted, a, id)
  BY <1>1 DEF Trails, Trail, TrailOf
<1>4. ASSUME NEW k \in Link
      PROVE  /\ Has(links[k], "query", id) => Has(net[k], "query", id) \/ k[1] = p
             /\ Has(links[k], "anti", id) <=> Has(net[k], "anti", id)
             /\ FromAgent(k, a) => /\ Has(links[k], "query", id) => Has(net[k], "query", id)
                                   /\ QueryFirst(net[k], id) => QueryFirst(links[k], id)
  <2> DEFINE M == MessageOf(Ids)
             more == OutOn(k, p, out)
  <2>1. net \in [Link -> Seq(M)]
    BY <1>1 DEF AreMessages
  <2>2. \A d \in DOMAIN out : out[d] \in Seq(M)
    <3>1. \A found \in Found : <<Query(id, found)>> \in Seq(MessageOf(Ids))
      BY <1>1, MessagesToSend
    <3> QED
      BY <3>1 DEF OnlyQueries
  <2> HIDE DEF M
  <2>3. /\ \A type : Has(links[k], type, id) => Has(net[k], type, id) \/ Has(more, type, id)
        /\ \A type : /\ Has(net[k], type, id)
                     /\ k # l \/ ~(net[l][i].type = type /\ net[l][i].id = id)
                     => Has(links[k], type, id)
        /\ QueryFirst(net[k], id) /\ ~Has(more, "query", id) => QueryFirst(links[k], id)
    BY <2>1, <2>2, ExchangedHas
  <2>4. ~Has(more, "anti", id)
    BY QueriesHaveNoAnti
  <2>5. FromAgent(k, a) \/ k[1] # p => ~Has(more, "query", id)
    <3>1. FromAgent(k, a) /\ k[1] = p => D(k[1], k[2]) \notin DOMAIN out
      BY <1>1, OnFromAgent DEF AgentPort
    <3> QED
      BY <3>1, NothingSent
  <2>6. ~(net[l][i].type = "anti" /\ net[l][i].id = id)
    OBVIOUS
  <2>7. /\ Has(links[k], "query", id) => Has(net[k], "query", id) \/ Has(more, "query", id)
        /\ Has(links[k], "anti", id) => Has(net[k], "anti", id) \/ Has(more, "anti", id)
        /\ Has(net[k], "anti", id) => Has(links[k], "anti", id)
    BY <2>3, <2>6
  <2> HIDE DEF more, links
  <2> QED
    BY <2>3, <2>4, <2>5, <2>7
<1> HIDE DEF links
<1>5. Ordered(links, a, id)
  BY <1>3, <1>4 DEF Ordered
<1>6. Untouched(fRangeRoutingTable, links, a, id)
  <2> SUFFICES ASSUME NEW k \in Link, FromAgent(k, a), Has(links[k], "query", id),
                      NEW q \in Behind(k[2], a), Touched(fRangeRoutingTable, links, q, id)
               PROVE  FALSE
    BY DEF Untouched
  <2>1. Has(net[k], "query", id) /\ k # l
    BY <1>2, <1>4
  <2>2. ~Touched(fRangeRoutingTable, net, q, id)
    BY <1>3, <2>1 DEF Untouched
  <2>3. PICK j \in Link : j[1] = q /\ j[2] \in Clp /\ Carries(links, j, id) /\ ~Carries(net, j, id)
    BY <2>2 DEF Touched
  <2>4. j[1] = p
    BY <1>4, <2>3 DEF Carries
  <2>5. l = k
    BY <1>1, <1>2, <1>3, <2>1, <2>3, <2>4, Unreached
  <2> QED
    BY <2>1, <2>5
<1>7. ASSUME NoFlaw(seen), Ahead(fGVT, queries[id].time)
      PROVE  Followed(fRangeRoutingTable, links, retracted, a, id)
  <2>1. Followed(fRangeRoutingTable, net, retracted, a, id)
    BY <1>3, <1>7 DEF NoFlaw
  <2> QED
    BY <1>4, <2>1 DEF Followed
<1>8. TrailOf(fRangeRoutingTable, links, retracted, fGVT, seen, queries, id)
  BY <1>5, <1>6, <1>7 DEF TrailOf
<1> QED
  BY <1>8 DEF links

LEMMA ReplyTrails ==
    ASSUME LinksAgree, WaysAgree, Inv, Trails, NEW l \in Link, l[2] \in Clp,
           NEW i \in DOMAIN net[l], ProcessReply(l[2], l, i),
           queries' = queries, retracted' = retracted, fGVT' = fGVT
    PROVE  Trails'
<1> DEFINE p == l[2]
           id == net[l][i].id
           status == Scanned(p, l, id, net[l][i].found)
           out == Reply(id, status)
<1>1. /\ net[l][i].type = "query" /\ id \in DOMAIN fRangeTracker[p]
      /\ net' = Exchanged(l, i, out)
      /\ fRangeRoutingTable' = fRangeRoutingTable /\ met' = met
  BY DEF ProcessReply
<1>2. /\ Types /\ TrackerTypes /\ AreMessages(net, Ids) /\ id \in Ids /\ Origins
      /\ EntriesFit(fRangeRoutingTable, queries) /\ OwnAntis(net, queries)
      /\ "tied" \notin met => AllInPlace(fRangeRoutingTable)
  BY <1>1, CameFrom DEF Inv, Types, NetTypes, Trails
<1>3. status.originPort = AgentPort(p, id) /\ status.found \in Found
  <2> DEFINE old == fRangeTracker[p][id]
  <2>1. old \in Status /\ old.originPort = AgentPort(p, id)
    BY <1>1, <1>2 DEF TrackerTypes, AreTrackers, Origins
  <2>2. net[l][i].found \in Found
    BY <1>1, <1>2, MessageFields DEF AreMessages
  <2>3. status = [old EXCEPT !.outstanding = @ \ {GetDirectionFromRank(p, l[1])},
                             !.found = @ \cup net[l][i].found]
    BY DEF Scanned
  <2> HIDE DEF status, old
  <2>4. status.originPort = old.originPort /\ status.found = old.found \cup net[l][i].found
    BY <2>1, <2>3 DEF Status
  <2>5. old.found \in Found
    BY <2>1 DEF Status
  <2> QED
    BY <2>1, <2>2, <2>4, <2>5, FoundIsClosed
<1>4. OnlyQueries(out, id) /\ DOMAIN out \subseteq {AgentPort(p, id)}
  <2> HIDE DEF status, id
  <2> QED
    BY <1>3 DEF Reply, OnlyQueries
<1>5. PICK links : links = net' /\ links = Exchanged(l, i, out)
  BY <1>1
<1> HIDE DEF status, out
<1>6. \A d \in DOMAIN out : out[d] \in Seq(MessageOf(Ids))
  <2>1. \A found \in Found : <<Query(id, found)>> \in Seq(MessageOf(Ids))
    BY <1>2, MessagesToSend
  <2> QED
    BY <1>4, <2>1 DEF OnlyQueries
<1>7. TrailOf(fRangeRoutingTable, links, retracted, fGVT, met, queries, id)
  BY <1>1, <1>4, <1>5, ReplyTrail
<1>8. OwnAntis(links, queries)
  BY <1>2, <1>5, <1>6, OwnAntisExchanged
<1>9. ASSUME NEW j \in Ids \ {id} PROVE Calm(fRangeRoutingTable, links, j)
  <2>1. Silent(out, j)
    BY <1>4, OthersSilent
  <2>2. net \in [Link -> Seq(MessageOf(Ids))]
    BY <1>2 DEF AreMessages
  <2>3. SameOnLinks(net, links, j)
    <3>1. net[l][i].id # j
      OBVIOUS
    <3> HIDE DEF id
    <3> QED
      BY <1>5, <1>6, <2>1, <2>2, <3>1, ExchangedCalm
  <2> QED
    BY <2>3 DEF Calm, NoMoreKnow, StayPassedOn
<1> HIDE DEF id
<1> QED
  BY <1>1, <1>2, <1>5, <1>7, <1>8, <1>9, TrailsAfter
-----------------------------------------------------------------------------
(***************************************************************************)
(* An anti-message follows.                                                *)
(***************************************************************************)
OnlyAntis(out, id) == \A d \in DOMAIN out : out[d] = <<[type |-> "anti", id |-> id]>>

LEMMA AntisHaveNoQuery ==
    ASSUME NEW out, NEW id, OnlyAntis(out, id), NEW k, NEW p
    PROVE  /\ \A other : ~Has(OutOn(k, p, out), "query", other)
           /\ Has(OutOn(k, p, out), "anti", id)
                <=> k[1] = p /\ GetDirectionFromRank(k[1], k[2]) \in DOMAIN out
           /\ \A other : other # id => Silent(out, other)
<1>1. CASE k[1] = p /\ GetDirectionFromRank(k[1], k[2]) \in DOMAIN out
  <2>1. OutOn(k, p, out) = <<[type |-> "anti", id |-> id]>>
    BY <1>1 DEF OutOn, OnlyAntis
  <2>2. \A m \in ToSet(<<[type |-> "anti", id |-> id]>>) : m.type = "anti" /\ m.id = id
    BY DEF ToSet
  <2>3. [type |-> "anti", id |-> id] \in ToSet(<<[type |-> "anti", id |-> id]>>)
    BY DEF ToSet
  <2>4. \A other : ~Has(OutOn(k, p, out), "query", other)
    BY <2>1, <2>2 DEF Has
  <2>5. Has(OutOn(k, p, out), "anti", id)
    BY <2>1, <2>2, <2>3 DEF Has
  <2>6. \A other : other # id => Silent(out, other)
    BY <2>2 DEF OnlyAntis, Silent
  <2> QED
    BY <1>1, <2>4, <2>5, <2>6
<1>2. CASE ~(k[1] = p /\ GetDirectionFromRank(k[1], k[2]) \in DOMAIN out)
  <2>1. \A m \in ToSet(<<[type |-> "anti", id |-> id]>>) : m.type = "anti" /\ m.id = id
    BY DEF ToSet
  <2>2. \A other : other # id => Silent(out, other)
    BY <2>1 DEF OnlyAntis, Silent
  <2> QED
    BY <1>2, <2>2, NothingSent
<1> QED
  BY <1>1, <1>2

\* A CLP loses what it has noted of a query, and nothing else ...
Loses(new, p, id) ==
    \A q \in Clp, d \in Direction :
      /\ EntriesOf(new[q][d]) \subseteq EntriesOf(fRangeRoutingTable[q][d])
      /\ \A e \in EntriesOf(fRangeRoutingTable[q][d]) :
           q # p \/ e.id # id => e \in EntriesOf(new[q][d])
      /\ InPlace(fRangeRoutingTable[q][d]) => InPlace(new[q][d])

\* ... and the ports it went on to are told.
AllTold(new, p, id, out) ==
    /\ ~Knows(new, p, id)
    /\ \A d \in Direction : PassedOn(fRangeRoutingTable, p, d, id) => d = HERE \/ d \in DOMAIN out

LEMMA LosesKeep ==
    ASSUME NEW new, NEW p \in Clp, NEW id, Loses(new, p, id)
    PROVE  /\ EntriesFit(fRangeRoutingTable, queries) => EntriesFit(new, queries)
           /\ AllInPlace(fRangeRoutingTable) => AllInPlace(new)
           /\ \A j : j # id => StayPassedOn(fRangeRoutingTable, new, j)
           /\ \A q \in Clp \ {p}, d \in Direction :
                PassedOn(fRangeRoutingTable, q, d, id) => PassedOn(new, q, d, id)
           /\ \A j : NoMoreKnow(fRangeRoutingTable, new, j)
<1>1. EntriesFit(fRangeRoutingTable, queries) => EntriesFit(new, queries)
  BY DEF Loses, EntriesFit
<1>2. AllInPlace(fRangeRoutingTable) => AllInPlace(new)
  BY DEF Loses, AllInPlace
<1>3. \A j : j # id => StayPassedOn(fRangeRoutingTable, new, j)
  BY DEF Loses, StayPassedOn, PassedOn
<1>4. \A q \in Clp \ {p}, d \in Direction :
        PassedOn(fRangeRoutingTable, q, d, id) => PassedOn(new, q, d, id)
  BY DEF Loses, PassedOn
<1>5. \A j : NoMoreKnow(fRangeRoutingTable, new, j)
  BY DEF Loses, NoMoreKnow, Knows
<1> QED
  BY <1>1, <1>2, <1>3, <1>4, <1>5

LEMMA AntiTrail ==
    ASSUME LinksAgree, WaysAgree, Inv, Trails, NEW l \in Link, l[2] \in Clp,
           NEW i \in Receivable(net[l]), NEW id \in Ids,
           net[l][i].type = "anti", net[l][i].id = id,
           NEW out, OnlyAntis(out, id), NEW table, Loses(table, l[2], id),
           NEW seen, met \subseteq seen,
           NoFlaw(seen) /\ Ahead(fGVT, queries[id].time) => AllTold(table, l[2], id, out)
    PROVE  TrailOf(table, Exchanged(l, i, out), retracted, fGVT, seen, queries, id)
<1> DEFINE p == l[2]
           a == queries[id].agent
           links == Exchanged(l, i, out)
           D(q, r) == GetDirectionFromRank(q, r)
           M == MessageOf(Ids)
<1>1. /\ Types /\ net \in [Link -> Seq(M)] /\ a \in Alps
      /\ OwnQueries(net, queries) /\ OwnAntis(net, queries)
  BY QueryFields DEF Inv, Types, NetTypes, Trails, AreMessages
<1>2. /\ Ordered(net, a, id) /\ Untouched(fRangeRoutingTable, net, a, id)
      /\ NoFlaw(met) /\ Ahead(fGVT, queries[id].time)
           => Followed(fRangeRoutingTable, net, retracted, a, id)
  BY DEF Trails, Trail, TrailOf
<1>3. \A d \in DOMAIN out : out[d] \in Seq(M)
  <2>1. <<[type |-> "anti", id |-> id]>> \in Seq(M)
    BY MessagesToSend
  <2> HIDE DEF M
  <2> QED
    BY <2>1 DEF OnlyAntis
<1> HIDE DEF M
<1>4. /\ i \in DOMAIN net[l] /\ Carries(net, l, id) /\ l[1] # p
      /\ FromAgent(l, a) => ~Has(net[l], "query", id)
  <2>1. net[l] \in Seq(M)
    BY <1>1
  <2>2. i \in DOMAIN net[l] /\ (QueryFirst(net[l], id) => ~Has(net[l], "query", id))
    BY <2>1, AntiIsFirst
  <2>3. Has(net[l], "anti", id)
    BY <2>2 DEF Has, ToSet
  <2> QED
    BY <1>2, <2>2, <2>3, SenderIs DEF Ordered, Carries
<1>5. ASSUME NEW k \in Link
      PROVE  /\ Has(links[k], "query", id) => Has(net[k], "query", id)
             /\ QueryFirst(net[k], id) => QueryFirst(links[k], id)
             /\ Has(links[k], "anti", id) => Has(net[k], "anti", id) \/ k[1] = p
             /\ k # l /\ Has(net[k], "anti", id) => Has(links[k], "anti", id)
             /\ k[1] = p /\ D(p, k[2]) \in DOMAIN out => Has(links[k], "anti", id)
  <2> DEFINE more == OutOn(k, p, out)
  <2>1. i \in DOMAIN net[l]
    BY <1>4
  <2>2. /\ \A type : Has(links[k], type, id) => Has(net[k], type, id) \/ Has(more, type, id)
        /\ \A type : Has(more, type, id) => Has(links[k], type, id)
        /\ \A type : /\ Has(net[k], type, id)
                     /\ k # l \/ ~(net[l][i].type = type /\ net[l][i].id = id)
                     => Has(links[k], type, id)
        /\ QueryFirst(net[k], id) /\ ~Has(more, "query", id) => QueryFirst(links[k], id)
    BY <1>1, <1>3, <2>1, ExchangedHas
  <2>3. /\ ~Has(more, "query", id)
        /\ Has(more, "anti", id) <=> k[1] = p /\ D(k[1], k[2]) \in DOMAIN out
    BY AntisHaveNoQuery
  <2> HIDE DEF more, links
  <2> QED
    BY <2>2, <2>3
<1> HIDE DEF links
<1>6. Ordered(links, a, id)
  BY <1>2, <1>5 DEF Ordered
<1>7. Untouched(table, links, a, id)
  <2> SUFFICES ASSUME NEW k \in Link, FromAgent(k, a), Has(links[k], "query", id),
                      NEW q \in Behind(k[2], a), Touched(table, links, q, id)
               PROVE  FALSE
    BY DEF Untouched
  <2>1. Has(net[k], "query", id) /\ k # l /\ q \in Clp
    BY <1>4, <1>5 DEF Behind
  <2>2. ~Touched(fRangeRoutingTable, net, q, id)
    BY <1>2, <2>1 DEF Untouched
  <2>3. ~Knows(table, q, id)
    BY <2>1, <2>2, LosesKeep DEF Touched, NoMoreKnow
  <2>4. PICK j \in Link : j[1] = q /\ j[2] \in Clp /\ Carries(links, j, id) /\ ~Carries(net, j, id)
    BY <2>2, <2>3 DEF Touched
  <2>5. j[1] = p
    BY <1>5, <2>4 DEF Carries
  <2>6. l = k
    BY <1>1, <1>2, <1>4, <2>1, <2>4, <2>5, Unreached
  <2> QED
    BY <2>1, <2>6
<1>8. ASSUME NoFlaw(seen), Ahead(fGVT, queries[id].time)
      PROVE  Followed(table, links, retracted, a, id)
  <2>1. Followed(fRangeRoutingTable, net, retracted, a, id) /\ AllTold(table, p, id, out)
    BY <1>2, <1>8 DEF NoFlaw
  <2> SUFFICES ASSUME NEW k \in Link, FromAgent(k, a),
                      Has(links[k], "query", id) \/ Knows(table, k[2], id)
               PROVE  Source(table, retracted, k, id) \/ Has(links[k], "anti", id)
    BY DEF Followed
  <2>2. k[2] \in Clp /\ k[2] \in LpRank
    BY LinkEnds DEF FromAgent
  <2>3. Has(net[k], "query", id) \/ Knows(fRangeRoutingTable, k[2], id)
    BY <1>5, <2>2, LosesKeep DEF NoMoreKnow
  <2>4. Source(fRangeRoutingTable, retracted, k, id) \/ Has(net[k], "anti", id)
    BY <2>1, <2>3 DEF Followed
  <2>5. k[1] # p /\ Source(fRangeRoutingTable, retracted, k, id) => Source(table, retracted, k, id)
    <3>1. k[1] \in Clp => D(k[1], k[2]) \in Direction
      BY <2>2 DEF LinksAgree
    <3> QED
      BY <3>1, LosesKeep DEF Source
  <2>6. CASE k = l
    <3>1. FALSE
      BY <1>4, <1>5, <2>1, <2>6 DEF AllTold
    <3> QED
      BY <3>1
  <2>7. CASE k # l /\ k[1] # p
    BY <1>5, <2>4, <2>5, <2>7
  <2>8. CASE k # l /\ k[1] = p
    <3>1. PassedOn(fRangeRoutingTable, p, D(p, k[2]), id) => Has(links[k], "anti", id)
      <4>1. D(p, k[2]) \in Direction /\ D(p, k[2]) # HERE
        <5>1. k[2] # p
          BY <2>2, <2>8, SenderIs
        <5> QED
          BY <2>2, <5>1 DEF LinksAgree
      <4> QED
        BY <1>5, <2>1, <2>8, <4>1 DEF AllTold
    <3> QED
      BY <1>5, <2>4, <2>8, <3>1 DEF Source
  <2> QED
    BY <2>6, <2>7, <2>8
<1>9. TrailOf(table, links, retracted, fGVT, seen, queries, id)
  BY <1>6, <1>7, <1>8 DEF TrailOf
<1> QED
  BY <1>9 DEF links
-----------------------------------------------------------------------------
LEMMA ForgottenEntries ==
    ASSUME Types, LinksAgree, NEW p \in Clp, NEW id \in Ids
    PROVE  LET new == [fRangeRoutingTable EXCEPT ![p] = Forgotten(p, id)]
           IN  /\ Loses(new, p, id)
               /\ EntriesFit(fRangeRoutingTable, queries) /\ AllInPlace(fRangeRoutingTable)
                    => ~Knows(new, p, id)
<1> DEFINE row == Forgotten(p, id)
           new == [fRangeRoutingTable EXCEPT ![p] = row]
<1>1. AreTables(fRangeRoutingTable, fGVT, Ids)
  BY DEF Types, TableTypes
<1>2. queries[id].time \in Time
  BY QueryFields DEF Types
<1>3. \A d \in Direction :
        row[d] = IF d = AgentPort(p, id) THEN fRangeRoutingTable[p][d]
                 ELSE DeleteRangeQueryInfo(fRangeRoutingTable[p][d], queries[id].time, id)
  BY DEF Forgotten
<1>4. \A q \in Clp : new[q] = IF q = p THEN row ELSE fRangeRoutingTable[q]
  BY <1>1 DEF AreTables
<1> HIDE DEF row, new
<1>5. ASSUME NEW d \in Direction
      PROVE  LET list == fRangeRoutingTable[p][d]
             IN  /\ EntriesOf(row[d]) \subseteq EntriesOf(list)
                 /\ \A e \in EntriesOf(list) : e.id # id => e \in EntriesOf(row[d])
                 /\ InPlace(list) => InPlace(row[d])
                 /\ /\ d # AgentPort(p, id) /\ InPlace(list)
                    /\ \A e \in EntriesOf(list) : e.id = id => e.time = queries[id].time
                    => \A e \in EntriesOf(row[d]) : e.id # id
  <2>1. PICK list \in Periods(Ids) : list = fRangeRoutingTable[p][d]
    BY <1>1 DEF AreTables
  <2>2. PICK t \in Time : t = queries[id].time
    BY <1>2
  <2> DEFINE less == DeleteRangeQueryInfo(list, t, id)
  <2>3. /\ EntriesOf(less) \subseteq EntriesOf(list)
        /\ \A e \in EntriesOf(list) : e.id # id => e \in EntriesOf(less)
        /\ InPlace(list) => InPlace(less)
        /\ InPlace(list) /\ (\A e \in EntriesOf(list) : e.id = id => e.time = t)
             => \A e \in EntriesOf(less) : e.id # id
    BY DeleteRangeQueryInfoEntries
  <2>4. row[d] = IF d = AgentPort(p, id) THEN list ELSE less
    BY <1>3, <2>1, <2>2
  <2> HIDE DEF less
  <2>5. CASE d = AgentPort(p, id)
    BY <2>1, <2>4, <2>5
  <2>6. CASE d # AgentPort(p, id)
    BY <2>1, <2>2, <2>3, <2>4, <2>6
  <2> QED
    BY <2>5, <2>6
<1>6. Loses(new, p, id)
  <2> SUFFICES ASSUME NEW q \in Clp, NEW d \in Direction
               PROVE  /\ EntriesOf(new[q][d]) \subseteq EntriesOf(fRangeRoutingTable[q][d])
                      /\ \A e \in EntriesOf(fRangeRoutingTable[q][d]) :
                           q # p \/ e.id # id => e \in EntriesOf(new[q][d])
                      /\ InPlace(fRangeRoutingTable[q][d]) => InPlace(new[q][d])
    BY DEF Loses
  <2>1. CASE q = p
    BY <1>4, <1>5, <2>1
  <2>2. CASE q # p
    BY <1>4, <2>2
  <2> QED
    BY <2>1, <2>2
<1>7. ASSUME EntriesFit(fRangeRoutingTable, queries), AllInPlace(fRangeRoutingTable),
             NEW d \in Direction, NEW e \in EntriesOf(new[p][d])
      PROVE  e.id # id
  <2>1. new[p][d] = row[d]
    BY <1>4
  <2>2. CASE d = AgentPort(p, id)
    <3>1. e \in EntriesOf(fRangeRoutingTable[p][d])
      BY <1>5, <1>7, <2>1
    <3> QED
      BY <1>7, <2>2, <3>1 DEF EntriesFit, AgentPort
  <2>3. CASE d # AgentPort(p, id)
    <3>1. /\ InPlace(fRangeRoutingTable[p][d])
          /\ \A f \in EntriesOf(fRangeRoutingTable[p][d]) : f.id = id => f.time = queries[id].time
      BY <1>7 DEF EntriesFit, AllInPlace
    <3> QED
      BY <1>5, <1>7, <2>1, <2>3, <3>1
  <2> QED
    BY <2>2, <2>3
<1>8. EntriesFit(fRangeRoutingTable, queries) /\ AllInPlace(fRangeRoutingTable)
        => ~Knows(new, p, id)
  BY <1>7 DEF Knows
<1> QED
  BY <1>6, <1>8 DEF new, row

LEMMA AntiTrails ==
    ASSUME LinksAgree, WaysAgree, Inv, Trails, NEW l \in Link, l[2] \in Clp,
           NEW i \in Receivable(net[l]), ProcessAntiMessage(l[2], l, i),
           queries' = queries, retracted' = retracted, fGVT' = fGVT
    PROVE  Trails'
<1> DEFINE p == l[2]
           id == net[l][i].id
           late == fGVT[p] > queries[id].time
           m == <<[type |-> "anti", id |-> id]>>
           onward == [d \in Onward(p, id) \ {HERE} |-> m]
           out == IF late THEN <<>> ELSE onward
           new == [fRangeRoutingTable EXCEPT ![p] = Forgotten(p, id)]
<1>1. /\ net[l][i].type = "anti" /\ net' = Exchanged(l, i, out)
      /\ fRangeRoutingTable' = IF late THEN fRangeRoutingTable ELSE new
      /\ met' = met \cup (IF ~late /\ Onward(p, id) # WentOnward(p, id) THEN {"misread"} ELSE {})
  BY DEF ProcessAntiMessage
<1>2. /\ Types /\ net \in [Link -> Seq(MessageOf(Ids))]
      /\ EntriesFit(fRangeRoutingTable, queries) /\ OwnAntis(net, queries)
      /\ "tied" \notin met => AllInPlace(fRangeRoutingTable)
  BY DEF Inv, Types, NetTypes, AreMessages, Trails
<1>3. i \in DOMAIN net[l]
  <2> DEFINE M == MessageOf(Ids)
  <2>1. net[l] \in Seq(M)
    BY <1>2
  <2> HIDE DEF M
  <2> QED
    BY <2>1, ReceivableIsThere
<1>4. id \in Ids
  <2>1. net[l][i] \in MessageOf(Ids)
    BY <1>2, <1>3
  <2> QED
    BY <1>1, <2>1, MessageFields
<1>5. OnlyAntis(out, id) /\ (~late => DOMAIN out = Onward(p, id) \ {HERE})
  <2>1. DOMAIN <<>> = {}
    OBVIOUS
  <2>2. OnlyAntis(onward, id) /\ DOMAIN onward = Onward(p, id) \ {HERE}
    BY DEF OnlyAntis
  <2>3. OnlyAntis(<<>>, id)
    BY <2>1 DEF OnlyAntis
  <2> HIDE DEF onward
  <2> QED
    BY <2>2, <2>3
<1>6. \A d \in DOMAIN out : out[d] \in Seq(MessageOf(Ids))
  <2>1. <<[type |-> "anti", id |-> id]>> \in Seq(MessageOf(Ids))
    BY <1>4, MessagesToSend
  <2> HIDE DEF out, id
  <2> QED
    BY <1>5, <2>1 DEF OnlyAntis
<1>7. Loses(new, p, id)
      /\ (EntriesFit(fRangeRoutingTable, queries) /\ AllInPlace(fRangeRoutingTable)
            => ~Knows(new, p, id))
  BY <1>2, <1>4, ForgottenEntries
<1>8. Loses(fRangeRoutingTable, p, id)
  BY DEF Loses
<1> HIDE DEF new, out
<1>9. PICK table : table = fRangeRoutingTable' /\ table = IF late THEN fRangeRoutingTable ELSE new
  BY <1>1
<1>10. PICK links : links = net' /\ links = Exchanged(l, i, out)
  BY <1>1
<1>11. PICK seen : /\ seen = met' /\ met \subseteq seen
                   /\ "misread" \notin seen /\ ~late => Onward(p, id) = WentOnward(p, id)
  BY <1>1
<1>12. Loses(table, p, id)
  BY <1>7, <1>8, <1>9
<1>13. ASSUME NoFlaw(seen), Ahead(fGVT, queries[id].time)
       PROVE  AllTold(table, p, id, out)
  <2>1. ~late
    <3>1. fGVT[p] \in Nat /\ queries[id].time \in Nat
      BY <1>2, <1>4, QueryFields, TimesAreNumbers DEF Types, TableTypes, AreTables
    <3>2. queries[id].time >= fGVT[p]
      BY <1>13 DEF Ahead
    <3> QED
      BY <3>1, <3>2
  <2>2. AllInPlace(fRangeRoutingTable) /\ Onward(p, id) = WentOnward(p, id)
    BY <1>2, <1>11, <1>13, <2>1 DEF NoFlaw
  <2>3. ~Knows(table, p, id)
    BY <1>2, <1>7, <1>9, <2>1, <2>2
  <2>4. \A d \in Direction : PassedOn(fRangeRoutingTable, p, d, id) => d \in WentOnward(p, id)
    BY DEF PassedOn, WentOnward, EntriesOf
  <2> QED
    BY <1>5, <2>1, <2>2, <2>3, <2>4 DEF AllTold
<1> HIDE DEF late, id
<1>14. net[l][i].id = id
  BY DEF id
<1>15. TrailOf(table, links, retracted, fGVT, seen, queries, id)
  <2>1. /\ net[l][i].type = "anti" /\ net[l][i].id = id /\ OnlyAntis(out, id)
        /\ Loses(table, l[2], id) /\ met \subseteq seen
    BY <1>1, <1>5, <1>11, <1>12, <1>14
  <2>2. NoFlaw(seen) /\ Ahead(fGVT, queries[id].time) => AllTold(table, l[2], id, out)
    BY <1>13
  <2>3. TrailOf(table, Exchanged(l, i, out), retracted, fGVT, seen, queries, id)
    BY <1>4, <2>1, <2>2, AntiTrail
  <2> QED
    BY <1>10, <2>3
<1>16. OwnAntis(links, queries)
  BY <1>2, <1>3, <1>6, <1>10, OwnAntisExchanged
<1>17. ASSUME NEW j \in Ids \ {id} PROVE Calm(table, links, j)
  <2>1. Silent(out, j)
    BY <1>5, AntisHaveNoQuery
  <2>2. SameOnLinks(net, links, j)
    BY <1>2, <1>3, <1>6, <1>10, <1>14, <2>1, ExchangedCalm
  <2>3. NoMoreKnow(fRangeRoutingTable, table, j) /\ StayPassedOn(fRangeRoutingTable, table, j)
    BY <1>12, LosesKeep
  <2> QED
    BY <2>2, <2>3 DEF Calm
<1>18. EntriesFit(table, queries) /\ ("tied" \notin seen => AllInPlace(table))
  <2>1. /\ EntriesFit(fRangeRoutingTable, queries) => EntriesFit(table, queries)
        /\ AllInPlace(fRangeRoutingTable) => AllInPlace(table)
    BY <1>12, LosesKeep
  <2> QED
    BY <1>2, <1>11, <2>1
<1> QED
  BY <1>9, <1>10, <1>11, <1>15, <1>16, <1>17, <1>18, TrailsAfter
-----------------------------------------------------------------------------
(***************************************************************************)
(* Range updates and writes change ranges, and move entries to the period  *)
(* they belong to.                                                         *)
(***************************************************************************)
RangesOnly(table, seen) ==
    \A q \in Clp, d \in Direction :
      /\ EntriesOf(table[q][d]) = EntriesOf(fRangeRoutingTable[q][d])
      /\ "tied" \notin seen /\ InPlace(fRangeRoutingTable[q][d]) => InPlace(table[q][d])

LEMMA ListRanges ==
    ASSUME Types, NEW p \in Clp, NEW port \in Direction, NEW new, NEW seen,
           EntriesOf(new) = EntriesOf(fRangeRoutingTable[p][port]),
           "tied" \notin seen /\ InPlace(fRangeRoutingTable[p][port]) => InPlace(new)
    PROVE  RangesOnly([fRangeRoutingTable EXCEPT ![p][port] = new], seen)
<1> DEFINE table == [fRangeRoutingTable EXCEPT ![p][port] = new]
<1>1. fRangeRoutingTable \in [Clp -> [Direction -> Periods(Ids)]]
  BY DEF Types, TableTypes, AreTables
<1>2. ASSUME NEW q \in Clp, NEW d \in Direction
      PROVE  table[q][d] = IF q = p /\ d = port THEN new ELSE fRangeRoutingTable[q][d]
  BY <1>1
<1> HIDE DEF table
<1>3. RangesOnly(table, seen)
  BY <1>2 DEF RangesOnly
<1> QED
  BY <1>3 DEF table

LEMMA RangesTrails ==
    ASSUME LinksAgree, Types, Trails, NEW table, NEW links, NEW seen,
           table = fRangeRoutingTable', links = net', seen = met',
           queries' = queries, retracted' = retracted, fGVT' = fGVT, met \subseteq seen,
           RangesOnly(table, seen), OwnAntis(links, queries),
           \A j \in Ids : SameOnLinks(net, links, j)
    PROVE  Trails'
<1>1. /\ EntriesFit(fRangeRoutingTable, queries)
      /\ "tied" \notin met => AllInPlace(fRangeRoutingTable)
  BY DEF Trails
<1>2. 0 \notin Ids
  BY DEF Types, AreQueries, Ids
<1>3. EntriesFit(table, queries)
  BY <1>1 DEF EntriesFit, RangesOnly
<1>4. "tied" \notin seen => AllInPlace(table)
  BY <1>1 DEF AllInPlace, RangesOnly
<1>5. ASSUME NEW j \in Ids \ {0} PROVE Calm(table, links, j)
  <2>1. NoMoreKnow(fRangeRoutingTable, table, j)
    BY DEF RangesOnly, NoMoreKnow, Knows
  <2>2. StayPassedOn(fRangeRoutingTable, table, j)
    BY DEF RangesOnly, StayPassedOn, PassedOn
  <2> QED
    BY <2>1, <2>2 DEF Calm
<1> QED
  BY <1>2, <1>3, <1>4, <1>5, TrailsAfter

LEMMA UpdatesAreSilent ==
    ASSUME NEW p, NEW updates \in Seq(Announcement), NEW source
    PROVE  LET out == SendRangeUpdates(p, updates, source)
           IN  /\ \A id : Silent(out, id)
               /\ \A d \in DOMAIN out : out[d] \in Seq(MessageOf(Ids))
<1> DEFINE out == SendRangeUpdates(p, updates, source)
           sent == [i \in DOMAIN updates |-> [type |-> "update", time |-> updates[i].time,
                                              range |-> updates[i].range]]
<1>1. MaySend(p, out, Ids)
  BY UpdatesMayBeSent
<1>2. \A d \in DOMAIN out : out[d] = sent
  BY DEF SendRangeUpdates
<1>3. \A m \in ToSet(sent) : m.type = "update"
  BY DEF ToSet
<1> HIDE DEF out, sent
<1>4. \A id : Silent(out, id)
  BY <1>2, <1>3 DEF Silent
<1> QED
  BY <1>1, <1>4 DEF MaySend, out

LEMMA SentCalm ==
    ASSUME NEW M, net \in [Link -> Seq(M)], NEW p, NEW out,
           \A d \in DOMAIN out : out[d] \in Seq(M), NEW id, Silent(out, id)
    PROVE  SameOnLinks(net, Sent(p, out), id)
<1> SUFFICES ASSUME NEW k \in Link
             PROVE  /\ Has(Sent(p, out)[k], "query", id) => Has(net[k], "query", id)
                    /\ Has(Sent(p, out)[k], "anti", id) <=> Has(net[k], "anti", id)
                    /\ QueryFirst(net[k], id) => QueryFirst(Sent(p, out)[k], id)
  BY DEF SameOnLinks
<1> DEFINE more == OutOn(k, p, out)
<1>1. Sent(p, out)[k] = net[k] \o more
  BY DEF Sent, OutOn
<1>2. net[k] \in Seq(M) /\ more \in Seq(M)
  BY OutOnIsSeq
<1>3. ~Has(more, "query", id) /\ ~Has(more, "anti", id)
  BY SilentOn
<1> HIDE DEF more
<1>4. \A type : Has(net[k] \o more, type, id) <=> Has(net[k], type, id) \/ Has(more, type, id)
  BY <1>2, HasInConcat
<1>5. QueryFirst(net[k], id) => QueryFirst(net[k] \o more, id)
  BY <1>2, <1>3, OrderInConcat
<1> QED
  BY <1>1, <1>3, <1>4, <1>5

LEMMA UpdateTrails ==
    ASSUME LinksAgree, Inv, Trails, NEW l \in Link, l[2] \in Clp, NEW i \in DOMAIN net[l],
           ProcessRangeUpdate(l[2], l, i),
           queries' = queries, retracted' = retracted, fGVT' = fGVT
    PROVE  Trails'
<1> DEFINE p == l[2]
           m == net[l][i]
           source == GetDirectionFromRank(p, l[1])
           list == fRangeRoutingTable[p][source]
           updates == Announced(list, m.time, m.range)
           new == WithRange(list, m.time, m.range)
           lists == [fRangeRoutingTable[p] EXCEPT ![source] = new]
           out == SendRangeUpdates(p, updates, source)
<1>1. Types /\ net \in [Link -> Seq(MessageOf(Ids))] /\ OwnAntis(net, queries)
  BY DEF Inv, Types, NetTypes, AreMessages, Trails
<1>2. m.type = "update" /\ m.time \in Time /\ m.range \in AnyRange
  <2>1. m \in MessageOf(Ids) /\ m.type = "update"
    BY <1>1 DEF ProcessRangeUpdate
  <2> QED
    BY <2>1, MessageFields
<1>3. net' = Exchanged(l, i, out) /\ fRangeRoutingTable' = [fRangeRoutingTable EXCEPT ![p][source] = new]
  <2>1. fRangeRoutingTable' = [fRangeRoutingTable EXCEPT ![p] = lists]
    BY DEF ProcessRangeUpdate
  <2>2. net' = Exchanged(l, i, out)
    BY DEF ProcessRangeUpdate
  <2> QED
    BY <2>1, <2>2
<1>4. met \subseteq met' /\ ("tied" \notin met' => ~SameTime(list, m.time))
  <2> DEFINE flaws == Flaws(p, lists, m.time, updates, source)
             more == (IF \E e \in EntriesAt(list, m.time) :
                           e.blocked /\ Crossing(m.range, e.box) THEN {"crossed"} ELSE {})
                        \cup (IF m.time < fGVT[p] THEN {"passed"} ELSE {})
                        \cup (IF Last(list).time > m.time THEN {"skipped"} ELSE {})
  <2>1. met' = met \cup flaws
               \cup (IF \E e \in EntriesAt(list, m.time) :
                           e.blocked /\ Crossing(m.range, e.box) THEN {"crossed"} ELSE {})
               \cup (IF m.time < fGVT[p] THEN {"passed"} ELSE {})
               \cup (IF Last(list).time > m.time THEN {"skipped"} ELSE {})
    BY Zenon DEF ProcessRangeUpdate
  <2>2. SameTime(list, m.time) => "tied" \in flaws
    BY DEF Flaws
  <2> HIDE DEF flaws, list, m
  <2> QED
    BY <2>1, <2>2
<1>5. source \in Direction
  BY LinkEnds
<1>6. list \in Periods(Ids)
  BY <1>1, <1>5 DEF Types, TableTypes, AreTables
<1>7. /\ EntriesOf(new) = EntriesOf(list)
      /\ InPlace(list) /\ ~SameTime(list, m.time) => InPlace(new)
  <2>1. m.range \in KnownRange
    BY <1>2 DEF KnownRange
  <2> HIDE DEF list
  <2> QED
    BY <1>2, <1>6, <2>1, WithRangeEntries
<1>8. updates \in Seq(Announcement)
  BY <1>2, AnnouncedIs
<1>9. (\A id : Silent(out, id)) /\ \A d \in DOMAIN out : out[d] \in Seq(MessageOf(Ids))
  BY <1>8, UpdatesAreSilent
<1> HIDE DEF out, new
<1>10. PICK links : links = net' /\ links = Exchanged(l, i, out)
  BY <1>3
<1>11. PICK seen : /\ seen = met' /\ met \subseteq seen
                   /\ "tied" \notin seen => ~SameTime(list, m.time)
  BY <1>4
<1>12. PICK table : /\ table = fRangeRoutingTable'
                    /\ table = [fRangeRoutingTable EXCEPT ![p][source] = new]
  BY <1>3
<1>13. OwnAntis(links, queries)
  BY <1>1, <1>9, <1>10, OwnAntisExchanged
<1>14. ASSUME NEW j \in Ids PROVE SameOnLinks(net, links, j)
  BY <1>1, <1>2, <1>9, <1>10, ExchangedCalm
<1>15. RangesOnly(table, seen)
  <2>1. /\ EntriesOf(new) = EntriesOf(fRangeRoutingTable[p][source])
        /\ "tied" \notin seen /\ InPlace(fRangeRoutingTable[p][source]) => InPlace(new)
    BY <1>7, <1>11
  <2> HIDE DEF source, list, m
  <2>2. RangesOnly([fRangeRoutingTable EXCEPT ![p][source] = new], seen)
    BY <1>1, <1>5, <2>1, ListRanges
  <2> QED
    BY <1>12, <2>2
<1> QED
  BY <1>1, <1>10, <1>11, <1>12, <1>13, <1>14, <1>15, RangesTrails
-----------------------------------------------------------------------------
LEMMA WriteTrails ==
    ASSUME LinksAgree, Inv, Trails, NEW v \in Ssv, NEW t \in Time, NEW history,
           AreHistories([positions EXCEPT ![v] = history]), Update(v, t, history)
    PROVE  Trails'
<1> DEFINE p == home[v]
           end == EndTime(positions[v], t)
           now == [positions EXCEPT ![v] = history]
           RangeFrom(s) == RecalculateRange(home, now, p, s)
           list == fRangeRoutingTable[p][HERE]
           this == WithRange(list, t, RangeFrom(t))
           later == IF HasRangePeriod(list, t) THEN LaterPeriods(this, t, end) ELSE {}
           updates == Announced(list, t, RangeFrom(t))
                        \o [n \in 1..Cardinality(later) |->
                              [time |-> t, range |-> RangeFrom(this[Min(later) + n - 1].time)]]
           moved == [k \in DOMAIN this |->
                       IF k \in later THEN [this[k] EXCEPT !.range = RangeFrom(this[k].time)]
                       ELSE this[k]]
           lists == [fRangeRoutingTable[p] EXCEPT ![HERE] = moved]
           flaws == Flaws(p, lists, t, updates, HERE)
<1>1. /\ fRangeRoutingTable' = [fRangeRoutingTable EXCEPT ![p][HERE] = moved]
      /\ queries' = queries /\ retracted' = retracted /\ fGVT' = fGVT
  <2>1. fRangeRoutingTable' = [fRangeRoutingTable EXCEPT ![p] = lists]
    BY DEF Update
  <2>2. fRangeRoutingTable' = [fRangeRoutingTable EXCEPT ![p][HERE] = moved]
    BY <2>1
  <2> QED
    BY <2>2 DEF Update
<1>2. met \subseteq met' /\ ("tied" \notin met' => ~SameTime(list, t))
  <2>1. met' = met \cup flaws
                 \cup (IF \E k \in DOMAIN list : t < list[k].time /\ list[k].time < end
                       THEN {"skipped"} ELSE {})
                 \cup (IF \E s \in UNION {DOMAIN now[w] : w \in Ssv} :
                             /\ t < s /\ PeriodAt(this, s) = PeriodAt(this, t)
                             /\ RangeFrom(s) # RangeFrom(t)
                       THEN {"overrun"} ELSE {})
    BY Zenon DEF Update
  <2>2. SameTime(list, t) => "tied" \in flaws
    <3> HIDE DEF lists, updates
    <3> QED
      BY DEF Flaws
  <2> HIDE DEF flaws, list, this, end, now, RangeFrom
  <2> QED
    BY <2>1, <2>2
<1> HIDE DEF flaws, updates, lists, now
<1>3. Types /\ Types' /\ SendsUpdates
  BY UpdateKeepsTypes DEF Inv
<1>4. PICK q \in Clp, sent \in Seq(Announcement) :
        net' = Sent(q, SendRangeUpdates(q, sent, HERE))
  BY <1>3 DEF SendsUpdates
<1>5. p \in Clp /\ HERE \in Direction
  BY <1>3, ConstantsAssumption, PortsAreDirections DEF Types, HistoryTypes
<1>6. list \in Periods(Ids)
  BY <1>3, <1>5 DEF Types, TableTypes, AreTables
<1>7. RangeFrom(t) \in KnownRange
  <2>1. AreHistories(now)
    BY DEF now
  <2>2. RangeFrom(t) \in AnyRange
    BY <2>1, RecalculatedIsRange
  <2> QED
    BY <2>2 DEF KnownRange
<1> HIDE DEF RangeFrom, later
<1>8. /\ EntriesOf(this) = EntriesOf(list) /\ this \in Periods(Ids)
      /\ InPlace(list) /\ ~SameTime(list, t) => InPlace(this)
  <2> HIDE DEF list
  <2> QED
    BY <1>6, <1>7, WithRangeEntries, WithRangeKeeps DEF Keeps
<1>9. EntriesOf(moved) = EntriesOf(this) /\ (InPlace(this) => InPlace(moved))
  <2> HIDE DEF this
  <2>1. DOMAIN moved = DOMAIN this
    OBVIOUS
  <2>2. ASSUME NEW k \in DOMAIN this
        PROVE  moved[k].time = this[k].time /\ moved[k].info = this[k].info
    <3>1. this[k] \in Period(Ids)
      BY <1>8, PeriodsAre
    <3> QED
      BY <3>1 DEF Period
  <2> HIDE DEF moved
  <2> QED
    BY <2>1, <2>2, EntriesSame
<1> HIDE DEF moved, this
<1>10. PICK seen : /\ seen = met' /\ met \subseteq seen
                   /\ "tied" \notin seen => ~SameTime(list, t)
  BY <1>2
<1>11. PICK table : /\ table = fRangeRoutingTable'
                    /\ table = [fRangeRoutingTable EXCEPT ![p][HERE] = moved]
  BY <1>1
<1>12. RangesOnly(table, seen)
  <2>1. /\ EntriesOf(moved) = EntriesOf(fRangeRoutingTable[p][HERE])
        /\ "tied" \notin seen /\ InPlace(fRangeRoutingTable[p][HERE]) => InPlace(moved)
    BY <1>8, <1>9, <1>10
  <2> HIDE DEF list, p
  <2>2. RangesOnly([fRangeRoutingTable EXCEPT ![p][HERE] = moved], seen)
    BY <1>3, <1>5, <2>1, ListRanges
  <2> QED
    BY <1>11, <2>2
<1> DEFINE out == SendRangeUpdates(q, sent, HERE)
<1>13. (\A id : Silent(out, id)) /\ \A d \in DOMAIN out : out[d] \in Seq(MessageOf(Ids))
  BY UpdatesAreSilent
<1> HIDE DEF out
<1>14. PICK links : links = net' /\ links = Sent(q, out)
  BY <1>4 DEF out
<1>15. net \in [Link -> Seq(MessageOf(Ids))] /\ OwnAntis(net, queries)
  BY <1>3 DEF Types, NetTypes, AreMessages, Trails
<1>16. ASSUME NEW j \in Ids PROVE SameOnLinks(net, links, j)
  BY <1>13, <1>14, <1>15, SentCalm
<1>17. OwnAntis(links, queries)
  <2>1. ASSUME NEW a \in Alps PROVE links[<<a, AlpParent[a]>>] = net[<<a, AlpParent[a]>>]
    <3>1. PICK k \in Link : k = <<a, AlpParent[a]>>
      BY AgentLink
    <3>2. k[1] # q
      BY <3>1, ClpOrAlp
    <3>3. links[k] = net[k] \o <<>>
      BY <1>14, <3>2 DEF Sent
    <3>4. net[k] \in Seq(MessageOf(Ids))
      BY <1>15
    <3>5. net[k] \o <<>> = net[k]
      <4> DEFINE M == MessageOf(Ids)
      <4>1. net[k] \in Seq(M)
        BY <3>4
      <4> HIDE DEF M
      <4> QED
        BY <4>1
    <3> QED
      BY <3>1, <3>3, <3>5
  <2> QED
    BY <1>15, <2>1 DEF OwnAntis
<1> QED
  BY <1>1, <1>3, <1>10, <1>11, <1>12, <1>14, <1>16, <1>17, RangesTrails
-----------------------------------------------------------------------------
(***************************************************************************)
(* The ALPs and the GVT.                                                   *)
(***************************************************************************)
LEMMA AnswerTrails ==
    ASSUME LinksAgree, Inv, Trails, NEW a \in Alps, ReceiveAnswer(a)
    PROVE  Trails'
<1> DEFINE l == <<AlpParent[a], a>>
<1>1. /\ net' = [net EXCEPT ![l] = Tail(@)] /\ fRangeRoutingTable' = fRangeRoutingTable
      /\ queries' = queries /\ retracted' = retracted /\ fGVT' = fGVT /\ met' = met
  BY DEF ReceiveAnswer
<1>2. l \in Link /\ net \in [Link -> Seq(MessageOf(Ids))] /\ l[2] \notin Clp
  BY AgentLink, ClpOrAlp DEF Inv, Types, NetTypes, AreMessages
<1>3. Types /\ OwnAntis(net, queries)
  BY DEF Inv, Trails
<1>4. PICK links : links = net' /\ \A k \in Link : k # l => links[k] = net[k]
  BY <1>1, <1>2
<1> HIDE DEF l
<1>5. \A j \in Ids : SameOnLinks(net, links, j)
  BY <1>2, <1>4 DEF SameOnLinks
<1>6. OwnAntis(links, queries)
  <2>1. ASSUME NEW b \in Alps PROVE links[<<b, AlpParent[b]>>] = net[<<b, AlpParent[b]>>]
    <3>1. PICK k \in Link : k = <<b, AlpParent[b]>> /\ k[2] \in Clp
      BY AgentLink
    <3> QED
      BY <1>2, <1>4, <3>1
  <2> QED
    BY <1>3, <2>1 DEF OwnAntis
<1>7. RangesOnly(fRangeRoutingTable, met)
  BY DEF RangesOnly
<1> QED
  BY <1>1, <1>3, <1>4, <1>5, <1>6, <1>7, RangesTrails

LEMMA GvtTrails ==
    ASSUME LinksAgree, Inv, Trails, NEW p \in Clp, NEW t \in GvtTime, SetGvt(p, t)
    PROVE  Trails'
<1> DEFINE row == [d \in Direction |-> ClearRangePeriods(fRangeRoutingTable[p][d], t)]
           new == [fRangeRoutingTable EXCEPT ![p] = row]
           later == [fGVT EXCEPT ![p] = t]
<1>1. /\ t > fGVT[p] /\ fGVT' = later /\ fRangeRoutingTable' = new
      /\ net' = net /\ queries' = queries /\ retracted' = retracted /\ met' = met
  BY DEF SetGvt
<1>2. t \in Time /\ t \in Nat
  BY TimesAreNumbers DEF Time
<1>3. Types /\ AreTables(fRangeRoutingTable, fGVT, Ids)
  BY DEF Inv, Types, TableTypes
<1>4. /\ EntriesFit(fRangeRoutingTable, queries) /\ OwnAntis(net, queries)
      /\ "tied" \notin met => AllInPlace(fRangeRoutingTable)
  BY DEF Trails
<1>5. fGVT \in [Clp -> Time] /\ \A q \in Clp : fGVT[q] \in Nat
  BY <1>3, TimesAreNumbers DEF AreTables
<1>6. ASSUME NEW q \in Clp, NEW d \in Direction
      PROVE  LET list == fRangeRoutingTable[q][d]
             IN  /\ EntriesOf(new[q][d]) \subseteq EntriesOf(list)
                 /\ InPlace(list) => /\ InPlace(new[q][d])
                                     /\ \A e \in EntriesOf(list) :
                                          e.time >= t => e \in EntriesOf(new[q][d])
  <2>1. CASE q = p
    <3>1. PICK list \in Periods(Ids) : list = fRangeRoutingTable[p][d] /\ list[1].time <= fGVT[p]
      BY <1>3 DEF AreTables
    <3>2. list[1].time <= t
      <4>1. list[1].time \in Nat /\ fGVT[p] \in Nat
        BY <1>5, PeriodsAre
      <4> QED
        BY <1>1, <1>2, <3>1, <4>1
    <3> DEFINE cleared == ClearRangePeriods(list, t)
    <3>3. /\ EntriesOf(cleared) \subseteq EntriesOf(list)
          /\ InPlace(list) => InPlace(cleared)
          /\ InPlace(list) => \A e \in EntriesOf(list) : e.time >= t => e \in EntriesOf(cleared)
      BY <1>2, <3>2, ClearRangePeriodsEntries
    <3>4. new[q][d] = cleared
      BY <1>3, <2>1, <3>1 DEF AreTables
    <3> HIDE DEF cleared, new
    <3> QED
      BY <2>1, <3>1, <3>3, <3>4
  <2>2. CASE q # p
    <3>1. new[q] = fRangeRoutingTable[q]
      BY <1>3, <2>2 DEF AreTables
    <3> HIDE DEF new
    <3> QED
      BY <3>1
  <2> QED
    BY <2>1, <2>2
<1> HIDE DEF new
<1>7. EntriesFit(new, queries) /\ ("tied" \notin met => AllInPlace(new))
  <2>1. ASSUME NEW q \in Clp, NEW d \in Direction, NEW e \in EntriesOf(new[q][d])
        PROVE  e.time = queries[e.id].time /\ d # GetDirectionFromRank(q, queries[e.id].agent)
    <3>1. e \in EntriesOf(fRangeRoutingTable[q][d])
      BY <1>6, <2>1
    <3> QED
      BY <1>4, <3>1 DEF EntriesFit
  <2>2. EntriesFit(new, queries)
    BY <2>1 DEF EntriesFit
  <2>3. "tied" \notin met => AllInPlace(new)
    BY <1>4, <1>6 DEF AllInPlace
  <2> QED
    BY <2>2, <2>3
<1>8. ASSUME NEW id \in Ids
      PROVE  TrailOf(new, net, retracted, later, met, queries, id)
  <2>1. TrailOf(fRangeRoutingTable, net, retracted, fGVT, met, queries, id)
    BY DEF Trails, Trail
  <2>2. SameOnLinks(net, net, id)
    BY DEF SameOnLinks
  <2>3. NoMoreKnow(fRangeRoutingTable, new, id)
    BY <1>6 DEF NoMoreKnow, Knows
  <2>4. queries[id].time \in Nat
    BY <1>3, QueryFields, TimesAreNumbers DEF Types
  <2>5. Ahead(later, queries[id].time) => Ahead(fGVT, queries[id].time) /\ queries[id].time >= t
    <3> SUFFICES ASSUME Ahead(later, queries[id].time)
                 PROVE  Ahead(fGVT, queries[id].time) /\ queries[id].time >= t
      OBVIOUS
    <3>1. later[p] = t /\ \A q \in Clp : q # p => later[q] = fGVT[q]
      BY <1>5
    <3> HIDE DEF later
    <3>2. queries[id].time >= t
      BY <3>1 DEF Ahead
    <3>3. ASSUME NEW q \in Clp PROVE queries[id].time >= fGVT[q]
      <4>1. CASE q = p
        BY <1>1, <1>2, <1>5, <2>4, <3>2, <4>1
      <4>2. CASE q # p
        BY <3>1, <4>2 DEF Ahead
      <4> QED
        BY <4>1, <4>2
    <3> QED
      BY <3>2, <3>3 DEF Ahead
  <2>6. NoFlaw(met) /\ Ahead(later, queries[id].time)
          => StayPassedOn(fRangeRoutingTable, new, id)
    <3> SUFFICES ASSUME NoFlaw(met), Ahead(later, queries[id].time),
                        NEW q \in Clp, NEW d \in Direction, PassedOn(fRangeRoutingTable, q, d, id)
                 PROVE  PassedOn(new, q, d, id)
      BY DEF StayPassedOn
    <3>1. PICK e \in EntriesOf(fRangeRoutingTable[q][d]) : e.id = id /\ ~e.blocked
      BY DEF PassedOn
    <3>2. e.time = queries[id].time
      BY <1>4, <3>1 DEF EntriesFit
    <3>3. InPlace(fRangeRoutingTable[q][d])
      BY <1>4 DEF NoFlaw, AllInPlace
    <3>4. e \in EntriesOf(new[q][d])
      BY <1>6, <2>5, <3>2, <3>3
    <3> QED
      BY <3>1, <3>4 DEF PassedOn
  <2> HIDE DEF later
  <2> QED
    BY <2>1, <2>2, <2>3, <2>5, <2>6, CalmTrail
<1> HIDE DEF later
<1>9. Ids' = Ids
  BY <1>1 DEF Ids
<1>10. \A id \in Ids' : Trail(id)'
  BY <1>1, <1>8, <1>9 DEF Trail
<1>11. /\ EntriesFit(fRangeRoutingTable', queries') /\ OwnAntis(net', queries')
       /\ "tied" \notin met' => AllInPlace(fRangeRoutingTable')
  BY <1>1, <1>4, <1>7
<1> QED
  BY <1>10, <1>11 DEF Trails
-----------------------------------------------------------------------------
Undone(a, t) == {id \in QueriesOf(a) \ retracted : queries[id].time >= t}

LEMMA RollbackSendsAll ==
    ASSUME Types, NEW a \in Alps, NEW t \in QueryTime, ProcessRollback(a, t)
    PROVE  \E anti \in Seq(MessageOf(Ids)) :
             /\ \A m \in ToSet(anti) : m.type = "anti" /\ m.id \in Undone(a, t)
             /\ \A id \in Undone(a, t) : Has(anti, "anti", id)
             /\ net' = [net EXCEPT ![<<a, AlpParent[a]>>] = @ \o anti]
<1> DEFINE undone == Undone(a, t)
           k == <<a, AlpParent[a]>>
<1>1. PICK ids \in InOrder(undone) :
        net' = [net EXCEPT ![k] = @ \o [n \in DOMAIN ids |-> [type |-> "anti", id |-> ids[n]]]]
  BY DEF ProcessRollback, Undone
<1>2. undone \subseteq Ids
  BY DEF QueriesOf, Ids, Undone
<1> HIDE DEF undone
<1>3. PICK n \in Nat : Ids = 1..n
  BY DEF Types, AreQueries, Ids
<1>4. PICK c \in Nat : ids \in [1..c -> undone] /\ \A id \in undone : \E i \in 1..c : ids[i] = id
  <2>1. /\ Cardinality(undone) \in Nat
        /\ ids \in [1..Cardinality(undone) -> undone]
        /\ \A x \in undone : \E i \in 1..Cardinality(undone) : ids[i] = x
    BY <1>2, <1>3, OrderOfPlaces
  <2> QED
    BY <2>1
<1> DEFINE anti == [i \in DOMAIN ids |-> [type |-> "anti", id |-> ids[i]]]
<1>5. \A i \in 1..c : /\ anti[i] \in MessageOf(Ids) /\ anti[i].type = "anti"
                      /\ anti[i].id = ids[i] /\ ids[i] \in undone
  <2>1. \A i \in 1..c : ids[i] \in Ids /\ ids[i] \in undone
    BY <1>2, <1>4
  <2> QED
    BY <1>4, <2>1 DEF MessageOf
<1>6. anti = [i \in 1..c |-> anti[i]]
  BY <1>4
<1>7. net' = [net EXCEPT ![k] = @ \o anti]
  BY <1>1
<1> HIDE DEF anti
<1>8. anti \in Seq(MessageOf(Ids)) /\ DOMAIN anti = 1..c
  BY <1>5, <1>6
<1>9. \A m \in ToSet(anti) : m.type = "anti" /\ m.id \in undone
  BY <1>5, <1>8 DEF ToSet
<1>10. ASSUME NEW id \in undone PROVE Has(anti, "anti", id)
  <2>1. PICK i \in 1..c : ids[i] = id
    BY <1>4
  <2>2. anti[i] \in ToSet(anti)
    BY <1>8 DEF ToSet
  <2> QED
    BY <1>5, <2>1, <2>2 DEF Has
<1> QED
  BY <1>7, <1>8, <1>9, <1>10 DEF undone

LEMMA RollbackTrails ==
    ASSUME LinksAgree, Inv, Trails, NEW a \in Alps, NEW t \in QueryTime, ProcessRollback(a, t)
    PROVE  Trails'
<1> DEFINE l == <<a, AlpParent[a]>>
           undone == retracted \cup Undone(a, t)
           M == MessageOf(Ids)
<1>1. /\ retracted' = undone /\ fRangeRoutingTable' = fRangeRoutingTable
      /\ queries' = queries /\ fGVT' = fGVT /\ met' = met
  BY DEF ProcessRollback, Undone
<1>2. Types /\ net \in [Link -> Seq(M)] /\ OwnAntis(net, queries)
  BY DEF Inv, Types, NetTypes, AreMessages, Trails
<1>3. PICK anti \in Seq(M) :
             /\ \A m \in ToSet(anti) : m.type = "anti" /\ m.id \in Undone(a, t)
             /\ \A id \in Undone(a, t) : Has(anti, "anti", id)
             /\ net' = [net EXCEPT ![l] = @ \o anti]
  BY <1>2, RollbackSendsAll
<1>4. l \in Link /\ AlpParent[a] \in Clp /\ l[1] \notin Clp
  BY AgentLink, ClpOrAlp
<1> HIDE DEF M
<1>5. PICK links : /\ links = net' /\ links[l] = net[l] \o anti
                   /\ \A k \in Link : k # l => links[k] = net[k]
  BY <1>2, <1>3, <1>4
<1>6. \A id \in Undone(a, t) : queries[id].agent = a
  BY DEF Undone, QueriesOf
<1>7. OwnAntis(links, queries)
  <2> SUFFICES ASSUME NEW b \in Alps, NEW m \in ToSet(links[<<b, AlpParent[b]>>]),
                      m.type = "anti"
               PROVE  queries[m.id].agent = b
    BY DEF OwnAntis
  <2>1. CASE b = a
    <3>1. m \in ToSet(net[l] \o anti)
      BY <1>5, <2>1
    <3>2. net[l] \in Seq(M)
      BY <1>2, <1>4
    <3>3. m \in ToSet(net[l]) \/ m \in ToSet(anti)
      BY <3>1, <3>2, ToSetOfConcat
    <3> QED
      BY <1>2, <1>3, <1>6, <2>1, <3>3 DEF OwnAntis
  <2>2. CASE b # a
    <3>1. PICK k \in Link : k = <<b, AlpParent[b]>> /\ k[1] = b
      BY AgentLink
    <3>2. k # l
      BY <2>2, <3>1
    <3> QED
      BY <1>2, <1>5, <3>1, <3>2 DEF OwnAntis
  <2> QED
    BY <2>1, <2>2
<1>8. ASSUME NEW k \in Link, NEW id
      PROVE  /\ Has(links[k], "query", id) => Has(net[k], "query", id)
             /\ QueryFirst(net[k], id) => QueryFirst(links[k], id)
             /\ Has(net[k], "anti", id) => Has(links[k], "anti", id)
             /\ k # l \/ id \notin Undone(a, t) =>
                  (Has(links[k], "anti", id) => Has(net[k], "anti", id))
             /\ k = l /\ id \in Undone(a, t) => Has(links[k], "anti", id)
  <2>1. CASE k # l
    BY <1>5, <2>1
  <2>2. CASE k = l
    <3>1. net[l] \in Seq(M) /\ links[k] = net[l] \o anti
      BY <1>2, <1>4, <1>5, <2>2
    <3>2. ~Has(anti, "query", id) /\ (Has(anti, "anti", id) => id \in Undone(a, t))
      BY <1>3 DEF Has
    <3>3. \A type : Has(net[l] \o anti, type, id) <=> Has(net[l], type, id) \/ Has(anti, type, id)
      BY <3>1, HasInConcat
    <3>4. QueryFirst(net[l], id) => QueryFirst(net[l] \o anti, id)
      BY <3>1, <3>2, OrderInConcat
    <3> QED
      BY <1>3, <2>2, <3>1, <3>2, <3>3, <3>4
  <2> QED
    BY <2>1, <2>2
<1> HIDE DEF undone, l
<1>9. ASSUME NEW id \in Ids
      PROVE  TrailOf(fRangeRoutingTable, links, undone, fGVT, met, queries, id)
  <2>1. TrailOf(fRangeRoutingTable, net, retracted, fGVT, met, queries, id)
    BY DEF Trails, Trail
  <2>2. CASE id \notin Undone(a, t)
    <3>1. SameOnLinks(net, links, id)
      BY <1>8, <2>2 DEF SameOnLinks
    <3>2. NoMoreKnow(fRangeRoutingTable, fRangeRoutingTable, id)
          /\ StayPassedOn(fRangeRoutingTable, fRangeRoutingTable, id)
      BY DEF NoMoreKnow, StayPassedOn
    <3>3. id \in undone => id \in retracted
      BY <2>2 DEF undone
    <3> QED
      BY <2>1, <3>1, <3>2, <3>3, CalmTrail
  <2>3. CASE id \in Undone(a, t)
    <3>1. queries[id].agent = a
      BY <1>6, <2>3
    <3>2. /\ Ordered(net, a, id) /\ Untouched(fRangeRoutingTable, net, a, id)
          /\ NoFlaw(met) /\ Ahead(fGVT, queries[id].time)
               => Followed(fRangeRoutingTable, net, retracted, a, id)
      BY <2>1, <3>1 DEF TrailOf
    <3>3. Ordered(links, a, id)
      BY <1>8, <3>2 DEF Ordered
    <3>4. \A q \in Clp : Touched(fRangeRoutingTable, links, q, id)
                           => Touched(fRangeRoutingTable, net, q, id)
      <4>1. \A k \in Link : k[1] \in Clp /\ Carries(links, k, id) => Carries(net, k, id)
        BY <1>4, <1>8 DEF Carries
      <4> QED
        BY <4>1 DEF Touched
    <3>5. Untouched(fRangeRoutingTable, links, a, id)
      BY <1>8, <3>2, <3>4 DEF Untouched, Behind
    <3>6. ASSUME NoFlaw(met), Ahead(fGVT, queries[id].time)
          PROVE  Followed(fRangeRoutingTable, links, undone, a, id)
      <4> SUFFICES ASSUME NEW k \in Link, FromAgent(k, a),
                          Has(links[k], "query", id) \/ Knows(fRangeRoutingTable, k[2], id)
                   PROVE  Source(fRangeRoutingTable, undone, k, id) \/ Has(links[k], "anti", id)
        BY DEF Followed
      <4>1. Source(fRangeRoutingTable, retracted, k, id) \/ Has(net[k], "anti", id)
        BY <1>8, <3>2, <3>6 DEF Followed
      <4>2. CASE k[1] \in Clp
        BY <1>8, <4>1, <4>2 DEF Source
      <4>3. CASE k[1] \notin Clp
        <5>1. k = l
          BY <4>3, FromAgentItself DEF l
        <5> QED
          BY <1>8, <2>3, <5>1
      <4> QED
        BY <4>2, <4>3
    <3> QED
      BY <3>1, <3>3, <3>5, <3>6 DEF TrailOf
  <2> QED
    BY <2>2, <2>3
<1>10. Ids' = Ids
  BY <1>1 DEF Ids
<1>11. \A id \in Ids' : Trail(id)'
  BY <1>1, <1>5, <1>9, <1>10 DEF Trail
<1>12. /\ EntriesFit(fRangeRoutingTable', queries') /\ OwnAntis(net', queries')
       /\ "tied" \notin met' => AllInPlace(fRangeRoutingTable')
  BY <1>1, <1>5, <1>7 DEF Trails
<1> QED
  BY <1>11, <1>12 DEF Trails
-----------------------------------------------------------------------------
LEMMA QueryTrails ==
    ASSUME LinksAgree, Inv, Trails, NEW a \in Alps, NEW t \in QueryTime, NEW box \in Box,
           RangeQuery(a, t, box)
    PROVE  Trails'
<1> DEFINE q == [agent |-> a, time |-> t, box |-> box]
           n == Len(queries) + 1
           m == Query(n, {})
           l == <<a, AlpParent[a]>>
           M == MessageOf(Ids \cup {n})
<1>1. /\ queries' = Append(queries, q) /\ net' = [net EXCEPT ![l] = Append(@, m)]
      /\ fRangeRoutingTable' = fRangeRoutingTable /\ retracted' = retracted
      /\ fGVT' = fGVT /\ met' = met
  BY DEF RangeQuery
<1>2. /\ Types /\ OwnAntis(net, queries) /\ EntriesFit(fRangeRoutingTable, queries)
      /\ "tied" \notin met => AllInPlace(fRangeRoutingTable)
  BY DEF Inv, Trails
<1>3. PICK asked : /\ asked = queries' /\ DOMAIN asked = Ids \cup {n} /\ n \notin Ids
                   /\ \A id \in Ids : asked[id] = queries[id]
                   /\ asked[n].agent = a
  <2>1. PICK c \in Nat : /\ c = Len(queries) /\ Ids = 1..c /\ DOMAIN queries' = 1..(c + 1)
                         /\ \A id \in 1..c : queries'[id] = queries[id]
                         /\ queries'[c + 1] = q
    <3>1. queries \in Seq(RangeQueryOf) /\ q \in RangeQueryOf
      BY <1>2 DEF Types, AreQueries, RangeQueryOf, Time
    <3>2. queries' = Append(queries, q)
      BY <1>1
    <3> HIDE DEF q, n, m, l, M
    <3>3. /\ Len(queries) \in Nat /\ DOMAIN queries = 1..Len(queries)
          /\ DOMAIN Append(queries, q) = 1..(Len(queries) + 1)
          /\ \A id \in 1..Len(queries) : Append(queries, q)[id] = queries[id]
          /\ Append(queries, q)[Len(queries) + 1] = q
      BY <3>1
    <3> QED
      BY <3>2, <3>3, Zenon DEF Ids
  <2>2. q.agent = a /\ n = c + 1
    BY <2>1
  <2> HIDE DEF q, n
  <2>3. n \notin 1..c /\ 1..(c + 1) = 1..c \cup {n}
    BY <2>1, <2>2
  <2> QED
    BY <2>1, <2>2, <2>3
<1>4. /\ l \in Link /\ AlpParent[a] \in Clp /\ l[1] \notin Clp /\ l[1] = a
  BY AgentLink, ClpOrAlp
<1>5. /\ m.type = "query" /\ m.id = n /\ m \in M /\ <<m>> \in Seq(M)
  BY FoundIsClosed, MessagesToSend DEF Query
<1>6. net \in [Link -> Seq(M)] /\ net \in [Link -> Seq(MessageOf(Ids))]
  <2>1. net \in [Link -> Seq(MessageOf(Ids))]
    BY <1>2 DEF Types, NetTypes, AreMessages
  <2>2. MessageOf(Ids) \subseteq M
    BY MoreIds
  <2> HIDE DEF M
  <2>3. Seq(MessageOf(Ids)) \subseteq Seq(M)
    BY <2>2
  <2> QED
    BY <2>1, <2>3
<1> HIDE DEF M, m, q, n
<1>7. PICK links : /\ links = net' /\ links[l] = net[l] \o <<m>>
                   /\ \A k \in Link : k # l => links[k] = net[k]
  <2>1. net[l] \in Seq(M)
    BY <1>4, <1>6
  <2>2. Append(net[l], m) = net[l] \o <<m>>
    BY <1>5, <2>1
  <2>3. \A k \in Link : net'[k] = IF k = l THEN Append(net[l], m) ELSE net[k]
    BY <1>1, <1>6
  <2> QED
    BY <1>4, <2>2, <2>3
<1>8. ASSUME NEW k \in Link, NEW id
      PROVE  /\ id # n => (Has(links[k], "query", id) => Has(net[k], "query", id))
             /\ k # l => (Has(links[k], "query", id) => Has(net[k], "query", id))
             /\ Has(links[k], "anti", id) <=> Has(net[k], "anti", id)
             /\ id # n => (QueryFirst(net[k], id) => QueryFirst(links[k], id))
  <2>1. CASE k # l
    BY <1>7, <2>1
  <2>2. CASE k = l
    <3>1. net[l] \in Seq(M) /\ links[k] = net[l] \o <<m>>
      BY <1>4, <1>6, <1>7, <2>2
    <3>2. ToSet(<<m>>) = {m}
      BY DEF ToSet
    <3>3. ~Has(<<m>>, "anti", id) /\ (Has(<<m>>, "query", id) => id = n)
      BY <1>5, <3>2 DEF Has
    <3> DEFINE more == <<m>>
    <3>4. more \in Seq(M)
      BY <1>5
    <3> HIDE DEF more
    <3>5. \A type : Has(net[l] \o more, type, id) <=> Has(net[l], type, id) \/ Has(more, type, id)
      BY <3>1, <3>4, HasInConcat
    <3>6. ~Has(more, "query", id) /\ QueryFirst(net[l], id) => QueryFirst(net[l] \o more, id)
      BY <3>1, <3>4, OrderInConcat
    <3> QED
      BY <2>2, <3>1, <3>3, <3>5, <3>6 DEF more
  <2> QED
    BY <2>1, <2>2
<1>9. ASSUME NEW k \in Link PROVE ~Carries(net, k, n)
  <2> SUFFICES ASSUME NEW e \in ToSet(net[k]), e.type \in {"query", "anti"}, e.id = n
               PROVE  FALSE
    BY DEF Carries, Has
  <2>1. e \in MessageOf(Ids)
    BY <1>6 DEF ToSet
  <2> QED
    BY <1>3, <2>1, MessageFields
<1>10. ASSUME NEW p \in Clp, NEW d \in Direction, NEW e \in EntriesOf(fRangeRoutingTable[p][d])
       PROVE  e.id \in Ids
  <2>1. PICK list \in Periods(Ids) : list = fRangeRoutingTable[p][d]
    BY <1>2 DEF Types, TableTypes, AreTables
  <2> QED
    BY <1>10, <2>1, EntriesAreTyped
<1>11. ASSUME NEW p \in Clp PROVE ~Knows(fRangeRoutingTable, p, n)
  BY <1>3, <1>10 DEF Knows
<1> HIDE DEF l
<1>12. ASSUME NEW id \in Ids
       PROVE  TrailOf(fRangeRoutingTable, links, retracted, fGVT, met, asked, id)
  <2>1. TrailOf(fRangeRoutingTable, net, retracted, fGVT, met, queries, id)
    BY DEF Trails, Trail
  <2>2. SameOnLinks(net, links, id) /\ asked[id] = queries[id]
    BY <1>3, <1>8 DEF SameOnLinks
  <2>3. NoMoreKnow(fRangeRoutingTable, fRangeRoutingTable, id)
        /\ StayPassedOn(fRangeRoutingTable, fRangeRoutingTable, id)
    BY DEF NoMoreKnow, StayPassedOn
  <2> QED
    BY <2>1, <2>2, <2>3, CalmTrail
<1>13. TrailOf(fRangeRoutingTable, links, retracted, fGVT, met, asked, n)
  <2>1. Ordered(links, a, n)
    BY <1>8, <1>9, OrderIfNoAnti DEF Ordered, Carries
  <2>2. Untouched(fRangeRoutingTable, links, a, n)
    <3> SUFFICES ASSUME NEW p \in Clp, Touched(fRangeRoutingTable, links, p, n) PROVE FALSE
      BY DEF Untouched, Behind
    <3>1. PICK k \in Link : k[1] = p /\ Carries(links, k, n)
      BY <1>11 DEF Touched
    <3>2. k # l
      BY <1>4, <3>1
    <3> QED
      BY <1>8, <1>9, <3>1, <3>2 DEF Carries
  <2>3. Followed(fRangeRoutingTable, links, retracted, a, n)
    <3> SUFFICES ASSUME NEW k \in Link, FromAgent(k, a),
                        Has(links[k], "query", n) \/ Knows(fRangeRoutingTable, k[2], n)
                 PROVE  Source(fRangeRoutingTable, retracted, k, n)
      BY DEF Followed
    <3>1. Has(links[k], "query", n)
      BY <1>11 DEF FromAgent
    <3>2. k = l
      BY <1>8, <1>9, <3>1 DEF Carries
    <3>3. n \notin retracted
      BY <1>2, <1>3 DEF Types, SeenTypes
    <3> QED
      BY <1>4, <3>2, <3>3 DEF Source
  <2> QED
    BY <1>3, <2>1, <2>2, <2>3 DEF TrailOf
<1>14. Ids' = Ids \cup {n}
  BY <1>3 DEF Ids
<1>15. \A id \in Ids' : Trail(id)'
  BY <1>1, <1>3, <1>7, <1>12, <1>13, <1>14 DEF Trail
<1>16. EntriesFit(fRangeRoutingTable, asked)
  BY <1>2, <1>3, <1>10 DEF EntriesFit
<1>17. OwnAntis(links, asked)
  <2> SUFFICES ASSUME NEW b \in Alps, NEW e \in ToSet(links[<<b, AlpParent[b]>>]),
                      e.type = "anti"
               PROVE  asked[e.id].agent = b
    BY DEF OwnAntis
  <2>1. PICK k \in Link : k = <<b, AlpParent[b]>>
    BY AgentLink
  <2>2. Has(links[k], "anti", e.id)
    BY <2>1 DEF Has
  <2>3. PICK f \in ToSet(net[k]) : f.type = "anti" /\ f.id = e.id
    BY <1>8, <2>2 DEF Has
  <2>4. f \in MessageOf(Ids)
    BY <1>6 DEF ToSet
  <2>5. e.id \in Ids
    BY <2>3, <2>4, MessageFields
  <2>6. queries[f.id].agent = b
    BY <1>2, <2>1, <2>3 DEF OwnAntis
  <2> QED
    BY <1>3, <2>3, <2>5, <2>6
<1>18. /\ EntriesFit(fRangeRoutingTable', queries') /\ OwnAntis(net', queries')
       /\ "tied" \notin met' => AllInPlace(fRangeRoutingTable')
  BY <1>1, <1>2, <1>3, <1>7, <1>16, <1>17
<1> QED
  BY <1>15, <1>18 DEF Trails
-----------------------------------------------------------------------------
LEMMA WriteIsUpdate ==
    ASSUME Types, NEW v \in Ssv, NEW t \in WriteTime,
           \/ \E q \in Position[v] : WriteWithRollback(v, t, q)
           \/ RollbackWrite(v, t)
    PROVE  \E history : /\ AreHistories([positions EXCEPT ![v] = history])
                        /\ Update(v, t, history)
<1>1. AreHistories(positions) /\ positions = [w \in Ssv |-> positions[w]]
  BY DEF Types, HistoryTypes
<1>2. t \in Time
  BY DEF Time
<1>3. ASSUME NEW history, 0 \in DOMAIN history, DOMAIN history \subseteq Time,
             \A s \in DOMAIN history : history[s] \in PointsOf(v)
      PROVE  AreHistories([positions EXCEPT ![v] = history])
  BY <1>1, <1>3 DEF AreHistories
<1>4. ASSUME NEW q \in Position[v], WriteWithRollback(v, t, q)
      PROVE  \E h : AreHistories([positions EXCEPT ![v] = h]) /\ Update(v, t, h)
  <2> DEFINE history == [s \in DOMAIN positions[v] \cup {t} |->
                           IF s = t THEN q ELSE positions[v][s]]
  <2>1. Update(v, t, history)
    BY <1>4 DEF WriteWithRollback
  <2>2. /\ 0 \in DOMAIN history /\ DOMAIN history \subseteq Time
        /\ \A s \in DOMAIN history : history[s] \in PointsOf(v)
    BY <1>1, <1>2 DEF AreHistories, PointsOf
  <2> HIDE DEF history
  <2> QED
    BY <1>3, <2>1, <2>2
<1>5. ASSUME RollbackWrite(v, t)
      PROVE  \E h : AreHistories([positions EXCEPT ![v] = h]) /\ Update(v, t, h)
  <2> DEFINE history == [s \in DOMAIN positions[v] \ {t} |-> positions[v][s]]
  <2>1. Update(v, t, history) /\ t # 0
    BY <1>5 DEF RollbackWrite
  <2>2. /\ 0 \in DOMAIN history /\ DOMAIN history \subseteq Time
        /\ \A s \in DOMAIN history : history[s] \in PointsOf(v)
    BY <1>1, <2>1 DEF AreHistories
  <2> HIDE DEF history
  <2> QED
    BY <1>3, <2>1, <2>2
<1> QED
  BY <1>4, <1>5

(***************************************************************************)
(* The trails hold from the start, and every step keeps them.              *)
(***************************************************************************)
LEMMA StartTrails ==
    ASSUME LinksAgree, Init
    PROVE  Trails
<1>1. Types /\ net \in [Link -> Seq(MessageOf(Ids))]
  BY StartTypes DEF Types, NetTypes, AreMessages
<1>2. Ids = {}
  BY DEF Init, Ids
<1>3. ASSUME NEW p \in Clp, NEW d \in Direction, NEW e \in EntriesOf(fRangeRoutingTable[p][d])
      PROVE  FALSE
  <2>1. PICK list \in Periods(Ids) : list = fRangeRoutingTable[p][d]
    BY <1>1 DEF Types, TableTypes, AreTables
  <2>2. e.id \in Ids
    BY <1>3, <2>1, EntriesAreTyped
  <2> QED
    BY <1>2, <2>2
<1>4. EntriesFit(fRangeRoutingTable, queries)
  BY <1>3 DEF EntriesFit
<1>5. AllInPlace(fRangeRoutingTable)
  BY <1>3 DEF AllInPlace, InPlace, EntriesOf
<1>6. OwnAntis(net, queries)
  <2> SUFFICES ASSUME NEW a \in Alps, NEW m \in ToSet(net[<<a, AlpParent[a]>>]), m.type = "anti"
               PROVE  FALSE
    BY DEF OwnAntis
  <2>1. PICK k \in Link : k = <<a, AlpParent[a]>>
    BY AgentLink
  <2>2. PICK c \in Seq(MessageOf(Ids)) : c = net[k]
    BY <1>1
  <2>3. m \in ToSet(c)
    BY <2>1, <2>2
  <2>4. m \in MessageOf(Ids)
    BY <2>2, <2>3 DEF ToSet
  <2> QED
    BY <1>2, <2>4, MessageFields
<1> QED
  BY <1>2, <1>4, <1>5, <1>6 DEF Trails

LEMMA ReceiveTrails ==
    ASSUME LinksAgree, WaysAgree, Inv, Trails, NEW p \in Clp, Receive(p)
    PROVE  Trails'
<1>1. PICK l \in Link : /\ l[2] = p
                       /\ \E i \in Receivable(net[l]) :
                            \/ ProcessNewQuery(p, l, i) \/ ProcessReply(p, l, i)
                            \/ ProcessAntiMessage(p, l, i) \/ ProcessRangeUpdate(p, l, i)
  BY DEF Receive
<1>2. PICK i \in Receivable(net[l]) :
        \/ ProcessNewQuery(p, l, i) \/ ProcessReply(p, l, i)
        \/ ProcessAntiMessage(p, l, i) \/ ProcessRangeUpdate(p, l, i)
  BY <1>1
<1>3. queries' = queries /\ retracted' = retracted /\ fGVT' = fGVT
  BY DEF Receive
<1>4. i \in DOMAIN net[l]
  <2>1. net[l] \in Seq(MessageOf(Ids))
    BY DEF Inv, Types, NetTypes, AreMessages
  <2> QED
    BY <2>1, ReceivableIsThere
<1>5. CASE ProcessNewQuery(p, l, i)
  BY <1>1, <1>3, <1>4, <1>5, NewQueryTrails
<1>6. CASE ProcessReply(p, l, i)
  BY <1>1, <1>3, <1>4, <1>6, ReplyTrails
<1>7. CASE ProcessAntiMessage(p, l, i)
  BY <1>1, <1>3, <1>7, AntiTrails
<1>8. CASE ProcessRangeUpdate(p, l, i)
  BY <1>1, <1>3, <1>4, <1>8, UpdateTrails
<1> QED
  BY <1>2, <1>5, <1>6, <1>7, <1>8

LEMMA StepTrails ==
    ASSUME LinksAgree, WaysAgree, Inv, Trails, [Next]_vars
    PROVE  Trails'
<1>1. Types
  BY DEF Inv
<1>2. CASE UNCHANGED vars
  BY <1>2 DEF Trails, Trail, Ids, vars
<1>3. ASSUME NEW a \in Alps, NEW t \in QueryTime, NEW box \in Box, RangeQuery(a, t, box)
      PROVE  Trails'
  BY <1>3, QueryTrails
<1>4. ASSUME NEW a \in Alps, NEW t \in QueryTime, ProcessRollback(a, t) PROVE Trails'
  BY <1>4, RollbackTrails
<1>5. ASSUME NEW a \in Alps, ReceiveAnswer(a) PROVE Trails'
  BY <1>5, AnswerTrails
<1>6. ASSUME NEW p \in Clp, Receive(p) PROVE Trails'
  BY <1>6, ReceiveTrails
<1>7. ASSUME NEW p \in Clp, NEW t \in GvtTime, SetGvt(p, t) PROVE Trails'
  BY <1>7, GvtTrails
<1>8. ASSUME NEW v \in Ssv, NEW t \in WriteTime,
              \/ \E q \in Position[v] : WriteWithRollback(v, t, q)
              \/ RollbackWrite(v, t)
      PROVE  Trails'
  <2>1. PICK history : /\ AreHistories([positions EXCEPT ![v] = history])
                       /\ Update(v, t, history)
    BY <1>1, <1>8, WriteIsUpdate
  <2>2. t \in Time
    BY DEF Time
  <2> QED
    BY <2>1, <2>2, WriteTrails
<1> QED
  BY <1>2, <1>3, <1>4, <1>5, <1>6, <1>7, <1>8 DEF Next

\* A trail leads back to the agent, who has not retracted the query.
LEMMA TrailsAreEnough ==
    ASSUME LinksAgree, WaysAgree, Inv, Trails
    PROVE  RetractedIsForgotten
<1> SUFFICES ASSUME \A l \in Link : net[l] = <<>>, met \cap {"tied", "misread"} = {},
                    NEW p \in Clp, NEW d \in Direction, NEW i \in DOMAIN fRangeRoutingTable[p][d],
                    NEW e \in ToSet(fRangeRoutingTable[p][d][i].info),
                    e.id \in retracted, NotBeforeGvt(e.time)
             PROVE  FALSE
  BY DEF RetractedIsForgotten
<1> DEFINE id == e.id
           a == queries[id].agent
           D(q, r) == GetDirectionFromRank(q, r)
           Knowing == {q \in Clp : Knows(fRangeRoutingTable, q, id)}
           Before(q) == Clp \ Behind(q, a)
<1>1. e \in EntriesOf(fRangeRoutingTable[p][d])
  BY DEF EntriesOf
<1>2. id \in Ids /\ a \in Alps
  BY QueryFields DEF Inv, Types, SeenTypes
<1>3. Followed(fRangeRoutingTable, net, retracted, a, id)
  <2>1. e.time = queries[id].time
    BY <1>1 DEF Trails, EntriesFit
  <2>2. Ahead(fGVT, queries[id].time) /\ NoFlaw(met)
    BY <2>1 DEF NotBeforeGvt, Ahead, NoFlaw
  <2> QED
    BY <1>2, <2>2 DEF Trails, Trail, TrailOf
<1>4. p \in Knowing
  BY <1>1 DEF Knows
<1> HIDE DEF id, a
<1>5. PICK t \in Knowing : \A q \in Knowing : Before(q) \subseteq Before(t) => Before(q) = Before(t)
  <2> DEFINE B == {Before(q) : q \in Knowing}
  <2>1. IsFiniteSet(Clp)
    <3>1. 0 \in Int /\ C - 1 \in Int
      BY RoutingAssumption
    <3> QED
      BY <3>1, FS_Interval DEF Clp
  <2>2. B \in SUBSET (SUBSET Clp) /\ B # {}
    BY <1>4
  <2> HIDE DEF B
  <2>3. PICK T \in B : \A U \in B : U \subseteq T => U = T
    BY <2>1, <2>2, SmallestSet
  <2>4. PICK t \in Knowing : T = Before(t)
    BY <2>3 DEF B
  <2>5. \A q \in Knowing : Before(q) \in B
    BY DEF B
  <2> HIDE DEF Before, Knowing
  <2> QED
    BY <2>3, <2>4, <2>5
<1>6. t \in Clp /\ a \in LpRank \ {t}
  BY <1>2, ClpOrAlp
<1>7. PICK n \in Neighbours(t) : D(t, a) = D(t, n)
  BY <1>6 DEF WaysAgree
<1>8. PICK l \in Link : l[1] = n /\ l[2] = t
  <2>1. n \in LpRank /\ t \in LpRank
    BY <1>6, <1>7, ClpOrAlp DEF LinksAgree
  <2>2. <<n, t>> \in Link
    BY <1>6, <1>7, <2>1 DEF Link
  <2> QED
    BY <2>2
<1>9. FromAgent(l, a)
  BY <1>6, <1>7, <1>8 DEF FromAgent
<1>10. Source(fRangeRoutingTable, retracted, l, id)
  <2>1. ~Has(net[l], "anti", id)
    BY DEF Has, ToSet
  <2> QED
    BY <1>3, <1>8, <1>9, <2>1 DEF Followed
<1>11. CASE n \in Clp
  <2>1. D(n, t) \in Direction
    BY <1>6, <1>11, ClpOrAlp DEF LinksAgree
  <2>2. n \in Knowing
    BY <1>8, <1>10, <1>11, <2>1 DEF Source, PassedOn, Knows
  <2>3. Behind(t, a) \subseteq Behind(n, a) \ {n}
    BY <1>2, <1>8, <1>9, <1>11, OnFromAgent
  <2>4. n \in Behind(n, a)
    BY <1>2, <1>11, HereIsBehind
  <2>5. Before(n) \subseteq Before(t) /\ Before(n) # Before(t)
    BY <1>11, <2>3, <2>4
  <2> QED
    BY <1>5, <2>2, <2>5
<1>12. CASE n \notin Clp
  <2>1. id \notin retracted
    BY <1>8, <1>10, <1>12 DEF Source
  <2> QED
    BY <2>1 DEF id
<1> QED
  BY <1>11, <1>12

\* In any tree whose tables of ranks say the same ways from all sides: when all
\* messages have arrived, no CLP has an entry of a query that its agent has taken
\* back, unless it is before GVT or a change at its time or a wrong block status has
\* come between (ProcessMessage of RangeQueryAntiMessage, Clp.cpp:856-887).
THEOREM RetractedAlwaysForgotten ==
    ASSUME LinksAgree, WaysAgree
    PROVE  Spec => []RetractedIsForgotten
<1>1. Init => Inv /\ Trails
  BY StartInv, StartTrails
<1>2. Inv /\ Trails /\ [Next]_vars => Inv' /\ Trails'
  BY StepInv, StepTrails
<1>3. Inv /\ Trails => RetractedIsForgotten
  BY TrailsAreEnough
<1> QED
  BY <1>1, <1>2, <1>3, PTL DEF Spec
=============================================================================
