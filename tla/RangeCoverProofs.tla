-------------------------- MODULE RangeCoverProofs --------------------------
(***************************************************************************)
(* The ranges cover the variables (RangesCoverVariables) and stale answers *)
(* are reported (StaleAnswersAreReported), for every tree, every set of    *)
(* variables, boxes and times and every bound.                             *)
(*                                                                         *)
(* A view says for every CLP, port and time what the CLP has been told of  *)
(* what lies beyond the port, and keeps that when SetGvt drops it from the *)
(* table.  The first invariant is that there is a view which agrees with   *)
(* the tables from the GVT on, and in which a CLP has told each neighbour, *)
(* if need be in an update that is under way, a box around all that it     *)
(* knows itself beyond its other ports and of its own variables.           *)
(*                                                                         *)
(* The second is that in such a view whatever has been found of a variable *)
(* for a query, by a CLP that keeps track of it, in a reply or in the      *)
(* answer, is accounted for by an entry of the query in some table: one    *)
(* that a write which changes it, or an update, will find.                 *)
(***************************************************************************)
EXTENDS RangeQueriesProofs

\* Nothing was left out of an update and none came too late.
Clear(seen) == seen \cap {"narrowed", "early", "passed", "skipped", "overrun"} = {}

\* The ranges that enclose something, or nothing.
Framed == {b \in [min: Point, max: Point] : b.min[1] <= b.max[1] /\ b.min[2] <= b.max[2]}
FramedBox == Framed \ {NoRange}

\* What the receiver of a queue, who knows this of time t, is to know of it in the end.
IsBy(m, t) == m.type = "update" /\ m.time <= t
IsLastBy(queue, i, t) ==
    i \in DOMAIN queue /\ IsBy(queue[i], t) /\ \A j \in DOMAIN queue : IsBy(queue[j], t) => j <= i
Heard(queue, known, t) ==
    {queue[i].range : i \in {j \in DOMAIN queue : IsLastBy(queue, j, t)}}
      \cup {r \in {known} : \A j \in DOMAIN queue : ~IsBy(queue[j], t)}

ClpLink == {l \in Link : l[1] \in Clp /\ l[2] \in Clp}

View == [Clp -> [Direction -> [Time -> Framed]]]

ShowsTables(view, table, gvt) ==
    \A p \in Clp, d \in Direction, t \in Time :
      t >= gvt[p] => view[p][d][t] = RangeAt(table[p][d], t)

LinkCovers(view, queue, l) ==
    \A e \in Direction \ {GetDirectionFromRank(l[1], l[2])}, t \in Time :
      \A r \in Heard(queue, view[l[2]][GetDirectionFromRank(l[2], l[1])][t], t) :
        Within(view[l[1]][e][t], r)

LinksCover(view, links) == \A l \in ClpLink : LinkCovers(view, links[l], l)

CoversHere(view, where, history) ==
    \A v \in Ssv, t \in Time :
      IsValueOverlapping(view[where[v]][HERE][t], ReadWithoutRecord(history[v], t))

NoneOnlyWhere(view, where) ==
    \A p \in Clp, d \in Direction, t \in Time :
      Beyond(p, d, where) # {} => view[p][d][t] # NoRange

UpdatesSay(links, where) ==
    \A l \in Link : \A m \in ToSet(links[l]) :
      m.type = "update" =>
        /\ l \in ClpLink /\ m.range \in FramedBox
        /\ Beyond(l[2], GetDirectionFromRank(l[2], l[1]), where) # {}

Sees(view, table, gvt, where, history, links) ==
    /\ ShowsTables(view, table, gvt) /\ LinksCover(view, links)
    /\ CoversHere(view, where, history) /\ NoneOnlyWhere(view, where)
    /\ UpdatesSay(links, where)

Sight(view) == Sees(view, fRangeRoutingTable, fGVT, home, positions, net)

Covered == Clear(met) => \E view \in View : Sight(view)

(***************************************************************************)
(* Boxes.                                                                  *)
(***************************************************************************)
LEMMA LimitIsNumber == INT_MAX \in Nat
  BY SMTT(30) DEF INT_MAX

LEMMA PointFields ==
    ASSUME NEW q \in Point
    PROVE  q[1] \in Nat /\ q[2] \in Nat /\ q[1] <= INT_MAX /\ q[2] <= INT_MAX /\ q = <<q[1], q[2]>>
  BY LimitIsNumber DEF Point

LEMMA FramedFields ==
    ASSUME NEW b \in Framed
    PROVE  /\ b.min[1] \in Nat /\ b.min[2] \in Nat /\ b.max[1] \in Nat /\ b.max[2] \in Nat
           /\ b.min[1] <= b.max[1] /\ b.min[2] <= b.max[2]
           /\ b \in AnyRange
<1>1. b \in [min: Point, max: Point] /\ b.min[1] <= b.max[1] /\ b.min[2] <= b.max[2]
  BY DEF Framed
<1>2. b.min \in Point /\ b.max \in Point
  BY <1>1
<1>3. \A q \in Point : q[1] \in Nat /\ q[2] \in Nat
  BY PointFields
<1> QED
  BY <1>1, <1>2, <1>3 DEF AnyRange

LEMMA NothingIsFramed == NoRange \in Framed
<1>1. INT_MAX \in Nat
  BY LimitIsNumber
<1>2. <<INT_MAX, INT_MAX>> \in Point
  BY <1>1 DEF Point
<1>3. NoRange.min = <<INT_MAX, INT_MAX>> /\ NoRange.max = <<INT_MAX, INT_MAX>>
  BY DEF NoRange
<1>4. NoRange \in [min: Point, max: Point]
  BY <1>2 DEF NoRange
<1>5. NoRange.min[1] <= NoRange.max[1] /\ NoRange.min[2] <= NoRange.max[2]
  BY <1>1, <1>3
<1> QED
  BY <1>4, <1>5 DEF Framed

LEMMA WithinItself ==
    ASSUME NEW b \in Framed
    PROVE  Within(b, b)
<1>1. /\ b.min[1] \in Nat /\ b.min[2] \in Nat /\ b.max[1] \in Nat /\ b.max[2] \in Nat
      /\ b.min[1] <= b.max[1] /\ b.min[2] <= b.max[2]
  BY FramedFields
<1>2. IsValueOverlapping(b, b.min) /\ IsValueOverlapping(b, b.max)
  BY <1>1 DEF IsValueOverlapping
<1> QED
  BY <1>2 DEF Within

LEMMA WithinHolds ==
    ASSUME NEW a \in Framed, NEW b \in Framed, a # NoRange, Within(a, b),
           NEW q \in Point, IsValueOverlapping(a, q)
    PROVE  IsValueOverlapping(b, q)
<1>1. /\ a.min[1] \in Nat /\ a.min[2] \in Nat /\ a.max[1] \in Nat /\ a.max[2] \in Nat
      /\ b.min[1] \in Nat /\ b.min[2] \in Nat /\ b.max[1] \in Nat /\ b.max[2] \in Nat
  BY FramedFields
<1>2. q[1] \in Nat /\ q[2] \in Nat
  BY PointFields
<1>3. IsValueOverlapping(b, a.min) /\ IsValueOverlapping(b, a.max)
  BY DEF Within
<1> QED
  BY <1>1, <1>2, <1>3 DEF IsValueOverlapping

\* The box of some points is around each of them, and is nothing only if there are none.
LEMMA BoxAround ==
    ASSUME NEW points \in SUBSET Point
    PROVE  /\ BoxOf(points) \in Framed
           /\ \A q \in points : IsValueOverlapping(BoxOf(points), q)
           /\ points = {} => BoxOf(points) = NoRange
           /\ \A q \in points : q # <<INT_MAX, INT_MAX>> => BoxOf(points) # NoRange
<1>1. CASE points = {}
  BY <1>1, NothingIsFramed DEF BoxOf
<1>2. CASE points # {}
  <2> DEFINE xs == {q[1] : q \in points}
             ys == {q[2] : q \in points}
             box == BoxOf(points)
  <2>1. \A q \in points : q[1] \in 0..INT_MAX /\ q[2] \in 0..INT_MAX /\ q = <<q[1], q[2]>>
    BY DEF Point
  <2>2. /\ xs \in SUBSET (0..INT_MAX) /\ xs # {}
        /\ ys \in SUBSET (0..INT_MAX) /\ ys # {}
        /\ \A q \in points : q[1] \in xs /\ q[2] \in ys
    BY <1>2, <2>1
  <2>3. INT_MAX \in Nat
    BY LimitIsNumber
  <2>7. box = [min |-> <<Min(xs), Min(ys)>>, max |-> <<Max(xs), Max(ys)>>]
    BY <1>2 DEF BoxOf
  <2> HIDE DEF xs, ys, box
  <2>4. xs \in SUBSET Nat /\ ys \in SUBSET Nat
    BY <2>2, <2>3
  <2>5. /\ Min(xs) \in xs /\ \A x \in xs : Min(xs) <= x
        /\ Min(ys) \in ys /\ \A y \in ys : Min(ys) <= y
    BY <2>2, <2>4, MinInSet
  <2>6. /\ Max(xs) \in xs /\ \A x \in xs : x <= Max(xs)
        /\ Max(ys) \in ys /\ \A y \in ys : y <= Max(ys)
    BY <2>2, <2>3, MaxFromZero
  <2>8. <<Min(xs), Min(ys)>> \in Point /\ <<Max(xs), Max(ys)>> \in Point
    BY <2>2, <2>5, <2>6 DEF Point
  <2>9. /\ box.min[1] = Min(xs) /\ box.min[2] = Min(ys)
        /\ box.max[1] = Max(xs) /\ box.max[2] = Max(ys)
    BY <2>7
  <2>10. Min(xs) <= Max(xs) /\ Min(ys) <= Max(ys)
    BY <2>5, <2>6
  <2>11. box \in Framed
    BY <2>7, <2>8, <2>9, <2>10 DEF Framed
  <2>12. ASSUME NEW q \in points PROVE IsValueOverlapping(box, q)
    BY <2>2, <2>5, <2>6, <2>9 DEF IsValueOverlapping
  <2>13. ASSUME NEW q \in points, q # <<INT_MAX, INT_MAX>> PROVE box # NoRange
    <3> SUFFICES ASSUME box = NoRange PROVE FALSE
      OBVIOUS
    <3>1. Min(xs) = INT_MAX /\ Min(ys) = INT_MAX
      BY <2>9 DEF NoRange
    <3>3. Min(xs) <= q[1] /\ Min(ys) <= q[2] /\ q[1] \in 0..INT_MAX /\ q[2] \in 0..INT_MAX
      BY <2>1, <2>2, <2>5
    <3>4. q[1] = INT_MAX /\ q[2] = INT_MAX
      BY <2>3, <3>1, <3>3
    <3>5. q = <<INT_MAX, INT_MAX>>
      BY <2>1, <3>4
    <3> QED
      BY <2>13, <3>5
  <2> QED
    BY <1>2, <2>11, <2>12, <2>13 DEF box
<1> QED
  BY <1>1, <1>2

\* More points, a larger box.
LEMMA BoxGrows ==
    ASSUME NEW more \in SUBSET Point, NEW points \in SUBSET more,
           points # {} => BoxOf(more) # NoRange
    PROVE  Within(BoxOf(points), BoxOf(more))
<1>1. CASE points = {}
  BY <1>1 DEF BoxOf, Within
<1>2. CASE points # {}
  <2> DEFINE xs == {q[1] : q \in points}
             ys == {q[2] : q \in points}
             box == BoxOf(points)
             large == BoxOf(more)
  <2>1. \A q \in more : q[1] \in 0..INT_MAX /\ q[2] \in 0..INT_MAX
    BY DEF Point
  <2>2. /\ xs \in SUBSET (0..INT_MAX) /\ xs # {}
        /\ ys \in SUBSET (0..INT_MAX) /\ ys # {}
    BY <1>2, <2>1
  <2>3. INT_MAX \in Nat
    BY LimitIsNumber
  <2>4. box = [min |-> <<Min(xs), Min(ys)>>, max |-> <<Max(xs), Max(ys)>>]
    BY <1>2 DEF BoxOf
  <2>5. large # NoRange /\ \A q \in more : IsValueOverlapping(large, q)
    BY <1>2, BoxAround
  <2>6. /\ \A x \in xs : large.min[1] <= x /\ x <= large.max[1]
        /\ \A y \in ys : large.min[2] <= y /\ y <= large.max[2]
    BY <2>5 DEF IsValueOverlapping
  <2> HIDE DEF xs, ys, box, large
  <2>7. xs \in SUBSET Nat /\ ys \in SUBSET Nat
    BY <2>2, <2>3
  <2>8. Min(xs) \in xs /\ Min(ys) \in ys
    BY <2>2, <2>7, MinInSet
  <2>9. Max(xs) \in xs /\ Max(ys) \in ys
    BY <2>2, <2>3, MaxFromZero
  <2>10. /\ box.min[1] = Min(xs) /\ box.min[2] = Min(ys)
         /\ box.max[1] = Max(xs) /\ box.max[2] = Max(ys)
    BY <2>4
  <2>11. IsValueOverlapping(large, box.min) /\ IsValueOverlapping(large, box.max)
    BY <2>6, <2>8, <2>9, <2>10 DEF IsValueOverlapping
  <2> QED
    BY <2>5, <2>11 DEF Within, box, large
<1> QED
  BY <1>1, <1>2

(***************************************************************************)
(* What is heard in the end.                                               *)
(***************************************************************************)
LEMMA HeardIs ==
    ASSUME NEW queue, NEW known, NEW t, NEW r
    PROVE  r \in Heard(queue, known, t) <=>
             \/ \E i \in DOMAIN queue : IsLastBy(queue, i, t) /\ r = queue[i].range
             \/ r = known /\ \A j \in DOMAIN queue : ~IsBy(queue[j], t)
  BY DEF Heard, IsLastBy

\* What does not concern the time t changes nothing.
LEMMA HeardWithOthers ==
    ASSUME NEW M, NEW s \in Seq(M), NEW u \in Seq(M), NEW t, NEW known,
           \A j \in DOMAIN u : ~IsBy(u[j], t)
    PROVE  Heard(s \o u, known, t) \subseteq Heard(s, known, t)
<1> DEFINE q == s \o u
<1>1. PICK n \in Nat : n = Len(s)
  OBVIOUS
<1>2. PICK m \in Nat : m = Len(u)
  OBVIOUS
<1>3. /\ DOMAIN s = 1..n /\ DOMAIN u = 1..m /\ DOMAIN q = 1..(n + m)
      /\ \A i \in 1..n : q[i] = s[i]
      /\ \A i \in (n + 1)..(n + m) : q[i] = u[i - n]
  BY <1>1, <1>2
<1> HIDE DEF q
<1>4. ASSUME NEW i \in 1..(n + m), IsBy(q[i], t) PROVE i \in 1..n /\ q[i] = s[i]
  <2>1. ASSUME ~(i \in 1..n) PROVE FALSE
    <3>1. i \in (n + 1)..(n + m) /\ i - n \in 1..m
      BY <2>1
    <3> QED
      BY <1>3, <1>4, <3>1
  <2> QED
    BY <1>3, <2>1
<1>5. \A i \in 1..n : i \in 1..(n + m) /\ q[i] = s[i]
  BY <1>3
<1>6. ASSUME NEW r \in Heard(q, known, t) PROVE r \in Heard(s, known, t)
  <2>1. CASE \E i \in DOMAIN q : IsLastBy(q, i, t) /\ r = q[i].range
    <3>1. PICK i \in 1..(n + m) : IsLastBy(q, i, t) /\ r = q[i].range
      BY <1>3, <2>1
    <3>2. i \in 1..n /\ q[i] = s[i]
      BY <1>4, <3>1 DEF IsLastBy
    <3>3. IsLastBy(s, i, t)
      BY <1>3, <1>5, <3>1, <3>2 DEF IsLastBy
    <3> QED
      BY <1>3, <3>1, <3>2, <3>3, HeardIs
  <2>2. CASE r = known /\ \A j \in DOMAIN q : ~IsBy(q[j], t)
    <3>1. \A j \in DOMAIN s : ~IsBy(s[j], t)
      BY <1>3, <1>5, <2>2
    <3> QED
      BY <2>2, <3>1, HeardIs
  <2> QED
    BY <1>6, <2>1, <2>2, HeardIs
<1> QED
  BY <1>6 DEF q

LEMMA HeardLast ==
    ASSUME NEW M, NEW s \in Seq(M), NEW m \in M, NEW t, NEW known, IsBy(m, t)
    PROVE  Heard(s \o <<m>>, known, t) \subseteq {m.range}
<1> DEFINE q == s \o <<m>>
<1>1. PICK n \in Nat : n = Len(s)
  OBVIOUS
<1>2. DOMAIN q = 1..(n + 1) /\ q[n + 1] = m /\ n + 1 \in 1..(n + 1)
  BY <1>1
<1> HIDE DEF q
<1>3. ASSUME NEW r \in Heard(q, known, t) PROVE r = m.range
  <2>1. IsBy(q[n + 1], t) /\ n + 1 \in DOMAIN q
    BY <1>2
  <2>2. PICK i \in 1..(n + 1) : IsLastBy(q, i, t) /\ r = q[i].range
    BY <1>2, <1>3, <2>1, HeardIs
  <2>3. n + 1 <= i
    BY <2>1, <2>2 DEF IsLastBy
  <2>4. i = n + 1
    BY <2>3
  <2> QED
    BY <1>2, <2>2, <2>4
<1> QED
  BY <1>3 DEF q

\* The place in a queue of what is at place i once place k is taken out.
Before(k, i) == IF i < k THEN i ELSE i + 1

LEMMA BeforeIs ==
    ASSUME NEW n \in Nat, NEW k \in 1..n
    PROVE  /\ \A i \in 1..(n - 1) : Before(k, i) \in 1..n /\ Before(k, i) # k
           /\ \A j \in 1..n : j # k => \E i \in 1..(n - 1) : Before(k, i) = j
           /\ \A i, j \in 1..(n - 1) : Before(k, i) <= Before(k, j) <=> i <= j
<1>1. ASSUME NEW j \in 1..n, j # k PROVE \E i \in 1..(n - 1) : Before(k, i) = j
  <2>1. CASE j < k
    <3>1. j \in 1..(n - 1) /\ Before(k, j) = j
      BY <2>1 DEF Before
    <3> QED
      BY <3>1
  <2>2. CASE ~(j < k)
    <3>1. PICK i \in 1..(n - 1) : i = j - 1
      BY <1>1, <2>2
    <3>2. ~(i < k) /\ i + 1 = j
      BY <1>1, <2>2, <3>1
    <3> QED
      BY <3>2 DEF Before
  <2> QED
    BY <2>1, <2>2
<1>2. \A i \in 1..(n - 1) : Before(k, i) \in 1..n /\ Before(k, i) # k
  BY DEF Before
<1>3. \A i, j \in 1..(n - 1) : Before(k, i) <= Before(k, j) <=> i <= j
  BY DEF Before
<1> QED
  BY <1>1, <1>2, <1>3

LEMMA ElementsLeft ==
    ASSUME NEW M, NEW s \in Seq(M), NEW n \in Nat, Len(s) = n, NEW k \in 1..n
    PROVE  /\ RemoveAt(s, k) \in Seq(M) /\ DOMAIN RemoveAt(s, k) = 1..(n - 1) /\ DOMAIN s = 1..n
           /\ \A i \in 1..(n - 1) : RemoveAt(s, k)[i] = s[Before(k, i)]
<1> DEFINE r == RemoveAt(s, k)
<1>0. DOMAIN s = 1..n
  OBVIOUS
<1>10. r \in Seq(M)
  BY RemoveAtElements
<1>11. Len(r) = n - 1
  BY RemoveAtElements
<1>1. r \in Seq(M) /\ Len(r) = n - 1
  BY <1>10, <1>11
<1>2. \A i \in 1..(k - 1) : r[i] = s[i]
  BY RemoveAtElements
<1>3. \A i \in k..(n - 1) : r[i] = s[i + 1]
  BY RemoveAtElements
<1> HIDE DEF r
<1>4. DOMAIN r = 1..(n - 1)
  BY <1>1
<1>5. ASSUME NEW i \in 1..(n - 1) PROVE r[i] = s[Before(k, i)]
  <2>1. CASE i < k
    <3>1. i \in 1..(k - 1) /\ Before(k, i) = i
      BY <2>1 DEF Before
    <3> QED
      BY <1>2, <3>1
  <2>2. CASE ~(i < k)
    <3>1. i \in k..(n - 1) /\ Before(k, i) = i + 1
      BY <2>2 DEF Before
    <3> QED
      BY <1>3, <3>1
  <2> QED
    BY <2>1, <2>2
<1> QED
  BY <1>0, <1>1, <1>4, <1>5 DEF r

LEMMA HeardWithout ==
    ASSUME NEW M, NEW s \in Seq(M), NEW n \in Nat, Len(s) = n, NEW k \in 1..n, NEW t,
           NEW known, ~IsBy(s[k], t)
    PROVE  Heard(RemoveAt(s, k), known, t) \subseteq Heard(s, known, t)
<1> DEFINE r == RemoveAt(s, k)
<1>0. DOMAIN r = 1..(n - 1) /\ DOMAIN s = 1..n
      /\ \A i \in 1..(n - 1) : r[i] = s[Before(k, i)]
  BY ElementsLeft
<1>1. /\ DOMAIN r = 1..(n - 1) /\ DOMAIN s = 1..n
      /\ \A i \in 1..(n - 1) : Before(k, i) \in 1..n /\ r[i] = s[Before(k, i)]
      /\ \A j \in 1..n : j # k => \E i \in 1..(n - 1) : Before(k, i) = j
  BY <1>0, BeforeIs, Zenon
<1>2. \A i, j \in 1..(n - 1) : i <= j => Before(k, i) <= Before(k, j)
  BY BeforeIs
<1> HIDE DEF r
<1>3. \A j \in 1..n : IsBy(s[j], t) => \E i \in 1..(n - 1) : Before(k, i) = j /\ r[i] = s[j]
  BY <1>1
<1>4. ASSUME NEW x \in Heard(r, known, t) PROVE x \in Heard(s, known, t)
  <2>1. CASE \E i \in DOMAIN r : IsLastBy(r, i, t) /\ x = r[i].range
    <3>1. PICK i \in 1..(n - 1) : IsLastBy(r, i, t) /\ x = r[i].range
      BY <1>1, <2>1
    <3>2. Before(k, i) \in 1..n /\ r[i] = s[Before(k, i)] /\ IsBy(s[Before(k, i)], t)
      BY <1>1, <3>1 DEF IsLastBy
    <3>3. ASSUME NEW j \in 1..n, IsBy(s[j], t) PROVE j <= Before(k, i)
      <4>1. PICK h \in 1..(n - 1) : Before(k, h) = j /\ r[h] = s[j]
        BY <1>3, <3>3
      <4>2. h <= i
        BY <1>1, <3>1, <3>3, <4>1 DEF IsLastBy
      <4> QED
        BY <1>2, <4>1, <4>2
    <3>4. IsLastBy(s, Before(k, i), t)
      BY <1>1, <3>2, <3>3 DEF IsLastBy
    <3> QED
      BY <1>1, <3>1, <3>2, <3>4, HeardIs
  <2>2. CASE x = known /\ \A j \in DOMAIN r : ~IsBy(r[j], t)
    <3>1. \A j \in DOMAIN s : ~IsBy(s[j], t)
      BY <1>1, <1>3, <2>2
    <3> QED
      BY <2>2, <3>1, HeardIs
  <2> QED
    BY <1>4, <2>1, <2>2, HeardIs
<1> QED
  BY <1>4 DEF r

\* What the first update says is known once it has been taken, until a later one.
LEMMA HeardFirst ==
    ASSUME NEW M, NEW s \in Seq(M), NEW n \in Nat, Len(s) = n, NEW k \in 1..n, NEW t,
           NEW known, IsBy(s[k], t), \A j \in 1..n : s[j].type = "update" => k <= j
    PROVE  Heard(RemoveAt(s, k), s[k].range, t) \subseteq Heard(s, known, t)
<1> DEFINE r == RemoveAt(s, k)
<1>01. s \in Seq(M) /\ n \in Nat /\ Len(s) = n /\ k \in 1..n
  OBVIOUS
<1>0. DOMAIN r = 1..(n - 1) /\ DOMAIN s = 1..n
      /\ \A i \in 1..(n - 1) : r[i] = s[Before(k, i)]
  BY ONLY <1>01, ElementsLeft
<1>1. /\ DOMAIN r = 1..(n - 1) /\ DOMAIN s = 1..n
      /\ \A i \in 1..(n - 1) : Before(k, i) \in 1..n /\ r[i] = s[Before(k, i)]
      /\ \A j \in 1..n : j # k => \E i \in 1..(n - 1) : Before(k, i) = j
  BY <1>0, BeforeIs, Zenon
<1>2. \A i, j \in 1..(n - 1) : i <= j => Before(k, i) <= Before(k, j)
  BY BeforeIs
<1> HIDE DEF r
<1>3. \A j \in 1..n : j # k => \E i \in 1..(n - 1) : Before(k, i) = j /\ r[i] = s[j]
  BY <1>1
<1>4. ASSUME NEW x \in Heard(r, s[k].range, t) PROVE x \in Heard(s, known, t)
  <2>1. CASE \E i \in DOMAIN r : IsLastBy(r, i, t) /\ x = r[i].range
    <3>1. PICK i \in 1..(n - 1) : IsLastBy(r, i, t) /\ x = r[i].range
      BY <1>1, <2>1
    <3>2. Before(k, i) \in 1..n /\ r[i] = s[Before(k, i)] /\ IsBy(s[Before(k, i)], t)
      BY <1>1, <3>1 DEF IsLastBy
    <3>3. ASSUME NEW j \in 1..n, IsBy(s[j], t) PROVE j <= Before(k, i)
      <4>1. CASE j = k
        BY <3>2, <4>1 DEF IsBy
      <4>2. CASE j # k
        <5>1. PICK h \in 1..(n - 1) : Before(k, h) = j /\ r[h] = s[j]
          BY <1>3, <4>2
        <5>2. h <= i
          BY <1>1, <3>1, <3>3, <5>1 DEF IsLastBy
        <5> QED
          BY <1>2, <5>1, <5>2
      <4> QED
        BY <4>1, <4>2
    <3>4. IsLastBy(s, Before(k, i), t)
      BY <1>1, <3>2, <3>3 DEF IsLastBy
    <3> QED
      BY <1>1, <3>1, <3>2, <3>4, HeardIs
  <2>2. CASE x = s[k].range /\ \A j \in DOMAIN r : ~IsBy(r[j], t)
    <3>1. \A j \in 1..n : IsBy(s[j], t) => j = k
      BY <1>1, <1>3, <2>2
    <3>2. IsLastBy(s, k, t)
      BY <1>1, <3>1 DEF IsLastBy
    <3> QED
      BY <1>1, <2>2, <3>2, HeardIs
  <2> QED
    BY <1>4, <2>1, <2>2, HeardIs
<1> QED
  BY <1>4 DEF r

\* Nothing overtakes an update.
LEMMA FirstUpdate ==
    ASSUME NEW M, NEW s \in Seq(M), NEW i \in Receivable(s), s[i].type = "update"
    PROVE  i \in DOMAIN s /\ \A j \in DOMAIN s : s[j].type = "update" => i <= j
<1> DEFINE updates == {j \in DOMAIN s : s[j].type = "update"}
<1>1. i \in DOMAIN s
  BY ReceivableIsThere
<1>2. i \in updates /\ updates \in SUBSET Nat /\ updates # {}
  BY <1>1
<1>3. i = 1 \/ i = Min(updates)
  BY <1>2 DEF Receivable
<1> HIDE DEF updates
<1>4. \A j \in updates : Min(updates) <= j
  BY <1>2, MinInSet
<1>5. \A j \in DOMAIN s : 1 <= j
  OBVIOUS
<1>6. \A j \in DOMAIN s : s[j].type = "update" => j \in updates
  BY DEF updates
<1> QED
  BY <1>1, <1>3, <1>4, <1>5, <1>6

(***************************************************************************)
(* The ranges that a list of periods shows.                                *)
(***************************************************************************)
\* Period i of the list is that of time t.
Holds(list, i, t) ==
    i \in DOMAIN list /\ list[i].time <= t /\ \A j \in DOMAIN list : list[j].time <= t => j <= i

LEMMA HoldsIs ==
    ASSUME NEW ids, NEW list \in Periods(ids), NEW t \in Time, NEW i, Holds(list, i, t)
    PROVE  /\ PeriodAt(list, t) = i /\ HasRangePeriod(list, t)
           /\ RangeAt(list, t) = list[i].range
<1>1. DOMAIN list = 1..Len(list) /\ Len(list) \in Nat
  BY PeriodsAre
<1>2. i \in 1..Len(list) /\ list[i].time <= t /\ \A j \in DOMAIN list : list[j].time <= t => j <= i
  BY <1>1 DEF Holds
<1> DEFINE k == PeriodAt(list, t)
<1>3. /\ k \in 0..Len(list)
      /\ k # 0 => k \in DOMAIN list /\ list[k].time <= t
      /\ i <= k
  BY <1>1, <1>2, PeriodAtIs
<1> HIDE DEF k
<1>4. k # 0 /\ k = i
  BY <1>1, <1>2, <1>3
<1> QED
  BY <1>4 DEF k, HasRangePeriod, RangeAt

LEMMA PeriodHolds ==
    ASSUME NEW ids, NEW list \in Periods(ids), NEW t \in Time, list[1].time <= t
    PROVE  /\ Holds(list, PeriodAt(list, t), t) /\ HasRangePeriod(list, t)
           /\ PeriodAt(list, t) \in 1..Len(list)
           /\ RangeAt(list, t) = list[PeriodAt(list, t)].range
<1>1. DOMAIN list = 1..Len(list) /\ Len(list) \in Nat /\ 1 \in DOMAIN list
  BY PeriodsAre
<1> DEFINE k == PeriodAt(list, t)
<1>2. /\ k \in 0..Len(list)
      /\ k # 0 => k \in DOMAIN list /\ list[k].time <= t
      /\ \A j \in DOMAIN list : list[j].time <= t => j <= k
  BY PeriodAtIs
<1>3. 1 <= k
  BY <1>1, <1>2
<1> HIDE DEF k
<1>4. k # 0 /\ k \in 1..Len(list)
  BY <1>1, <1>2, <1>3
<1> QED
  BY <1>2, <1>4 DEF k, Holds, HasRangePeriod, RangeAt

LEMMA SameRangesHold ==
    ASSUME NEW ids, NEW list \in Periods(ids), NEW jds, NEW new \in Periods(jds),
           DOMAIN new = DOMAIN list,
           \A j \in DOMAIN list : new[j].time = list[j].time /\ new[j].range = list[j].range,
           NEW t \in Time, list[1].time <= t
    PROVE  RangeAt(new, t) = RangeAt(list, t)
<1> DEFINE k == PeriodAt(list, t)
<1>1. Holds(list, k, t) /\ RangeAt(list, t) = list[k].range
  BY PeriodHolds
<1> HIDE DEF k
<1>2. k \in DOMAIN list /\ Holds(new, k, t)
  BY <1>1 DEF Holds
<1>3. RangeAt(new, t) = new[k].range
  BY <1>2, HoldsIs
<1> QED
  BY <1>1, <1>2, <1>3

LEMMA InfoReplaced ==
    ASSUME NEW ids, NEW list \in Periods(ids), NEW i \in DOMAIN list,
           NEW jds, NEW new \in Periods(jds), NEW info, new = [list EXCEPT ![i].info = info],
           NEW t \in Time, list[1].time <= t
    PROVE  RangeAt(new, t) = RangeAt(list, t)
<1>1. \A j \in DOMAIN list : list[j] \in Period(ids)
  BY PeriodsAre
<1> DEFINE that == [list[i] EXCEPT !.info = info]
<1>2. that.time = list[i].time /\ that.range = list[i].range
  BY <1>1 DEF Period
<1>3. new = [list EXCEPT ![i] = that]
  OBVIOUS
<1> HIDE DEF that
<1>4. /\ DOMAIN new = DOMAIN list
      /\ \A j \in DOMAIN list : new[j].time = list[j].time /\ new[j].range = list[j].range
  BY <1>2, <1>3
<1> QED
  BY <1>4, SameRangesHold

LEMMA AddRangeQueryInfoRanges ==
    ASSUME NEW ids, NEW list \in Periods(ids), NEW e \in EntryOf(ids),
           NEW t \in Time, list[1].time <= t
    PROVE  RangeAt(AddRangeQueryInfo(list, e), t) = RangeAt(list, t)
<1> DEFINE i == PeriodAt(list, e.time)
           new == AddRangeQueryInfo(list, e)
<1>1. CASE ~HasRangePeriod(list, e.time)
  BY <1>1 DEF AddRangeQueryInfo
<1>2. CASE HasRangePeriod(list, e.time)
  <2>1. new \in Periods(ids)
    BY AddRangeQueryInfoKeeps
  <2>2. e.time \in Time
    BY DEF EntryOf
  <2>3. i \in DOMAIN list
    BY <1>2, <2>2, PeriodAtIs DEF HasRangePeriod
  <2>4. new = [list EXCEPT ![i].info = Append(list[i].info, e)]
    BY <1>2, <2>3 DEF AddRangeQueryInfo
  <2> HIDE DEF new, i
  <2>5. RangeAt(new, t) = RangeAt(list, t)
    BY <2>1, <2>3, <2>4, InfoReplaced
  <2> QED
    BY <2>5 DEF new
<1> QED
  BY <1>1, <1>2

LEMMA DeleteRangeQueryInfoRanges ==
    ASSUME NEW ids, NEW list \in Periods(ids), NEW u \in Time, NEW id,
           NEW t \in Time, list[1].time <= t
    PROVE  RangeAt(DeleteRangeQueryInfo(list, u, id), t) = RangeAt(list, t)
<1> DEFINE i == PeriodAt(list, u)
           new == DeleteRangeQueryInfo(list, u, id)
           info == Selected(list[i].info, {n \in DOMAIN list[i].info : list[i].info[n].id # id})
<1>1. CASE ~HasRangePeriod(list, u)
  BY <1>1 DEF DeleteRangeQueryInfo
<1>2. CASE HasRangePeriod(list, u)
  <2>1. new \in Periods(ids)
    BY DeleteRangeQueryInfoKeeps DEF Keeps
  <2>3. i \in DOMAIN list
    BY <1>2, PeriodAtIs DEF HasRangePeriod
  <2>4. new = [list EXCEPT ![i].info = info]
    BY <1>2, <2>3 DEF DeleteRangeQueryInfo
  <2> HIDE DEF new, i, info
  <2>5. RangeAt(new, t) = RangeAt(list, t)
    BY <2>1, <2>3, <2>4, InfoReplaced, Zenon
  <2> QED
    BY <2>5 DEF new
<1> QED
  BY <1>1, <1>2

LEMMA ClearRangePeriodsRanges ==
    ASSUME NEW ids, NEW list \in Periods(ids), NEW gvt \in Time, list[1].time <= gvt,
           NEW t \in Time, gvt <= t
    PROVE  RangeAt(ClearRangePeriods(list, gvt), t) = RangeAt(list, t)
<1> DEFINE new == ClearRangePeriods(list, gvt)
<1>1. PICK n \in Nat, i \in Nat : IsCleared(list, new, gvt, n, i)
  BY ClearRangePeriodsElements
<1>2. new \in Periods(ids) /\ \A j \in DOMAIN new : new[j].time \in Nat
  BY ClearRangePeriodsKeeps, PeriodsAre
<1>3. gvt \in Nat /\ t \in Nat /\ \A j \in DOMAIN list : list[j].time \in Nat
  BY TimesAreNumbers, PeriodsAre
<1>4. /\ i \in 1..n /\ DOMAIN list = 1..n /\ DOMAIN new = 1..(n - i + 1)
      /\ new[1].time = gvt /\ new[1].range = list[i].range
      /\ \A j \in 1..n : list[j].time <= gvt => j <= i
      /\ \A j \in 2..(n - i + 1) : new[j] = list[i + j - 1] /\ i + j - 1 \in 1..n
  BY <1>1 DEF IsCleared
<1> DEFINE k == PeriodAt(list, t)
<1>5. list[1].time <= t
  BY <1>3, <1>4
<1>6. Holds(list, k, t) /\ RangeAt(list, t) = list[k].range
  BY <1>5, PeriodHolds
<1> HIDE DEF new, k
<1>7. k \in 1..n /\ list[k].time <= t /\ \A j \in 1..n : list[j].time <= t => j <= k
  BY <1>4, <1>6 DEF Holds
<1>8. i <= k
  BY <1>1, <1>3, <1>4, <1>7 DEF IsCleared
<1>9. PICK h \in 1..(n - i + 1) : h = k - i + 1
  BY <1>4, <1>7, <1>8
<1>10. new[h].time <= t /\ new[h].range = list[k].range
  <2>1. CASE h = 1
    <3>1. i = k
      BY <1>4, <1>7, <1>9, <2>1
    <3> QED
      BY <1>4, <2>1, <3>1
  <2>2. CASE h # 1
    <3>1. h \in 2..(n - i + 1) /\ i + h - 1 = k
      BY <1>4, <1>7, <1>9, <2>2
    <3> QED
      BY <1>4, <1>7, <3>1
  <2> QED
    BY <2>1, <2>2
<1>11. ASSUME NEW j \in 1..(n - i + 1), new[j].time <= t PROVE j <= h
  <2>1. CASE j = 1
    BY <2>1
  <2>2. CASE j # 1
    <3>1. j \in 2..(n - i + 1)
      BY <2>2
    <3>2. i + j - 1 \in 1..n /\ list[i + j - 1].time <= t
      BY <1>4, <1>11, <3>1
    <3>3. i + j - 1 <= k
      BY <1>7, <3>2
    <3> QED
      BY <1>4, <1>7, <1>9, <3>3
  <2> QED
    BY <2>1, <2>2
<1>12. Holds(new, h, t)
  BY <1>4, <1>10, <1>11 DEF Holds
<1>13. RangeAt(new, t) = new[h].range
  BY <1>2, <1>12, HoldsIs
<1> QED
  BY <1>6, <1>10, <1>13 DEF new

\* The list with a new period behind period i.
IsSplit(list, new, t, range, n, i) ==
    /\ DOMAIN list = 1..n /\ i \in 1..n /\ DOMAIN new = 1..(n + 1)
    /\ \A j \in 1..n : j < i => j \in 1..(n + 1) /\ new[j] = list[j]
    /\ i \in 1..(n + 1) /\ new[i].time = list[i].time /\ new[i].range = list[i].range
    /\ i + 1 \in 1..(n + 1) /\ new[i + 1].time = t /\ new[i + 1].range = range
    /\ \A j \in 1..n : j > i => j + 1 \in 1..(n + 1) /\ new[j + 1] = list[j]
    /\ \A k \in 1..(n + 1) : \/ k \in 1..n /\ k < i
                             \/ k = i
                             \/ k = i + 1
                             \/ \E j \in 1..n : j > i /\ k = j + 1

Splits(list, t, range) ==
    /\ NoRange \notin {range, list[PeriodAt(list, t)].range}
    /\ range # list[PeriodAt(list, t)].range /\ list[PeriodAt(list, t)].time # t

LEMMA WithRangeSplits ==
    ASSUME NEW ids, NEW list \in Periods(ids), NEW t \in Time, NEW range \in KnownRange,
           HasRangePeriod(list, t), Splits(list, t, range)
    PROVE  \E n \in Nat, i \in Nat : /\ IsSplit(list, WithRange(list, t, range), t, range, n, i)
                                      /\ i = PeriodAt(list, t) /\ list[i].time < t
<1> DEFINE i == PeriodAt(list, t)
           this == list[i]
           fewer == Until(this.info, t)
           more == After(this.info, t)
           new == [time |-> t, range |-> range, info |-> <<>>]
           cut == [this EXCEPT !.info = fewer]
           second == [time |-> t, range |-> range, info |-> more]
           n == Len(list)
           shorter == [list EXCEPT ![i] = cut]
           result == WithRange(list, t, range)
<1>1. /\ list \in Seq(Period(ids)) /\ n \in Nat /\ DOMAIN list = 1..n
      /\ \A j \in 1..n : list[j] \in Period(ids) /\ list[j].time \in Nat
  BY PeriodsAre
<1>2. i \in 1..n /\ this.time <= t /\ i # 0
  BY <1>1, PeriodAtIs DEF HasRangePeriod
<1>3. this \in Period(ids) /\ t \in Nat
  BY <1>1, <1>2, TimesAreNumbers
<1>4. this.time < t
  BY <1>1, <1>2, <1>3 DEF Splits
<1>5. fewer \in Seq(EntryOf(ids)) /\ more \in Seq(EntryOf(ids))
  <2> DEFINE before == {k \in DOMAIN this.info : this.info[k].time <= t}
             after == {k \in DOMAIN this.info : this.info[k].time > t}
  <2>1. this.info \in Seq(EntryOf(ids)) /\ before \in SUBSET DOMAIN this.info
        /\ after \in SUBSET DOMAIN this.info
    BY <1>3 DEF Period
  <2>2. /\ Selected(this.info, before) \in Seq(EntryOf(ids))
        /\ Selected(this.info, after) \in Seq(EntryOf(ids))
    <3> HIDE DEF this, before, after
    <3> QED
      BY <2>1, SelectedElements
  <2> QED
    BY <2>2 DEF Until, After
<1>6. cut \in Period(ids) /\ cut.time = this.time /\ cut.range = this.range
  <2> HIDE DEF this, fewer
  <2> QED
    BY <1>3, <1>5 DEF Period
<1>7. second \in Period(ids) /\ second.time = t /\ second.range = range
  <2> HIDE DEF more
  <2> QED
    BY <1>5 DEF Period
<1>8. result = InsertAt(shorter, i + 1, second)
  <2>1. result = InsertAt([list EXCEPT ![i].info = Until(@, t)], i + 1,
                          [new EXCEPT !.info = After(this.info, t)])
    BY <1>2, Zenon DEF WithRange, Splits
  <2>2. [list EXCEPT ![i].info = Until(@, t)] = shorter
    BY <1>1, <1>2
  <2>3. [new EXCEPT !.info = After(this.info, t)] = second
    OBVIOUS
  <2> QED
    BY <2>1, <2>2, <2>3
<1> HIDE DEF cut, second
<1>9. /\ shorter \in Seq(Period(ids)) /\ Len(shorter) = n
      /\ \A j \in 1..n : shorter[j] = IF j = i THEN cut ELSE list[j]
  <2> HIDE DEF i, this
  <2> QED
    BY <1>1, <1>2, <1>6
<1> HIDE DEF shorter, result, i, fewer, more
<1>10. InsertAt(shorter, i + 1, second)
         = [j \in 1..(n + 1) |-> IF j <= i THEN shorter[j]
                                ELSE IF j = i + 1 THEN second ELSE shorter[j - 1]]
  <2>1. /\ shorter \in Seq(Period(ids)) /\ Len(shorter) = n /\ n \in Nat
        /\ i \in 1..n /\ second \in Period(ids)
    BY <1>1, <1>2, <1>7, <1>9
  <2> HIDE DEF this, n
  <2> QED
    BY <2>1, InsertAtIs
<1>11. /\ DOMAIN result = 1..(n + 1)
       /\ \A j \in 1..(n + 1) : result[j] = IF j <= i THEN shorter[j]
                                ELSE IF j = i + 1 THEN second ELSE shorter[j - 1]
  BY <1>8, <1>10, Zenon
<1>12. ASSUME NEW j \in 1..n, j < i PROVE j \in 1..(n + 1) /\ result[j] = list[j]
  <2>1. j \in 1..(n + 1) /\ j <= i /\ j # i
    BY <1>1, <1>2, <1>12
  <2> QED
    BY <1>9, <1>11, <2>1
<1>13. i \in 1..(n + 1) /\ result[i] = cut
  <2>1. i \in 1..(n + 1) /\ i <= i
    BY <1>1, <1>2
  <2> QED
    BY <1>2, <1>9, <1>11, <2>1
<1>14. i + 1 \in 1..(n + 1) /\ result[i + 1] = second
  <2>1. i + 1 \in 1..(n + 1) /\ ~(i + 1 <= i)
    BY <1>1, <1>2
  <2> QED
    BY <1>11, <2>1
<1>15. ASSUME NEW j \in 1..n, j > i PROVE j + 1 \in 1..(n + 1) /\ result[j + 1] = list[j]
  <2>1. j + 1 \in 1..(n + 1) /\ ~(j + 1 <= i) /\ j + 1 # i + 1 /\ (j + 1) - 1 = j /\ j # i
    BY <1>1, <1>2, <1>15
  <2>2. result[j + 1] = shorter[(j + 1) - 1]
    BY <1>11, <2>1
  <2> QED
    BY <1>9, <2>1, <2>2
<1>16. ASSUME NEW k \in 1..(n + 1)
       PROVE  \/ k \in 1..n /\ k < i
              \/ k = i
              \/ k = i + 1
              \/ \E j \in 1..n : j > i /\ k = j + 1
  <2>1. CASE k > i + 1
    <3>1. k - 1 \in 1..n /\ k - 1 > i /\ k = (k - 1) + 1
      BY <1>1, <1>2, <2>1
    <3> QED
      BY <3>1
  <2>2. CASE ~(k > i + 1)
    BY <1>1, <1>2, <2>2
  <2> QED
    BY <2>1, <2>2
<1>17. /\ result[i].time = list[i].time /\ result[i].range = list[i].range
       /\ result[i + 1].time = t /\ result[i + 1].range = range
  BY <1>6, <1>7, <1>13, <1>14 DEF this
<1>18. IsSplit(list, result, t, range, n, i)
  BY <1>1, <1>2, <1>11, <1>12, <1>13, <1>14, <1>15, <1>16, <1>17 DEF IsSplit
<1> QED
  BY <1>1, <1>2, <1>4, <1>18 DEF result, i, this

LEMMA WithRangeStays ==
    ASSUME NEW ids, NEW list \in Periods(ids), NEW t \in Time, NEW range \in KnownRange,
           HasRangePeriod(list, t), ~Splits(list, t, range)
    PROVE  LET new == WithRange(list, t, range)
               i == PeriodAt(list, t)
           IN  /\ DOMAIN new = DOMAIN list
               /\ \A j \in DOMAIN list : new[j].time = list[j].time
               /\ \A j \in DOMAIN list : j # i => new[j].range = list[j].range
               /\ new[i].range = range
<1> DEFINE i == PeriodAt(list, t)
           new == WithRange(list, t, range)
           that == [list[i] EXCEPT !.range = range]
<1>1. i \in DOMAIN list /\ i # 0
  BY PeriodAtIs DEF HasRangePeriod
<1>2. list[i] \in Period(ids)
  BY <1>1, PeriodsAre
<1>3. new = [list EXCEPT ![i].range = range]
  BY <1>1 DEF WithRange, Splits
<1>4. that.time = list[i].time /\ that.range = range
  BY <1>2 DEF Period
<1>5. new = [list EXCEPT ![i] = that]
  BY <1>3
<1> HIDE DEF new, that, i
<1>6. /\ DOMAIN new = DOMAIN list
      /\ \A j \in DOMAIN list : new[j].time = list[j].time
      /\ \A j \in DOMAIN list : j # i => new[j].range = list[j].range
      /\ new[i].range = range
  BY <1>1, <1>4, <1>5
<1> QED
  BY <1>6 DEF new, i

\* From t on the period shows the range, and nothing else changes.
Shows(list, new, t, range, s) ==
    /\ t <= s /\ PeriodAt(list, s) = PeriodAt(list, t) =>
         RangeAt(new, s) = range /\ PeriodAt(new, s) = PeriodAt(new, t)
    /\ ~(t <= s /\ PeriodAt(list, s) = PeriodAt(list, t)) => RangeAt(new, s) = RangeAt(list, s)

LEMMA SplitShows ==
    ASSUME NEW ids, NEW list \in Periods(ids), NEW t \in Time, NEW range,
           NEW jds, NEW new \in Periods(jds), NEW n \in Nat, NEW i \in Nat,
           IsSplit(list, new, t, range, n, i), i = PeriodAt(list, t), list[i].time < t,
           NEW s \in Time, list[1].time <= s
    PROVE  Shows(list, new, t, range, s)
<1> DEFINE k == PeriodAt(list, s)
<1>1. t \in Nat /\ s \in Nat /\ \A j \in DOMAIN list : list[j].time \in Nat
  BY TimesAreNumbers, PeriodsAre
<1>2. /\ Holds(list, k, s) /\ RangeAt(list, s) = list[k].range
  BY PeriodHolds
<1> HIDE DEF k
<1>3. /\ DOMAIN list = 1..n /\ i \in 1..n /\ DOMAIN new = 1..(n + 1)
      /\ \A j \in 1..n : j < i => j \in 1..(n + 1) /\ new[j] = list[j]
      /\ i \in 1..(n + 1) /\ new[i].time = list[i].time /\ new[i].range = list[i].range
      /\ i + 1 \in 1..(n + 1) /\ new[i + 1].time = t /\ new[i + 1].range = range
      /\ \A j \in 1..n : j > i => j + 1 \in 1..(n + 1) /\ new[j + 1] = list[j]
  BY DEF IsSplit
<1>4. \A h \in 1..(n + 1) : \/ h \in 1..n /\ h < i
                            \/ h = i
                            \/ h = i + 1
                            \/ \E j \in 1..n : j > i /\ h = j + 1
  BY DEF IsSplit
<1>5. k \in 1..n /\ list[k].time <= s /\ \A j \in 1..n : list[j].time <= s => j <= k
  BY <1>2, <1>3 DEF Holds
\* Where time t is in the new list.
<1>6. ASSUME NEW u \in Time, t <= u, \A j \in 1..n : list[j].time <= u => j <= i
      PROVE  PeriodAt(new, u) = i + 1 /\ RangeAt(new, u) = range
  <2>1. ASSUME NEW h \in 1..(n + 1), new[h].time <= u PROVE h <= i + 1
    <3>1. CASE \E j \in 1..n : j > i /\ h = j + 1
      <4>1. PICK j \in 1..n : j > i /\ h = j + 1
        BY <3>1
      <4>2. list[j].time <= u
        BY <1>3, <2>1, <4>1
      <4> QED
        BY <1>3, <1>6, <4>1, <4>2
    <3>2. CASE h < i \/ h = i \/ h = i + 1
      BY <1>3, <3>2
    <3> QED
      BY <1>4, <3>1, <3>2
  <2>2. Holds(new, i + 1, u)
    BY <1>3, <1>6, <2>1 DEF Holds
  <2>3. PeriodAt(new, u) = i + 1 /\ RangeAt(new, u) = new[i + 1].range
    BY <2>2, HoldsIs
  <2> QED
    BY <1>3, <2>3
<1>7. PeriodAt(new, t) = i + 1
  <2>1. \A j \in 1..n : list[j].time <= t => j <= i
    BY <1>3, PeriodAtIs
  <2>2. t <= t
    BY <1>1
  <2> QED
    BY <1>6, <2>1, <2>2
<1>8. CASE k = i /\ t <= s
  <2>1. PeriodAt(new, s) = i + 1 /\ RangeAt(new, s) = range
    BY <1>5, <1>6, <1>8
  <2> QED
    BY <1>7, <1>8, <2>1 DEF Shows, k
<1>9. CASE k = i /\ ~(t <= s)
  <2>1. ASSUME NEW h \in 1..(n + 1), new[h].time <= s PROVE h <= i
    <3>1. CASE \E j \in 1..n : j > i /\ h = j + 1
      <4>1. PICK j \in 1..n : j > i /\ h = j + 1
        BY <3>1
      <4>2. list[j].time <= s
        BY <1>3, <2>1, <4>1
      <4> QED
        BY <1>5, <1>9, <4>1, <4>2
    <3>2. CASE h = i + 1
      BY <1>1, <1>3, <1>9, <2>1, <3>2
    <3>3. CASE h < i \/ h = i
      BY <1>3, <3>3
    <3> QED
      BY <1>4, <3>1, <3>2, <3>3
  <2>2. Holds(new, i, s)
    BY <1>3, <1>5, <1>9, <2>1 DEF Holds
  <2>3. RangeAt(new, s) = new[i].range
    BY <2>2, HoldsIs
  <2> QED
    BY <1>2, <1>3, <1>9, <2>3 DEF Shows
<1>10. CASE k < i
  <2>1. ~(list[i].time <= s)
    BY <1>3, <1>5, <1>10
  <2>2. ~(t <= s)
    BY <1>1, <1>3, <2>1
  <2>3. ASSUME NEW h \in 1..(n + 1), new[h].time <= s PROVE h <= k
    <3>1. CASE \E j \in 1..n : j > i /\ h = j + 1
      <4>1. PICK j \in 1..n : j > i /\ h = j + 1
        BY <3>1
      <4>2. list[j].time <= s
        BY <1>3, <2>3, <4>1
      <4> QED
        BY <1>3, <1>5, <1>10, <4>1, <4>2
    <3>2. CASE h = i + 1
      BY <1>3, <2>2, <2>3, <3>2
    <3>3. CASE h = i
      BY <1>3, <2>1, <2>3, <3>3
    <3>4. CASE h \in 1..n /\ h < i
      BY <1>3, <1>5, <2>3, <3>4
    <3> QED
      BY <1>4, <3>1, <3>2, <3>3, <3>4
  <2>4. k \in 1..(n + 1) /\ new[k] = list[k]
    BY <1>3, <1>5, <1>10
  <2>5. Holds(new, k, s)
    BY <1>3, <1>5, <2>3, <2>4 DEF Holds
  <2>6. RangeAt(new, s) = new[k].range
    BY <2>5, HoldsIs
  <2>7. k # i
    BY <1>10, <1>3
  <2> QED
    BY <1>2, <2>4, <2>6, <2>7 DEF Shows, k
<1>11. CASE k > i
  <2>1. k + 1 \in 1..(n + 1) /\ new[k + 1] = list[k]
    BY <1>3, <1>5, <1>11
  <2>2. ASSUME NEW h \in 1..(n + 1), new[h].time <= s PROVE h <= k + 1
    <3>1. CASE \E j \in 1..n : j > i /\ h = j + 1
      <4>1. PICK j \in 1..n : j > i /\ h = j + 1
        BY <3>1
      <4>2. list[j].time <= s
        BY <1>3, <2>2, <4>1
      <4>3. j <= k
        BY <1>5, <4>2
      <4> QED
        BY <1>5, <4>1, <4>3
    <3>2. CASE h < i \/ h = i \/ h = i + 1
      BY <1>3, <1>5, <1>11, <3>2
    <3> QED
      BY <1>4, <3>1, <3>2
  <2>3. Holds(new, k + 1, s)
    BY <1>3, <1>5, <2>1, <2>2 DEF Holds
  <2>4. RangeAt(new, s) = new[k + 1].range
    BY <2>3, HoldsIs
  <2>5. k # i
    BY <1>11, <1>3
  <2> QED
    BY <1>2, <2>1, <2>4, <2>5 DEF Shows, k
<1> QED
  BY <1>3, <1>5, <1>8, <1>9, <1>10, <1>11

LEMMA StaysShows ==
    ASSUME NEW ids, NEW list \in Periods(ids), NEW t \in Time, NEW range,
           NEW jds, NEW new \in Periods(jds), NEW i, i = PeriodAt(list, t), Holds(list, i, t),
           DOMAIN new = DOMAIN list, \A j \in DOMAIN list : new[j].time = list[j].time,
           \A j \in DOMAIN list : j # i => new[j].range = list[j].range,
           new[i].range = range, range = list[i].range \/ list[i].time = t,
           NEW s \in Time, list[1].time <= s
    PROVE  Shows(list, new, t, range, s)
<1> DEFINE k == PeriodAt(list, s)
<1>1. Holds(list, k, s) /\ RangeAt(list, s) = list[k].range
  BY PeriodHolds
<1> HIDE DEF k
<1>2. Holds(new, k, s) /\ Holds(new, i, t) /\ k \in DOMAIN list
  BY <1>1 DEF Holds
<1>3. PeriodAt(new, s) = k /\ RangeAt(new, s) = new[k].range /\ PeriodAt(new, t) = i
  BY <1>2, HoldsIs
<1>4. CASE k # i
  BY <1>1, <1>2, <1>3, <1>4 DEF Shows, k
<1>5. CASE k = i
  <2>1. list[k].time <= s
    BY <1>1 DEF Holds
  <2>2. ~(t <= s) => range = list[k].range
    BY <1>5, <2>1
  <2> QED
    BY <1>1, <1>3, <1>5, <2>2 DEF Shows, k
<1> QED
  BY <1>4, <1>5

LEMMA WithRangeShows ==
    ASSUME NEW ids, NEW list \in Periods(ids), NEW t \in Time, NEW range \in KnownRange,
           range # NoRange, list[1].time <= t, RangeAt(list, t) # NoRange,
           NEW s \in Time, list[1].time <= s
    PROVE  Shows(list, WithRange(list, t, range), t, range, s)
<1> DEFINE new == WithRange(list, t, range)
           i == PeriodAt(list, t)
<1>1. Holds(list, i, t) /\ HasRangePeriod(list, t) /\ RangeAt(list, t) = list[i].range
  BY PeriodHolds
<1>2. new \in Periods(ids)
  BY WithRangeKeeps DEF Keeps
<1>3. CASE Splits(list, t, range)
  <2>1. PICK n \in Nat, j \in Nat : IsSplit(list, new, t, range, n, j) /\ j = i /\ list[j].time < t
    BY <1>1, <1>3, WithRangeSplits
  <2> HIDE DEF new
  <2>2. Shows(list, new, t, range, s)
    BY <1>2, <2>1, SplitShows
  <2> QED
    BY <2>2 DEF new
<1>4. CASE ~Splits(list, t, range)
  <2>1. /\ DOMAIN new = DOMAIN list
        /\ \A j \in DOMAIN list : new[j].time = list[j].time
        /\ \A j \in DOMAIN list : j # i => new[j].range = list[j].range
        /\ new[i].range = range
    BY <1>1, <1>4, WithRangeStays
  <2>2. range = list[i].range \/ list[i].time = t
    BY <1>1, <1>4 DEF Splits
  <2>3. PICK h : h = i
    OBVIOUS
  <2> HIDE DEF new, i
  <2>4. Shows(list, new, t, range, s)
    BY <1>1, <1>2, <2>1, <2>2, <2>3, StaysShows DEF i
  <2> QED
    BY <2>4 DEF new
<1> QED
  BY <1>3, <1>4

\* What comes after the period of t was there before.
LEMMA WithRangeLater ==
    ASSUME NEW ids, NEW list \in Periods(ids), NEW t \in Time, NEW range \in KnownRange,
           range # NoRange, list[1].time <= t,
           NEW k \in DOMAIN WithRange(list, t, range), k > PeriodAt(WithRange(list, t, range), t)
    PROVE  /\ t < WithRange(list, t, range)[k].time
           /\ \E j \in DOMAIN list : list[j].time = WithRange(list, t, range)[k].time
<1> DEFINE new == WithRange(list, t, range)
           i == PeriodAt(list, t)
<1>1. Holds(list, i, t) /\ HasRangePeriod(list, t) /\ t \in Nat
  BY PeriodHolds, TimesAreNumbers
<1>2. new \in Periods(ids)
  BY WithRangeKeeps DEF Keeps
<1>3. /\ \A j \in DOMAIN new : new[j].time <= t => j <= PeriodAt(new, t)
      /\ \A j \in DOMAIN new : new[j].time \in Nat
      /\ PeriodAt(new, t) \in Nat /\ k \in Nat
  <2>1. PeriodAt(new, t) \in 0..Len(new) /\ Len(new) \in Nat /\ DOMAIN new = 1..Len(new)
    BY <1>2, PeriodAtIs, PeriodsAre
  <2> HIDE DEF new
  <2>2. k \in 1..Len(new)
    BY <2>1 DEF new
  <2> QED
    BY <1>2, <2>1, <2>2, PeriodAtIs, PeriodsAre
<1>4. ~(new[k].time <= t)
  <2> HIDE DEF new
  <2>1. k \in DOMAIN new /\ k > PeriodAt(new, t)
    BY DEF new
  <2> QED
    BY <1>3, <2>1
<1>5. t < new[k].time
  <2> HIDE DEF new
  <2>1. k \in DOMAIN new
    BY DEF new
  <2> QED
    BY <1>1, <1>3, <1>4, <2>1
<1>6. \E j \in DOMAIN list : list[j].time = new[k].time
  <2>1. CASE Splits(list, t, range)
    <3>1. PICK n \in Nat, h \in Nat : IsSplit(list, new, t, range, n, h)
      BY <1>1, <2>1, WithRangeSplits
    <3> HIDE DEF new
    <3>2. k \in 1..(n + 1) /\ new[h + 1].time = t /\ DOMAIN list = 1..n /\ h \in 1..n
      BY <3>1 DEF IsSplit, new
    <3>3. k # h + 1
      BY <1>1, <1>5, <3>2
    <3>4. CASE k = h
      BY <3>1, <3>2, <3>4 DEF IsSplit
    <3>5. CASE k \in 1..n /\ k < h
      BY <3>1, <3>2, <3>5 DEF IsSplit
    <3>6. CASE \E j \in 1..n : j > h /\ k = j + 1
      <4>1. PICK j \in 1..n : j > h /\ k = j + 1
        BY <3>6
      <4>2. \A m \in 1..n : m > h => new[m + 1] = list[m]
        BY <3>1 DEF IsSplit
      <4>3. new[k] = list[j]
        BY <4>1, <4>2
      <4> QED
        BY <3>2, <4>1, <4>3
    <3> QED
      BY <3>1, <3>2, <3>3, <3>4, <3>5, <3>6 DEF IsSplit
  <2>2. CASE ~Splits(list, t, range)
    BY <1>1, <2>2, WithRangeStays
  <2> QED
    BY <2>1, <2>2
<1> QED
  BY <1>5, <1>6

-----------------------------------------------------------------------------
(***************************************************************************)
(* Steps that change no range.                                             *)
(***************************************************************************)
SameRanges(table, gvt, table2, gvt2) ==
    \A p \in Clp, d \in Direction, t \in Time :
      t >= gvt2[p] => t >= gvt[p] /\ RangeAt(table2[p][d], t) = RangeAt(table[p][d], t)

HearsNoMore(links, links2) ==
    \A l \in ClpLink, t \in Time : \A known :
      Heard(links2[l], known, t) \subseteq Heard(links[l], known, t)

NoNewUpdates(links, links2) ==
    \A l \in Link : \A m \in ToSet(links2[l]) : m.type = "update" => m \in ToSet(links[l])

LEMMA ViewFields ==
    ASSUME NEW view \in View, NEW p \in Clp, NEW d \in Direction, NEW t \in Time
    PROVE  view[p][d][t] \in Framed
  BY DEF View

LEMMA SeesStill ==
    ASSUME NEW view, NEW table, NEW gvt, NEW where, NEW history, NEW links,
           NEW table2, NEW gvt2, NEW links2,
           Sees(view, table, gvt, where, history, links),
           SameRanges(table, gvt, table2, gvt2), HearsNoMore(links, links2),
           NoNewUpdates(links, links2)
    PROVE  Sees(view, table2, gvt2, where, history, links2)
<1>1. ShowsTables(view, table2, gvt2)
  BY DEF Sees, ShowsTables, SameRanges
<1>2. ASSUME NEW l \in ClpLink PROVE LinkCovers(view, links2[l], l)
  <2>1. LinkCovers(view, links[l], l)
    BY <1>2 DEF Sees, LinksCover
  <2>2. \A t \in Time : \A known : Heard(links2[l], known, t) \subseteq Heard(links[l], known, t)
    BY <1>2 DEF HearsNoMore
  <2> QED
    BY <2>1, <2>2 DEF LinkCovers
<1>3. UpdatesSay(links2, where)
  BY DEF Sees, UpdatesSay, NoNewUpdates
<1> QED
  BY <1>1, <1>2, <1>3 DEF Sees, LinksCover

\* A step that changes no range and sends no update leaves what is known as it is.
KeepsSight == met \subseteq met' /\ \A view \in View : Sight(view) => Sight(view)'

LEMMA SightIfCalm ==
    ASSUME NEW table, NEW gvt, NEW links, NEW seen,
           table = fRangeRoutingTable', gvt = fGVT', links = net', seen = met',
           met \subseteq seen, home' = home, positions' = positions,
           SameRanges(fRangeRoutingTable, fGVT, table, gvt),
           HearsNoMore(net, links), NoNewUpdates(net, links)
    PROVE  KeepsSight
<1>1. ASSUME NEW view \in View, Sight(view)
      PROVE  Sees(view, table, gvt, home, positions, links)
  <2>1. Sees(view, fRangeRoutingTable, fGVT, home, positions, net)
    BY <1>1 DEF Sight
  <2> QED
    BY <2>1, SeesStill
<1>2. \A view \in View : Sight(view) => Sight(view)'
  BY <1>1 DEF Sight
<1> QED
  BY <1>2 DEF KeepsSight

LEMMA SameRangesAtAll ==
    ASSUME NEW table, NEW gvt
    PROVE  SameRanges(table, gvt, table, gvt)
  BY DEF SameRanges

LEMMA HearsTheSame ==
    ASSUME NEW links, NEW links2, \A l \in ClpLink : links2[l] = links[l]
    PROVE  HearsNoMore(links, links2)
  BY DEF HearsNoMore

\* A message that is no update was taken, and no updates are sent.
SaysNothing(out) == \A d \in DOMAIN out : \A m \in ToSet(out[d]) : m.type # "update"

LEMMA NotBy ==
    ASSUME NEW M, NEW s \in Seq(M), \A m \in ToSet(s) : m.type # "update", NEW t
    PROVE  \A j \in DOMAIN s : ~IsBy(s[j], t)
  BY DEF IsBy, ToSet

LEMMA ExchangedNothing ==
    ASSUME NEW M, net \in [Link -> Seq(M)], NEW l \in Link, NEW i \in DOMAIN net[l],
           net[l][i].type # "update", NEW out, \A d \in DOMAIN out : out[d] \in Seq(M),
           SaysNothing(out)
    PROVE  HearsNoMore(net, Exchanged(l, i, out)) /\ NoNewUpdates(net, Exchanged(l, i, out))
<1> DEFINE links == Exchanged(l, i, out)
<1>1. RemoveAt(net[l], i) \in Seq(M)
  BY ExchangedLinks
<1>2. \A k \in Link : Exchanged(l, i, out)[k] =
           (IF k = l THEN RemoveAt(net[k], i) ELSE net[k]) \o OutOn(k, l[2], out)
  BY DEF Exchanged, OutOn
<1>3. /\ RemoveAt(net[l], i) \in Seq(M)
      /\ \A k \in Link : links[k] =
           (IF k = l THEN RemoveAt(net[k], i) ELSE net[k]) \o OutOn(k, l[2], out)
  BY <1>1, <1>2
<1>4. \A k \in Link : OutOn(k, l[2], out) \in Seq(M)
  BY OutOnIsSeq
<1>5. \A k \in Link : \A m \in ToSet(OutOn(k, l[2], out)) : m.type # "update"
  <2>1. ToSet(<<>>) = {}
    BY DEF ToSet
  <2> QED
    BY <2>1 DEF OutOn, SaysNothing
<1> HIDE DEF links
<1>6. ASSUME NEW k \in ClpLink, NEW t \in Time, NEW known
      PROVE  Heard(links[k], known, t) \subseteq Heard(net[k], known, t)
  <2>0. k \in Link
    BY DEF ClpLink
  <2> DEFINE u == OutOn(k, l[2], out)
             s == IF k = l THEN RemoveAt(net[k], i) ELSE net[k]
  <2>1. u \in Seq(M) /\ s \in Seq(M) /\ links[k] = s \o u
    BY <1>3, <1>4, <2>0
  <2>2. \A m \in ToSet(u) : m.type # "update"
    BY <1>5, <2>0
  <2>3. s = net[k] \/ (k = l /\ s = RemoveAt(net[l], i))
    OBVIOUS
  <2> HIDE DEF u, s
  <2>4. \A j \in DOMAIN u : ~IsBy(u[j], t)
    BY <2>1, <2>2, NotBy
  <2>5. Heard(links[k], known, t) \subseteq Heard(s, known, t)
    BY <2>1, <2>4, HeardWithOthers
  <2>6. CASE s = net[k]
    BY <2>5, <2>6
  <2>7. CASE k = l /\ s = RemoveAt(net[l], i)
    <3>1. PICK q \in Seq(M) : q = net[l]
      OBVIOUS
    <3>2. PICK n \in Nat : n = Len(q)
      OBVIOUS
    <3>3. i \in 1..n /\ ~IsBy(q[i], t)
      BY <3>1, <3>2 DEF IsBy
    <3>4. Heard(RemoveAt(q, i), known, t) \subseteq Heard(q, known, t)
      BY <3>2, <3>3, HeardWithout
    <3> QED
      BY <2>5, <2>7, <3>1, <3>4
  <2> QED
    BY <2>3, <2>6, <2>7
<1>7. HearsNoMore(net, links)
  BY <1>6 DEF HearsNoMore
<1>8. ASSUME NEW k \in Link, NEW m \in ToSet(links[k]), m.type = "update"
      PROVE  m \in ToSet(net[k])
  <2>1. \/ m \in ToSet(net[k])
        \/ /\ k[1] = l[2] /\ GetDirectionFromRank(k[1], k[2]) \in DOMAIN out
           /\ m \in ToSet(out[GetDirectionFromRank(k[1], k[2])])
    BY ExchangedMessages DEF links
  <2> QED
    BY <1>8, <2>1 DEF SaysNothing
<1>9. NoNewUpdates(net, links)
  BY <1>8 DEF NoNewUpdates
<1> QED
  BY <1>7, <1>9 DEF links

LEMMA QueriesSayNothing ==
    ASSUME NEW out, NEW id, OnlyQueries(out, id)
    PROVE  SaysNothing(out)
<1>1. ASSUME NEW d \in DOMAIN out, NEW m \in ToSet(out[d]) PROVE m.type # "update"
  <2>1. PICK found \in Found : out[d] = <<Query(id, found)>>
    BY DEF OnlyQueries
  <2>2. m = Query(id, found)
    BY <1>1, <2>1 DEF ToSet
  <2> QED
    BY <2>2 DEF Query
<1> QED
  BY <1>1 DEF SaysNothing

LEMMA AntisSayNothing ==
    ASSUME NEW out, NEW id, OnlyAntis(out, id)
    PROVE  SaysNothing(out)
<1>1. ASSUME NEW d \in DOMAIN out, NEW m \in ToSet(out[d]) PROVE m.type # "update"
  <2>1. out[d] = <<[type |-> "anti", id |-> id]>>
    BY DEF OnlyAntis
  <2>2. m = [type |-> "anti", id |-> id]
    BY <1>1, <2>1 DEF ToSet
  <2> QED
    BY <2>2
<1> QED
  BY <1>1 DEF SaysNothing

LEMMA RowWithSameRanges ==
    ASSUME NEW table, NEW gvt, NEW ids, AreTables(table, gvt, ids), NEW p \in Clp, NEW row,
           \A d \in Direction, t \in Time :
             t >= gvt[p] => RangeAt(row[d], t) = RangeAt(table[p][d], t)
    PROVE  SameRanges(table, gvt, [table EXCEPT ![p] = row], gvt)
<1> DEFINE new == [table EXCEPT ![p] = row]
<1>1. new[p] = row /\ \A q \in Clp : q # p => new[q] = table[q]
  BY DEF AreTables
<1> HIDE DEF new
<1>2. SameRanges(table, gvt, new, gvt)
  BY <1>1 DEF SameRanges
<1> QED
  BY <1>2 DEF new

\* From the GVT on, a list has a period.
LEMMA ListFrom ==
    ASSUME NEW table, NEW gvt, NEW ids, AreTables(table, gvt, ids), NEW p \in Clp,
           NEW d \in Direction
    PROVE  /\ table[p][d] \in Periods(ids) /\ table[p][d][1].time \in Nat
           /\ table[p][d][1].time <= gvt[p] /\ gvt[p] \in Time
           /\ \A t \in Time : t >= gvt[p] => table[p][d][1].time <= t
<1>1. PICK list \in Periods(ids) : list = table[p][d]
  BY DEF AreTables
<1>2. list[1].time \in Nat
  BY PeriodsAre
<1>3. list[1].time <= gvt[p] /\ gvt[p] \in Time
  BY <1>1 DEF AreTables
<1>4. Time \subseteq Nat
  BY TimesAreNumbers
<1>5. ASSUME NEW t \in Time, t >= gvt[p] PROVE list[1].time <= t
  <2>1. t \in Nat /\ gvt[p] \in Nat
    BY <1>3, <1>4
  <2> QED
    BY <1>2, <1>3, <1>5, <2>1
<1> QED
  BY <1>1, <1>2, <1>3, <1>5

LEMMA NotedRanges ==
    ASSUME Types, NEW p \in Clp, NEW id \in Ids
    PROVE  SameRanges(fRangeRoutingTable, fGVT,
                      [fRangeRoutingTable EXCEPT ![p] = Noted(p, id)], fGVT)
<1> DEFINE row == Noted(p, id)
           e(d) == [id |-> id, time |-> queries[id].time, box |-> queries[id].box,
                    blocked |-> d \notin NotBlocked(p, id), agent |-> queries[id].agent]
<1>1. AreTables(fRangeRoutingTable, fGVT, Ids)
  BY DEF Types, TableTypes
<1>2. /\ queries[id].agent \in Alps /\ queries[id].time \in Time /\ queries[id].box \in Box
  BY QueryFields DEF Types
<1>3. \A d \in Direction : e(d) \in EntryOf(Ids)
  BY <1>2 DEF EntryOf
<1>4. \A d \in Direction : row[d] = IF d \in Ranged(p, id)
                                    THEN AddRangeQueryInfo(fRangeRoutingTable[p][d], e(d))
                                    ELSE fRangeRoutingTable[p][d]
  BY DEF Noted
<1> HIDE DEF e, row
<1>5. ASSUME NEW d \in Direction, NEW t \in Time, t >= fGVT[p]
      PROVE  RangeAt(row[d], t) = RangeAt(fRangeRoutingTable[p][d], t)
  <2>1. PICK list \in Periods(Ids) : list = fRangeRoutingTable[p][d] /\ list[1].time <= t
    BY <1>1, <1>5, ListFrom
  <2>2. RangeAt(AddRangeQueryInfo(list, e(d)), t) = RangeAt(list, t)
    BY <1>3, <2>1, AddRangeQueryInfoRanges
  <2> QED
    BY <1>4, <2>1, <2>2
<1>6. SameRanges(fRangeRoutingTable, fGVT, [fRangeRoutingTable EXCEPT ![p] = row], fGVT)
  BY <1>1, <1>5, RowWithSameRanges
<1> QED
  BY <1>6 DEF row

LEMMA ForgottenRanges ==
    ASSUME Types, NEW p \in Clp, NEW id \in Ids
    PROVE  SameRanges(fRangeRoutingTable, fGVT,
                      [fRangeRoutingTable EXCEPT ![p] = Forgotten(p, id)], fGVT)
<1> DEFINE row == Forgotten(p, id)
<1>1. AreTables(fRangeRoutingTable, fGVT, Ids)
  BY DEF Types, TableTypes
<1>2. queries[id].time \in Time
  BY QueryFields DEF Types
<1>3. \A d \in Direction :
        \/ row[d] = fRangeRoutingTable[p][d]
        \/ row[d] = DeleteRangeQueryInfo(fRangeRoutingTable[p][d], queries[id].time, id)
  BY DEF Forgotten
<1> HIDE DEF row
<1>4. ASSUME NEW d \in Direction, NEW t \in Time, t >= fGVT[p]
      PROVE  RangeAt(row[d], t) = RangeAt(fRangeRoutingTable[p][d], t)
  <2>1. PICK list \in Periods(Ids) : list = fRangeRoutingTable[p][d] /\ list[1].time <= t
    BY <1>1, <1>4, ListFrom
  <2>2. RangeAt(DeleteRangeQueryInfo(list, queries[id].time, id), t) = RangeAt(list, t)
    BY <1>2, <2>1, DeleteRangeQueryInfoRanges
  <2> QED
    BY <1>3, <2>1, <2>2
<1>5. SameRanges(fRangeRoutingTable, fGVT, [fRangeRoutingTable EXCEPT ![p] = row], fGVT)
  BY <1>1, <1>4, RowWithSameRanges
<1> QED
  BY <1>5 DEF row

LEMMA NewQueryKeepsSight ==
    ASSUME LinksAgree, Inv, NEW l \in Link, l[2] \in Clp, NEW i \in DOMAIN net[l],
           ProcessNewQuery(l[2], l, i), fGVT' = fGVT, home' = home, positions' = positions
    PROVE  KeepsSight
<1> DEFINE p == l[2]
           id == net[l][i].id
           M == MessageOf(Ids)
<1>1. /\ net[l][i].type = "query" /\ met \subseteq met'
      /\ fRangeRoutingTable' = [fRangeRoutingTable EXCEPT ![p] = Noted(p, id)]
  BY DEF ProcessNewQuery
<1>2. Types /\ id \in Ids
  BY <1>1, CameFrom DEF Inv
<1>3. PICK out : net' = Exchanged(l, i, out) /\ OnlyQueries(out, id)
  BY NewQuerySends DEF GoesOnward
<1>4. \A d \in DOMAIN out : out[d] \in Seq(M)
  <2>1. \A found \in Found : <<Query(id, found)>> \in Seq(M)
    BY <1>2, MessagesToSend
  <2> HIDE DEF M, id
  <2> QED
    BY <1>3, <2>1 DEF OnlyQueries
<1>5. SaysNothing(out)
  BY <1>3, QueriesSayNothing
<1>6. net \in [Link -> Seq(M)]
  BY <1>2 DEF Types, NetTypes, AreMessages
<1> HIDE DEF M
<1>7. HearsNoMore(net, Exchanged(l, i, out)) /\ NoNewUpdates(net, Exchanged(l, i, out))
  BY <1>1, <1>4, <1>5, <1>6, ExchangedNothing
<1>8. SameRanges(fRangeRoutingTable, fGVT, [fRangeRoutingTable EXCEPT ![p] = Noted(p, id)], fGVT)
  BY <1>2, NotedRanges
<1>9. PICK table, links, seen :
        /\ table = fRangeRoutingTable' /\ links = net' /\ seen = met' /\ met \subseteq seen
        /\ SameRanges(fRangeRoutingTable, fGVT, table, fGVT)
        /\ HearsNoMore(net, links) /\ NoNewUpdates(net, links)
  BY <1>1, <1>3, <1>7, <1>8
<1> QED
  BY <1>9, SightIfCalm

LEMMA ReplyKeepsSight ==
    ASSUME LinksAgree, Inv, NEW l \in Link, l[2] \in Clp, NEW i \in DOMAIN net[l],
           ProcessReply(l[2], l, i), fGVT' = fGVT, home' = home, positions' = positions
    PROVE  KeepsSight
<1> DEFINE p == l[2]
           id == net[l][i].id
           status == Scanned(p, l, id, net[l][i].found)
           out == Reply(id, status)
           M == MessageOf(Ids)
<1>1. /\ net[l][i].type = "query" /\ net' = Exchanged(l, i, out)
      /\ fRangeRoutingTable' = fRangeRoutingTable /\ met' = met
      /\ id \in DOMAIN fRangeTracker[p]
  BY DEF ProcessReply
<1>2. Types /\ id \in Ids /\ TrackerTypes
  BY <1>1, CameFrom DEF Inv, Types
<1>3. status.found \in Found
  <2> DEFINE old == fRangeTracker[p][id]
  <2>1. old \in Status
    BY <1>1, <1>2 DEF TrackerTypes, AreTrackers
  <2>2. net[l][i].found \in Found
    <3>1. net[l][i] \in M
      BY <1>2 DEF Types, NetTypes, AreMessages
    <3> QED
      BY <1>1, <3>1, MessageFields
  <2>3. status = [old EXCEPT !.outstanding = @ \ {GetDirectionFromRank(p, l[1])},
                             !.found = @ \cup net[l][i].found]
    BY DEF Scanned
  <2> HIDE DEF status, old
  <2>4. status.found = old.found \cup net[l][i].found
    BY <2>1, <2>3 DEF Status
  <2>5. old.found \in Found
    BY <2>1 DEF Status
  <2> QED
    BY <2>2, <2>4, <2>5, FoundIsClosed
<1>4. OnlyQueries(out, id)
  <2> HIDE DEF status, id
  <2> QED
    BY <1>3 DEF Reply, OnlyQueries
<1> HIDE DEF out, status
<1>5. \A d \in DOMAIN out : out[d] \in Seq(M)
  <2>1. \A found \in Found : <<Query(id, found)>> \in Seq(M)
    BY <1>2, MessagesToSend
  <2> HIDE DEF M, id
  <2> QED
    BY <1>4, <2>1 DEF OnlyQueries
<1>6. SaysNothing(out)
  BY <1>4, QueriesSayNothing
<1>7. net \in [Link -> Seq(M)]
  BY <1>2 DEF Types, NetTypes, AreMessages
<1> HIDE DEF M
<1>8. HearsNoMore(net, Exchanged(l, i, out)) /\ NoNewUpdates(net, Exchanged(l, i, out))
  BY <1>1, <1>5, <1>6, <1>7, ExchangedNothing
<1>9. SameRanges(fRangeRoutingTable, fGVT, fRangeRoutingTable, fGVT)
  BY SameRangesAtAll
<1>10. PICK links :
        links = net' /\ HearsNoMore(net, links) /\ NoNewUpdates(net, links)
  BY <1>1, <1>8
<1> QED
  BY <1>1, <1>9, <1>10, SightIfCalm

LEMMA AntiKeepsSight ==
    ASSUME LinksAgree, Inv, NEW l \in Link, l[2] \in Clp, NEW i \in DOMAIN net[l],
           ProcessAntiMessage(l[2], l, i), fGVT' = fGVT, home' = home, positions' = positions
    PROVE  KeepsSight
<1> DEFINE p == l[2]
           id == net[l][i].id
           late == fGVT[p] > queries[id].time
           m == <<[type |-> "anti", id |-> id]>>
           onward == [d \in Onward(p, id) \ {HERE} |-> m]
           out == IF late THEN <<>> ELSE onward
           new == [fRangeRoutingTable EXCEPT ![p] = Forgotten(p, id)]
           M == MessageOf(Ids)
<1>1. /\ net[l][i].type = "anti" /\ net' = Exchanged(l, i, out) /\ met \subseteq met'
      /\ fRangeRoutingTable' = IF late THEN fRangeRoutingTable ELSE new
  BY DEF ProcessAntiMessage
<1>2. Types /\ net \in [Link -> Seq(M)]
  BY DEF Inv, Types, NetTypes, AreMessages
<1>3. id \in Ids
  <2>1. net[l][i] \in M
    BY <1>2
  <2> QED
    BY <1>1, <2>1, MessageFields
<1>4. OnlyAntis(out, id)
  <2>1. DOMAIN <<>> = {}
    OBVIOUS
  <2>2. OnlyAntis(onward, id)
    BY DEF OnlyAntis
  <2>3. OnlyAntis(<<>>, id)
    BY <2>1 DEF OnlyAntis
  <2> HIDE DEF onward
  <2> QED
    BY <2>2, <2>3
<1>5. \A d \in DOMAIN out : out[d] \in Seq(M)
  <2>1. <<[type |-> "anti", id |-> id]>> \in Seq(M)
    BY <1>3, MessagesToSend
  <2> HIDE DEF out, id, M
  <2> QED
    BY <1>4, <2>1 DEF OnlyAntis
<1> HIDE DEF out, M
<1>6. SaysNothing(out)
  BY <1>4, AntisSayNothing
<1>7. HearsNoMore(net, Exchanged(l, i, out)) /\ NoNewUpdates(net, Exchanged(l, i, out))
  BY <1>1, <1>2, <1>5, <1>6, ExchangedNothing
<1>8. SameRanges(fRangeRoutingTable, fGVT, fRangeRoutingTable, fGVT)
  BY SameRangesAtAll
<1>9. SameRanges(fRangeRoutingTable, fGVT, new, fGVT)
  BY <1>2, <1>3, ForgottenRanges
<1> HIDE DEF new
<1>10. PICK table, links, seen :
        /\ table = fRangeRoutingTable' /\ links = net' /\ seen = met' /\ met \subseteq seen
        /\ SameRanges(fRangeRoutingTable, fGVT, table, fGVT)
        /\ HearsNoMore(net, links) /\ NoNewUpdates(net, links)
  BY <1>1, <1>7, <1>8, <1>9
<1> QED
  BY <1>10, SightIfCalm

\* What agents send and receive is no update.
LEMMA AgentLinkChanged ==
    ASSUME NEW links, NEW links2, NEW k \in Link, k \notin ClpLink,
           \A l \in Link : l # k => links2[l] = links[l],
           \A m \in ToSet(links2[k]) : m.type = "update" => m \in ToSet(links[k])
    PROVE  HearsNoMore(links, links2) /\ NoNewUpdates(links, links2)
<1>1. \A l \in ClpLink : links2[l] = links[l]
  BY DEF ClpLink
<1>2. HearsNoMore(links, links2)
  BY <1>1, HearsTheSame
<1>3. ASSUME NEW l \in Link, NEW m \in ToSet(links2[l]), m.type = "update"
      PROVE  m \in ToSet(links[l])
  <2>1. CASE l = k
    BY <1>3, <2>1
  <2>2. CASE l # k
    <3>1. links2[l] = links[l]
      BY <2>2
    <3> QED
      BY <1>3, <3>1
  <2> QED
    BY <2>1, <2>2
<1> QED
  BY <1>2, <1>3 DEF NoNewUpdates

LEMMA QueryKeepsSight ==
    ASSUME LinksAgree, Inv, NEW a \in Alps, NEW t \in QueryTime, NEW box \in Box,
           RangeQuery(a, t, box)
    PROVE  KeepsSight
<1> DEFINE n == Len(queries) + 1
           q == Query(n, {})
           k == <<a, AlpParent[a]>>
           M == MessageOf(Ids \cup {n})
<1>1. /\ net' = [net EXCEPT ![k] = Append(@, q)]
      /\ UNCHANGED <<home, positions, fGVT, fRangeRoutingTable, met>>
  BY DEF RangeQuery
<1>2. k \in Link /\ k \notin ClpLink
  BY AgentLink, ClpOrAlp DEF ClpLink
<1>3. net \in [Link -> Seq(MessageOf(Ids))]
  BY DEF Inv, Types, NetTypes, AreMessages
<1>4. net[k] \in Seq(M) /\ q \in M
  <2>1. MessageOf(Ids) \subseteq M
    <3>1. Ids \subseteq Ids \cup {n}
      OBVIOUS
    <3> QED
      BY <3>1, MoreIds
  <2>2. net[k] \in Seq(MessageOf(Ids))
    BY <1>2, <1>3
  <2>3. net[k] \in Seq(M)
    <3> DEFINE L == MessageOf(Ids)
               s == net[k]
    <3>1. s \in Seq(L) /\ L \subseteq M
      BY <2>1, <2>2
    <3> HIDE DEF L, M, s, k
    <3>2. s \in Seq(M)
      BY <3>1
    <3> QED
      BY <3>2 DEF s
  <2>4. q \in M
    BY FoundIsClosed DEF Query, MessageOf
  <2> QED
    BY <2>3, <2>4
<1>5. q.type = "query"
  BY DEF Query
<1> HIDE DEF k, M, q
<1>6. ToSet(Append(net[k], q)) = ToSet(net[k]) \cup {q}
  BY <1>4, ToSetOfAppend
<1> DEFINE more == Append(net[k], q)
<1>7. net' = [net EXCEPT ![k] = more]
  BY <1>1
<1> HIDE DEF more
<1>8. PICK links : links = net' /\ links = [net EXCEPT ![k] = more]
  BY <1>7
<1>9. /\ links = net' /\ \A l \in Link : l # k => links[l] = net[l]
      /\ links[k] = Append(net[k], q)
  BY <1>2, <1>3, <1>8 DEF more
<1>10. \A m \in ToSet(links[k]) : m.type = "update" => m \in ToSet(net[k])
  BY <1>5, <1>6, <1>9
<1>11. HearsNoMore(net, links) /\ NoNewUpdates(net, links)
  BY <1>2, <1>9, <1>10, AgentLinkChanged
<1>12. SameRanges(fRangeRoutingTable, fGVT, fRangeRoutingTable, fGVT)
  BY SameRangesAtAll
<1> QED
  BY <1>1, <1>9, <1>11, <1>12, SightIfCalm

LEMMA AnswerKeepsSight ==
    ASSUME LinksAgree, Inv, NEW a \in Alps, ReceiveAnswer(a)
    PROVE  KeepsSight
<1> DEFINE k == <<AlpParent[a], a>>
           M == MessageOf(Ids)
<1>1. /\ net[k] # <<>> /\ net' = [net EXCEPT ![k] = Tail(@)]
      /\ UNCHANGED <<home, positions, fGVT, fRangeRoutingTable, met>>
  BY DEF ReceiveAnswer
<1>2. k \in Link /\ k \notin ClpLink
  BY AgentLink, ClpOrAlp DEF ClpLink
<1>3. net \in [Link -> Seq(M)]
  BY DEF Inv, Types, NetTypes, AreMessages
<1> HIDE DEF k, M
<1>4. ToSet(Tail(net[k])) \subseteq ToSet(net[k])
  <2>1. net[k] \in Seq(M)
    BY <1>2, <1>3
  <2> QED
    BY <1>1, <2>1, ToSetOfTail
<1> DEFINE less == Tail(net[k])
<1>5. net' = [net EXCEPT ![k] = less]
  BY <1>1
<1> HIDE DEF less
<1>6. PICK links : links = net' /\ links = [net EXCEPT ![k] = less]
  BY <1>5
<1>7. /\ links = net' /\ \A l \in Link : l # k => links[l] = net[l]
      /\ links[k] = Tail(net[k])
  BY <1>2, <1>3, <1>6 DEF less
<1>8. \A m \in ToSet(links[k]) : m.type = "update" => m \in ToSet(net[k])
  BY <1>4, <1>7
<1>9. HearsNoMore(net, links) /\ NoNewUpdates(net, links)
  BY <1>2, <1>7, <1>8, AgentLinkChanged
<1>10. SameRanges(fRangeRoutingTable, fGVT, fRangeRoutingTable, fGVT)
  BY SameRangesAtAll
<1> QED
  BY <1>1, <1>7, <1>9, <1>10, SightIfCalm

LEMMA RollbackKeepsSight ==
    ASSUME LinksAgree, Inv, NEW a \in Alps, NEW t \in QueryTime, ProcessRollback(a, t)
    PROVE  KeepsSight
<1> DEFINE k == <<a, AlpParent[a]>>
           M == MessageOf(Ids)
<1>1. UNCHANGED <<home, positions, fGVT, fRangeRoutingTable, met>>
  BY DEF ProcessRollback
<1>2. k \in Link /\ k \notin ClpLink
  BY AgentLink, ClpOrAlp DEF ClpLink
<1>3. net \in [Link -> Seq(M)] /\ Types
  BY DEF Inv, Types, NetTypes, AreMessages
<1>4. PICK anti \in Seq(M) : /\ \A m \in ToSet(anti) : m.type = "anti"
                             /\ net' = [net EXCEPT ![k] = @ \o anti]
  BY <1>3, RollbackSends
<1> HIDE DEF k, M
<1>5. ToSet(net[k] \o anti) = ToSet(net[k]) \cup ToSet(anti)
  <2>1. net[k] \in Seq(M)
    BY <1>2, <1>3
  <2> QED
    BY <2>1, ToSetOfConcat
<1>6. PICK links : /\ links = net' /\ \A l \in Link : l # k => links[l] = net[l]
                   /\ links[k] = net[k] \o anti
  BY <1>2, <1>3, <1>4
<1>7. \A m \in ToSet(links[k]) : m.type = "update" => m \in ToSet(net[k])
  BY <1>4, <1>5, <1>6
<1>8. HearsNoMore(net, links) /\ NoNewUpdates(net, links)
  BY <1>2, <1>6, <1>7, AgentLinkChanged
<1>9. SameRanges(fRangeRoutingTable, fGVT, fRangeRoutingTable, fGVT)
  BY SameRangesAtAll
<1> QED
  BY <1>1, <1>6, <1>8, <1>9, SightIfCalm

LEMMA GvtKeepsSight ==
    ASSUME LinksAgree, Inv, NEW p \in Clp, NEW t \in GvtTime, SetGvt(p, t)
    PROVE  KeepsSight
<1> DEFINE row == [d \in Direction |-> ClearRangePeriods(fRangeRoutingTable[p][d], t)]
           new == [fRangeRoutingTable EXCEPT ![p] = row]
           later == [fGVT EXCEPT ![p] = t]
<1>1. /\ t > fGVT[p] /\ fGVT' = later /\ fRangeRoutingTable' = new
      /\ UNCHANGED <<home, positions, net, met>>
  BY DEF SetGvt
<1>2. t \in Time /\ t \in Nat
  BY TimesAreNumbers DEF Time
<1>3. AreTables(fRangeRoutingTable, fGVT, Ids)
  BY DEF Inv, Types, TableTypes
<1>4. fGVT \in [Clp -> Time] /\ \A q \in Clp : fGVT[q] \in Nat
  BY <1>3, TimesAreNumbers DEF AreTables
<1>5. /\ new[p] = row /\ \A q \in Clp : q # p => new[q] = fRangeRoutingTable[q]
      /\ later[p] = t /\ \A q \in Clp : q # p => later[q] = fGVT[q]
  BY <1>3, <1>4 DEF AreTables
<1>6. \A d \in Direction : row[d] = ClearRangePeriods(fRangeRoutingTable[p][d], t)
  OBVIOUS
<1> HIDE DEF new, later, row
<1>7. ASSUME NEW q \in Clp, NEW d \in Direction, NEW s \in Time, s >= later[q]
      PROVE  s >= fGVT[q] /\ RangeAt(new[q][d], s) = RangeAt(fRangeRoutingTable[q][d], s)
  <2>1. CASE q = p
    <3>1. PICK list \in Periods(Ids) : list = fRangeRoutingTable[p][d] /\ list[1].time \in Nat
                                       /\ list[1].time <= fGVT[p]
      BY <1>3, ListFrom
    <3>2. s \in Nat /\ fGVT[p] \in Nat /\ t <= s
      BY <1>4, <1>5, <1>7, <2>1, TimesAreNumbers
    <3>3. list[1].time <= t /\ s >= fGVT[p]
      BY <1>1, <1>2, <3>1, <3>2
    <3>4. RangeAt(ClearRangePeriods(list, t), s) = RangeAt(list, s)
      BY <1>2, <3>2, <3>3, ClearRangePeriodsRanges
    <3> QED
      BY <1>5, <1>6, <2>1, <3>1, <3>3, <3>4
  <2>2. CASE q # p
    BY <1>5, <1>7, <2>2
  <2> QED
    BY <2>1, <2>2
<1>8. SameRanges(fRangeRoutingTable, fGVT, new, later)
  BY <1>7 DEF SameRanges
<1>9. HearsNoMore(net, net) /\ NoNewUpdates(net, net)
  BY HearsTheSame DEF NoNewUpdates
<1>10. PICK table, gvt : /\ table = fRangeRoutingTable' /\ gvt = fGVT'
                         /\ SameRanges(fRangeRoutingTable, fGVT, table, gvt)
  BY <1>1, <1>8
<1> QED
  BY <1>1, <1>9, <1>10, SightIfCalm

-----------------------------------------------------------------------------
(***************************************************************************)
(* A CLP is told another range of a port, and tells its other neighbours.  *)
(***************************************************************************)
ToldView(view, p, src, from, list) ==
    [q \in Clp |-> [d \in Direction |-> [s \in Time |->
       IF q = p /\ d = src /\ s >= from THEN RangeAt(list, s) ELSE view[q][d][s]]]]

\* The views are the same but for what p knows of port src from t on.
AlikeBefore(view, view2, p, src, t) ==
    \A q \in Clp, d \in Direction, s \in Time :
      q # p \/ d # src \/ s < t => view2[q][d][s] = view[q][d][s]

OtherList(table, table2, p, src, list) ==
    /\ table2[p][src] = list
    /\ \A q \in Clp, d \in Direction : q # p \/ d # src => table2[q][d] = table[q][d]

\* From t on to the end of its period, the range of the port is r.
Becomes(view, view2, list, p, src, t, r) ==
    \A s \in Time :
      /\ t <= s /\ PeriodAt(list, s) = PeriodAt(list, t) => view2[p][src][s] = r
      /\ ~(t <= s /\ PeriodAt(list, s) = PeriodAt(list, t)) => view2[p][src][s] = view[p][src][s]

SameView(view, view2) ==
    \A q \in Clp, d \in Direction, s \in Time : view2[q][d][s] = view[q][d][s]

LEMMA ToldViewIs ==
    ASSUME NEW view \in View, NEW table, NEW gvt, NEW ids, AreTables(table, gvt, ids),
           ShowsTables(view, table, gvt), NEW p \in Clp, NEW src \in Direction,
           NEW t \in Time, t >= gvt[p], NEW r \in FramedBox, RangeAt(table[p][src], t) # NoRange,
           NEW table2, OtherList(table, table2, p, src, WithRange(table[p][src], t, r))
    PROVE  LET view2 == ToldView(view, p, src, gvt[p], WithRange(table[p][src], t, r))
               list == table[p][src]
           IN  /\ view2 \in View /\ ShowsTables(view2, table2, gvt)
               /\ AlikeBefore(view, view2, p, src, t)
               /\ view2[p][src][t] = r
               /\ Becomes(view, view2, list, p, src, t, r)
               /\ r = RangeAt(list, t) => SameView(view, view2)
<1> DEFINE new == WithRange(table[p][src], t, r)
           view2 == ToldView(view, p, src, gvt[p], new)
<1>1. PICK list \in Periods(ids) : list = table[p][src]
  BY ListFrom
<1>2. /\ gvt[p] \in Nat /\ Time \subseteq Nat /\ t \in Nat
  BY ListFrom, TimesAreNumbers
<1>3. \A s \in Time : s >= gvt[p] => list[1].time <= s
  BY <1>1, ListFrom
<1>4. r \in KnownRange /\ r # NoRange /\ r \in Framed
  <2>1. r \in Framed /\ r # NoRange
    BY DEF FramedBox
  <2>2. r \in AnyRange
    BY <2>1, FramedFields
  <2> QED
    BY <2>1, <2>2 DEF KnownRange
<1>5. list[1].time <= t /\ RangeAt(list, t) # NoRange
  BY <1>1, <1>3
<1>6. ASSUME NEW s \in Time, s >= gvt[p] PROVE Shows(list, new, t, r, s)
  <2>1. list[1].time <= s
    BY <1>3, <1>6
  <2>2. Shows(list, WithRange(list, t, r), t, r, s)
    BY <1>4, <1>5, <2>1, WithRangeShows
  <2> QED
    BY <1>1, <2>2
<1>7. \A q \in Clp, d \in Direction, s \in Time : view2[q][d][s] =
        IF q = p /\ d = src /\ s >= gvt[p] THEN RangeAt(new, s) ELSE view[q][d][s]
  BY DEF ToldView
<1>8. view2 = [q \in Clp |-> [d \in Direction |-> [s \in Time |-> view2[q][d][s]]]]
  BY Zenon DEF ToldView
<1>9. table2[p][src] = new /\ \A q \in Clp, d \in Direction : q # p \/ d # src => table2[q][d] = table[q][d]
  BY DEF OtherList
<1> HIDE DEF new, view2
<1>10. \A s \in Time : s >= gvt[p] => view[p][src][s] = RangeAt(list, s)
  BY <1>1 DEF ShowsTables
<1>11. ASSUME NEW s \in Time, t <= s, PeriodAt(list, s) = PeriodAt(list, t)
      PROVE  view2[p][src][s] = r
  <2>1. s >= gvt[p]
    <3>1. s \in Nat
      BY <1>2
    <3> QED
      BY <1>2, <1>11, <3>1
  <2>2. RangeAt(new, s) = r
    BY <1>6, <1>11, <2>1 DEF Shows
  <2> QED
    BY <1>7, <2>1, <2>2
<1>12. ASSUME NEW s \in Time, ~(t <= s /\ PeriodAt(list, s) = PeriodAt(list, t))
       PROVE  view2[p][src][s] = view[p][src][s]
  <2>1. CASE s >= gvt[p]
    <3>1. RangeAt(new, s) = RangeAt(list, s)
      BY <1>6, <1>12, <2>1 DEF Shows
    <3> QED
      BY <1>7, <1>10, <2>1, <3>1
  <2>2. CASE ~(s >= gvt[p])
    BY <1>7, <2>2
  <2> QED
    BY <2>1, <2>2
<1>13. \A q \in Clp, d \in Direction, s \in Time : q # p \/ d # src => view2[q][d][s] = view[q][d][s]
  BY <1>7
<1>14. ASSUME NEW q \in Clp, NEW d \in Direction, NEW s \in Time PROVE view2[q][d][s] \in Framed
  <2>1. view[q][d][s] \in Framed
    BY ViewFields
  <2>2. CASE q = p /\ d = src
    BY <1>4, <1>11, <1>12, <2>1, <2>2
  <2>3. CASE ~(q = p /\ d = src)
    BY <1>13, <2>1, <2>3
  <2> QED
    BY <2>2, <2>3
<1>15. view2 \in View
  <2>1. \A q \in Clp, d \in Direction : [s \in Time |-> view2[q][d][s]] \in [Time -> Framed]
    BY <1>14
  <2>2. [q \in Clp |-> [d \in Direction |-> [s \in Time |-> view2[q][d][s]]]]
          \in [Clp -> [Direction -> [Time -> Framed]]]
    BY <2>1
  <2> QED
    BY <1>8, <2>2 DEF View
<1>16. ShowsTables(view2, table2, gvt)
  <2>1. ASSUME NEW q \in Clp, NEW d \in Direction, NEW s \in Time, s >= gvt[q]
        PROVE  view2[q][d][s] = RangeAt(table2[q][d], s)
    <3>1. CASE q = p /\ d = src
      BY <1>7, <1>9, <2>1, <3>1
    <3>2. CASE ~(q = p /\ d = src)
      <4>1. view[q][d][s] = RangeAt(table[q][d], s)
        BY <2>1 DEF ShowsTables
      <4> QED
        BY <1>13, <1>9, <3>2, <4>1
    <3> QED
      BY <3>1, <3>2
  <2> QED
    BY <2>1 DEF ShowsTables
<1>17. AlikeBefore(view, view2, p, src, t)
  <2>1. ASSUME NEW s \in Time, s < t PROVE view2[p][src][s] = view[p][src][s]
    <3>1. ~(t <= s)
      BY <1>2, <2>1
    <3> QED
      BY <1>12, <3>1
  <2> QED
    BY <1>13, <2>1 DEF AlikeBefore
<1>18. view2[p][src][t] = r
  BY <1>2, <1>11
<1>19. ASSUME r = RangeAt(list, t), NEW q \in Clp, NEW d \in Direction, NEW s \in Time
       PROVE  view2[q][d][s] = view[q][d][s]
  <2>1. CASE q # p \/ d # src
    BY <1>13, <2>1
  <2>2. CASE q = p /\ d = src /\ t <= s /\ PeriodAt(list, s) = PeriodAt(list, t)
    <3>1. s >= gvt[p]
      BY <1>2, <2>2
    <3>2. RangeAt(list, s) = RangeAt(list, t)
      BY <2>2 DEF RangeAt, HasRangePeriod
    <3> QED
      BY <1>10, <1>11, <1>19, <2>2, <3>1, <3>2
  <2>3. CASE q = p /\ d = src /\ ~(t <= s /\ PeriodAt(list, s) = PeriodAt(list, t))
    BY <1>12, <2>3
  <2> QED
    BY <2>1, <2>2, <2>3
<1>20. Becomes(view, view2, list, p, src, t, r)
  BY <1>11, <1>12 DEF Becomes
<1>21. r = RangeAt(list, t) => SameView(view, view2)
  BY <1>19 DEF SameView
<1> QED
  BY <1>1, <1>15, <1>16, <1>17, <1>18, <1>20, <1>21 DEF view2, new

UpdateOf(t, r) == [type |-> "update", time |-> t, range |-> r]

LEMMA WhatIsSent ==
    ASSUME NEW p, NEW src, NEW t, NEW r, NEW k
    PROVE  /\ OutOn(k, p, SendRangeUpdates(p, <<>>, src)) = <<>>
           /\ LET out == SendRangeUpdates(p, <<[time |-> t, range |-> r]>>, src)
              IN  IF k[1] = p /\ GetDirectionFromRank(k[1], k[2]) \in ClpPorts(p) \ {src}
                  THEN OutOn(k, p, out) = <<UpdateOf(t, r)>> ELSE OutOn(k, p, out) = <<>>
<1> DEFINE d == GetDirectionFromRank(k[1], k[2])
           ports == ClpPorts(p) \ {src}
           updates == <<[time |-> t, range |-> r]>>
           out == SendRangeUpdates(p, updates, src)
           none == SendRangeUpdates(p, <<>>, src)
           f == [i \in DOMAIN updates |-> [type |-> "update", time |-> updates[i].time,
                                           range |-> updates[i].range]]
           g == [i \in {} |-> i]
<1>1. out = [x \in ports |-> f]
  BY DEF SendRangeUpdates
<1>2. f = <<UpdateOf(t, r)>>
  <2>1. DOMAIN updates = {1} /\ updates[1] = [time |-> t, range |-> r]
    OBVIOUS
  <2>2. f = [i \in {1} |-> UpdateOf(t, r)]
    BY <2>1 DEF UpdateOf
  <2> QED
    BY <2>2
<1>3. \A x \in DOMAIN none : none[x] = <<>>
  <2>1. DOMAIN <<>> = {}
    OBVIOUS
  <2>2. \A x \in DOMAIN none :
          none[x] = [i \in DOMAIN <<>> |-> [type |-> "update", time |-> <<>>[i].time,
                                            range |-> <<>>[i].range]]
    BY DEF SendRangeUpdates
  <2>3. [i \in DOMAIN <<>> |-> [type |-> "update", time |-> <<>>[i].time,
                                range |-> <<>>[i].range]] = <<>>
    BY <2>1
  <2> QED
    BY <2>2, <2>3
<1> HIDE DEF f, none, out
<1>4. OutOn(k, p, none) = <<>>
  BY <1>3 DEF OutOn
<1>5. IF k[1] = p /\ d \in ports THEN OutOn(k, p, out) = <<UpdateOf(t, r)>>
      ELSE OutOn(k, p, out) = <<>>
  BY <1>1, <1>2 DEF OutOn
<1> QED
  BY <1>4, <1>5 DEF none, out

LEMMA NothingIsSent ==
    ASSUME NEW p, NEW src, NEW k
    PROVE  OutOn(k, p, SendRangeUpdates(p, <<>>, src)) = <<>>
  BY WhatIsSent

LEMMA AnnouncedCases ==
    ASSUME NEW list, NEW t, NEW r, r # NoRange
    PROVE  \/ Announced(list, t, r) = <<>> /\ r = RangeAt(list, t)
           \/ Announced(list, t, r) = <<[time |-> t, range |-> r]>>
  BY DEF Announced

\* All others know no more than before, and no less.
OthersHearNoMore(view, view2, links, links2, p, src) ==
    \A l \in ClpLink :
      l[1] # p \/ GetDirectionFromRank(l[1], l[2]) = src =>
        \A s \in Time :
          Heard(links2[l], view2[l[2]][GetDirectionFromRank(l[2], l[1])][s], s)
            \subseteq Heard(links[l], view[l[2]][GetDirectionFromRank(l[2], l[1])][s], s)

TellsOthers(links, links2, p, src, updates) ==
    \A l \in ClpLink :
      l[1] = p /\ GetDirectionFromRank(l[1], l[2]) # src =>
        links2[l] = links[l] \o OutOn(l, p, SendRangeUpdates(p, updates, src))

LEMMA OthersCovered ==
    ASSUME NEW view, NEW view2, NEW links, NEW links2, NEW p \in Clp, NEW src \in Direction,
           NEW t, AlikeBefore(view, view2, p, src, t), LinksCover(view, links),
           OthersHearNoMore(view, view2, links, links2, p, src),
           NEW l \in ClpLink, l[1] # p \/ GetDirectionFromRank(l[1], l[2]) = src
    PROVE  LinkCovers(view2, links2[l], l)
<1> DEFINE out == GetDirectionFromRank(l[1], l[2])
           back == GetDirectionFromRank(l[2], l[1])
<1>1. ASSUME NEW e \in Direction \ {out}, NEW s \in Time,
             NEW x \in Heard(links2[l], view2[l[2]][back][s], s)
      PROVE  Within(view2[l[1]][e][s], x)
  <2>1. x \in Heard(links[l], view[l[2]][back][s], s)
    BY <1>1 DEF OthersHearNoMore
  <2>2. Within(view[l[1]][e][s], x)
    BY <2>1 DEF LinksCover, LinkCovers
  <2>3. view2[l[1]][e][s] = view[l[1]][e][s]
    <3>1. l[1] \in Clp
      BY DEF ClpLink
    <3>2. l[1] # p \/ e # src
      OBVIOUS
    <3> QED
      BY <3>1, <3>2 DEF AlikeBefore
  <2> QED
    BY <2>2, <2>3
<1> QED
  BY <1>1 DEF LinkCovers

\* p tells the receiver of link l, which has nothing to do with port src.
LEMMA ToldIsCovered ==
    ASSUME LinksAgree, NEW view, NEW view2, NEW table2, NEW gvt, NEW p \in Clp, gvt[p] \in Nat,
           NEW src \in Direction, NEW t \in Time, t >= gvt[p], NEW r \in FramedBox,
           ShowsTables(view2, table2, gvt), AlikeBefore(view, view2, p, src, t),
           view2[p][src][t] = r,
           NEW l \in ClpLink, l[1] = p, GetDirectionFromRank(l[1], l[2]) # src,
           Covers(table2[p], p, <<[time |-> t, range |-> r]>>, src),
           CoversLater(table2[p], p, <<[time |-> t, range |-> r]>>, src),
           NEW M, NEW queue \in Seq(M), UpdateOf(t, r) \in M, LinkCovers(view, queue, l)
    PROVE  LinkCovers(view2, queue \o <<UpdateOf(t, r)>>, l)
<1> DEFINE out == GetDirectionFromRank(p, l[2])
           back == GetDirectionFromRank(l[2], p)
           m == UpdateOf(t, r)
           updates == <<[time |-> t, range |-> r]>>
<1>1. l[2] \in Clp /\ l[1] \in Clp /\ l[2] # p
  <2>1. l[2] \in Clp /\ l \in Link
    BY DEF ClpLink
  <2> QED
    BY <2>1, SenderIs
<1>2. m.type = "update" /\ m.time = t /\ m.range = r
  BY DEF UpdateOf
<1>3. out \in ClpPorts(p) \ {src} /\ out \in Direction
  <2>1. l[2] \in Neighbours(p) \cap Clp
    <3>1. l \in Link /\ l = <<l[1], l[2]>>
      BY LinkEnds DEF ClpLink
    <3>2. CASE l[2] \in Neighbours(l[1])
      BY <1>1, <3>2
    <3>3. CASE l[1] \in Neighbours(l[2])
      BY <1>1, <3>3 DEF LinksAgree
    <3> QED
      BY <3>1, <3>2, <3>3 DEF Link
  <2>2. out \in ClpPorts(p)
    BY <2>1 DEF LinksAgree
  <2> QED
    BY <2>2, PortsAreDirections
<1>4. \A e \in Direction \ {out, src} : Within(RangeAt(table2[p][e], t), r)
  <2>1. DOMAIN updates = {1} /\ updates[1].time = t /\ updates[1].range = r
    OBVIOUS
  <2> HIDE DEF updates
  <2> QED
    BY <1>3, <2>1 DEF Covers, updates
<1>5. \A e \in Direction \ {out}, s \in Time : s > t => Within(RangeAt(table2[p][e], s), r)
  <2>1. DOMAIN updates = {1} /\ updates[1].time = t /\ updates[1].range = r
    OBVIOUS
  <2> HIDE DEF updates
  <2> QED
    BY <1>3, <2>1 DEF CoversLater, updates
<1>6. Time \subseteq Nat
  BY TimesAreNumbers
<1> HIDE DEF m, updates
<1>7. ASSUME NEW e \in Direction \ {out}, NEW s \in Time,
             NEW x \in Heard(queue \o <<m>>, view2[l[2]][back][s], s)
      PROVE  Within(view2[p][e][s], x)
  <2>1. CASE s >= t
    <3>1. IsBy(m, s)
      BY <1>2, <2>1 DEF IsBy
    <3>2. x = r
      <4>1. Heard(queue \o <<m>>, view2[l[2]][back][s], s) \subseteq {m.range}
        BY <3>1, HeardLast DEF m
      <4> QED
        BY <1>2, <1>7, <4>1
    <3>3. s >= gvt[p]
      <4>1. s \in Nat /\ t \in Nat
        BY <1>6
      <4> QED
        BY <2>1, <4>1
    <3>4. view2[p][e][s] = RangeAt(table2[p][e], s)
      BY <3>3 DEF ShowsTables
    <3>5. CASE s > t
      BY <1>5, <3>2, <3>4, <3>5
    <3>6. CASE s = t /\ e # src
      BY <1>4, <3>2, <3>4, <3>6
    <3>7. CASE s = t /\ e = src
      <4>1. Within(r, r)
        BY WithinItself DEF FramedBox
      <4> QED
        BY <3>2, <3>7, <4>1
    <3>8. s > t \/ s = t
      <4>1. s \in Nat /\ t \in Nat
        BY <1>6
      <4> QED
        BY <2>1, <4>1
    <3> QED
      BY <3>5, <3>6, <3>7, <3>8
  <2>2. CASE s < t
    <3>1. ~IsBy(m, s)
      <4>1. s \in Nat /\ t \in Nat
        BY <1>6
      <4> QED
        BY <1>2, <2>2, <4>1 DEF IsBy
    <3>2. \A j \in DOMAIN <<m>> : ~IsBy(<<m>>[j], s)
      BY <3>1
    <3>3. <<m>> \in Seq(M)
      BY DEF m
    <3>4. x \in Heard(queue, view2[l[2]][back][s], s)
      BY <1>7, <3>2, <3>3, HeardWithOthers
    <3>5. /\ view2[l[2]][back][s] = view[l[2]][back][s]
          /\ view2[p][e][s] = view[p][e][s]
      <4>1. back \in Direction
        BY <1>1, LinkEnds DEF ClpLink
      <4> QED
        BY <1>1, <2>2, <4>1 DEF AlikeBefore
    <3>6. Within(view[p][e][s], x)
      <4>1. x \in Heard(queue, view[l[2]][back][s], s)
        BY <3>4, <3>5
      <4> QED
        BY <4>1 DEF LinkCovers
    <3> QED
      BY <3>5, <3>6
  <2>3. s >= t \/ s < t
    <3>1. s \in Nat /\ t \in Nat
      BY <1>6
    <3> QED
      BY <3>1
  <2> QED
    BY <2>1, <2>2, <2>3
<1> QED
  BY <1>7 DEF LinkCovers, m

LEMMA TellingCovers ==
    ASSUME LinksAgree, NEW view, NEW view2, NEW table2, NEW gvt, NEW p \in Clp, gvt[p] \in Nat,
           NEW src \in Direction, NEW t \in Time, t >= gvt[p], NEW r \in FramedBox,
           ShowsTables(view2, table2, gvt), AlikeBefore(view, view2, p, src, t),
           view2[p][src][t] = r, NEW updates,
           \/ updates = <<>> /\ SameView(view, view2)
           \/ updates = <<[time |-> t, range |-> r]>>,
           Covers(table2[p], p, updates, src), CoversLater(table2[p], p, updates, src),
           NEW M, UpdateOf(t, r) \in M, NEW links, \A l \in Link : links[l] \in Seq(M),
           NEW links2, LinksCover(view, links),
           OthersHearNoMore(view, view2, links, links2, p, src),
           TellsOthers(links, links2, p, src, updates)
    PROVE  LinksCover(view2, links2)
<1> DEFINE D(q, n) == GetDirectionFromRank(q, n)
<1>1. ASSUME NEW l \in ClpLink, l[1] = p, D(l[1], l[2]) # src
      PROVE  LinkCovers(view2, links2[l], l)
  <2>1. links2[l] = links[l] \o OutOn(l, p, SendRangeUpdates(p, updates, src))
    BY <1>1 DEF TellsOthers
  <2>2. LinkCovers(view, links[l], l)
    BY DEF LinksCover
  <2>3. links[l] \in Seq(M)
    BY DEF ClpLink
  <2>4. CASE updates = <<>> /\ SameView(view, view2)
    <3>1. links2[l] = links[l] \o <<>>
      BY <2>1, <2>4, WhatIsSent
    <3>2. links2[l] = links[l]
      BY <2>3, <3>1
    <3>3. D(l[1], l[2]) \in Direction /\ D(l[2], l[1]) \in Direction /\ l[1] \in Clp /\ l[2] \in Clp
      <4>1. l[1] \in Clp /\ l[2] \in Clp
        BY DEF ClpLink
      <4>2. l[1] \in LpRank /\ l[2] \in LpRank
        BY <4>1, ClpOrAlp
      <4>3. \A x \in Clp, y \in LpRank : D(x, y) \in Direction
        BY DEF LinksAgree
      <4> HIDE DEF D
      <4> QED
        BY ONLY <4>1, <4>2, <4>3
    <3>4. ASSUME NEW e \in Direction \ {D(l[1], l[2])}, NEW s \in Time,
                 NEW x \in Heard(links[l], view2[l[2]][D(l[2], l[1])][s], s)
          PROVE  Within(view2[l[1]][e][s], x)
      <4>1. /\ view2[l[2]][D(l[2], l[1])][s] = view[l[2]][D(l[2], l[1])][s]
            /\ view2[l[1]][e][s] = view[l[1]][e][s]
        BY <2>4, <3>3 DEF SameView
      <4>2. Within(view[l[1]][e][s], x)
        <5>1. x \in Heard(links[l], view[l[2]][D(l[2], l[1])][s], s)
          BY <3>4, <4>1
        <5> QED
          BY <2>2, <5>1 DEF LinkCovers
      <4> QED
        BY <4>1, <4>2
    <3> QED
      BY <3>2, <3>4 DEF LinkCovers
  <2>5. CASE updates = <<[time |-> t, range |-> r]>>
    <3>1. l[2] \in Neighbours(p) \cap Clp
      <4>1. l \in Link /\ l[1] \in Clp /\ l[2] \in Clp
        BY DEF ClpLink
      <4>2. CASE l[2] \in Neighbours(l[1])
        BY <1>1, <4>1, <4>2
      <4>3. CASE l[1] \in Neighbours(l[2])
        BY <1>1, <4>1, <4>3 DEF LinksAgree
      <4> QED
        BY <4>1, <4>2, <4>3 DEF Link
    <3>2. D(p, l[2]) \in ClpPorts(p)
      BY <3>1 DEF LinksAgree
    <3>3. links2[l] = links[l] \o <<UpdateOf(t, r)>>
      BY <1>1, <2>1, <2>5, <3>2, WhatIsSent, SMTT(30)
    <3>4. /\ Covers(table2[p], p, <<[time |-> t, range |-> r]>>, src)
          /\ CoversLater(table2[p], p, <<[time |-> t, range |-> r]>>, src)
      BY <2>5
    <3>5. LinkCovers(view2, links[l] \o <<UpdateOf(t, r)>>, l)
      BY <1>1, <2>2, <2>3, <3>4, ToldIsCovered
    <3> QED
      BY <3>3, <3>5
  <2> QED
    BY <2>4, <2>5
<1>2. ASSUME NEW l \in ClpLink, l[1] # p \/ D(l[1], l[2]) = src
      PROVE  LinkCovers(view2, links2[l], l)
  BY <1>2, OthersCovered
<1> QED
  BY <1>1, <1>2 DEF LinksCover

RangeOrSame(view, view2, p, src, r) ==
    \A s \in Time : view2[p][src][s] = r \/ view2[p][src][s] = view[p][src][s]

LEMMA NoneOnlyTold ==
    ASSUME NEW view, NEW view2, NEW where, NEW p \in Clp, NEW src \in Direction, NEW t,
           NEW r \in FramedBox, NoneOnlyWhere(view, where),
           AlikeBefore(view, view2, p, src, t),
           RangeOrSame(view, view2, p, src, r)
    PROVE  NoneOnlyWhere(view2, where)
<1>1. r # NoRange
  BY DEF FramedBox
<1>2. ASSUME NEW q \in Clp, NEW d \in Direction, NEW s \in Time, Beyond(q, d, where) # {}
      PROVE  view2[q][d][s] # NoRange
  <2>1. view[q][d][s] # NoRange
    BY <1>2 DEF NoneOnlyWhere
  <2>2. CASE q = p /\ d = src
    BY <1>1, <2>1, <2>2 DEF RangeOrSame
  <2>3. CASE q # p \/ d # src
    BY <2>1, <2>3 DEF AlikeBefore
  <2> QED
    BY <2>2, <2>3
<1> QED
  BY <1>2 DEF NoneOnlyWhere

\* What is seen beyond one port is beyond the way back from any other.
LEMMA UpdatesSayStill ==
    ASSUME LinksAgree, NEW links, NEW links2, NEW where, \A v \in Ssv : where[v] \in Clp,
           UpdatesSay(links, where), NEW p \in Clp, NEW src, Beyond(p, src, where) # {},
           NEW t, NEW r \in FramedBox, NEW updates,
           updates = <<>> \/ updates = <<[time |-> t, range |-> r]>>,
           \A k \in Link : \A m \in ToSet(links2[k]) :
             \/ m \in ToSet(links[k])
             \/ m \in ToSet(OutOn(k, p, SendRangeUpdates(p, updates, src)))
    PROVE  UpdatesSay(links2, where)
<1> DEFINE D(q, n) == GetDirectionFromRank(q, n)
<1>1. ASSUME NEW k \in Link, NEW m \in ToSet(links2[k]), m.type = "update"
      PROVE  /\ k \in ClpLink /\ m.range \in FramedBox
             /\ Beyond(k[2], D(k[2], k[1]), where) # {}
  <2>1. CASE m \in ToSet(links[k])
    BY <1>1, <2>1 DEF UpdatesSay
  <2>2. CASE m \in ToSet(OutOn(k, p, SendRangeUpdates(p, updates, src)))
    <3>1. \A x : x \notin ToSet(<<>>)
      BY DEF ToSet
    <3>2. updates = <<[time |-> t, range |-> r]>>
      BY <2>2, <3>1, WhatIsSent
    <3>3. OutOn(k, p, SendRangeUpdates(p, updates, src)) # <<>>
      BY <2>2, <3>1
    <3>4. /\ k[1] = p /\ D(p, k[2]) \in ClpPorts(p) \ {src}
          /\ OutOn(k, p, SendRangeUpdates(p, updates, src)) = <<UpdateOf(t, r)>>
      BY <3>2, <3>3, WhatIsSent
    <3>5. m = UpdateOf(t, r)
      BY <2>2, <3>4 DEF ToSet
    <3>6. PICK n \in Neighbours(p) \cap Clp : D(p, n) = D(p, k[2])
      <4>1. ClpPorts(p) = {GetDirectionFromRank(p, n) : n \in Neighbours(p) \cap Clp}
        BY DEF LinksAgree
      <4> QED
        BY <3>4, <4>1
    <3>7. k[2] \in Neighbours(p)
      <4>1. k[2] \in LpRank /\ k[1] \in LpRank
        BY LinkEnds
      <4>2. CASE k[2] \in Neighbours(k[1])
        BY <3>4, <4>2
      <4>3. CASE k[2] \in Clp /\ k[1] \in Neighbours(k[2])
        BY <3>4, <4>3 DEF LinksAgree
      <4> QED
        BY <4>2, <4>3 DEF Link
    <3>8. k[2] = n
      <4>1. GetRankFromDirection(p, D(p, n)) = n /\ GetRankFromDirection(p, D(p, k[2])) = k[2]
        BY <3>7 DEF LinksAgree
      <4> QED
        BY <3>6, <4>1
    <3>9. k \in ClpLink
      BY <3>4, <3>8 DEF ClpLink
    <3>10. m.range \in FramedBox
      BY <3>5 DEF UpdateOf
    <3>11. PICK v \in Ssv : D(p, where[v]) = src
      BY DEF Beyond
    <3>12. where[v] \in LpRank
      BY ClpOrAlp
    <3>13. D(n, where[v]) = D(n, p)
      <4>1. n \in ClpNeighbours(p)
        BY DEF ClpNeighbours
      <4>2. D(p, where[v]) = D(p, n) <=> D(n, where[v]) # D(n, p)
        BY <3>12, <4>1, BothWays
      <4> QED
        BY <3>4, <3>8, <3>11, <4>2
    <3>14. v \in Beyond(k[2], D(k[2], k[1]), where)
      BY <3>4, <3>8, <3>13 DEF Beyond
    <3> QED
      BY <3>9, <3>10, <3>14
  <2> QED
    BY <2>1, <2>2
<1> QED
  BY <1>1 DEF UpdatesSay

\* The list has no period after t, so the one it has holds from there on.
LEMMA LastHolds ==
    ASSUME NEW ids, NEW list \in Periods(ids), NEW t \in Time, ~(Last(list).time > t),
           NEW s \in Time, t <= s, list[1].time <= t
    PROVE  PeriodAt(list, s) = PeriodAt(list, t)
<1>1. /\ Len(list) \in Nat /\ Len(list) >= 1 /\ DOMAIN list = 1..Len(list)
      /\ \A i \in DOMAIN list : list[i].time \in Nat
      /\ \A i, j \in DOMAIN list : i < j => list[i].time < list[j].time
  BY PeriodsAre
<1>2. t \in Nat /\ s \in Nat
  BY TimesAreNumbers
<1> DEFINE n == Len(list)
<1>3. Last(list) = list[n]
  BY DEF Last
<1>4. n \in DOMAIN list /\ list[n].time <= t /\ list[n].time <= s
  <2>1. n \in DOMAIN list
    BY <1>1
  <2>2. list[n].time \in Nat /\ ~(list[n].time > t)
    BY <1>1, <1>3, <2>1
  <2> QED
    BY <1>2, <2>1, <2>2
<1>5. \A j \in DOMAIN list : j <= n
  BY <1>1
<1>6. Holds(list, n, t) /\ Holds(list, n, s)
  BY <1>4, <1>5 DEF Holds
<1> HIDE DEF n
<1>7. PeriodAt(list, t) = n /\ PeriodAt(list, s) = n
  BY <1>6, HoldsIs
<1> QED
  BY <1>7

MayAnnounce(updates, t, r) == updates = <<>> \/ updates = <<[time |-> t, range |-> r]>>
IsRangeFrom(view, p, src, t, r) == \A s \in Time : s >= t => view[p][src][s] = r
AfterReceipt(links, l, i, out) ==
    \A k \in Link : links[k] = (IF k = l THEN RemoveAt(net[l], i) ELSE net[k]) \o OutOn(k, l[2], out)

\* The message that is taken is the first update on its link.
LEMMA OthersHearUpdate ==
    ASSUME LinksAgree, NEW M, net \in [Link -> Seq(M)], NEW l \in Link, l[1] \in Clp, l[2] \in Clp,
           NEW i \in Receivable(net[l]), net[l][i].type = "update",
           NEW updates, NEW t \in Time, t = net[l][i].time, NEW r, r = net[l][i].range,
           MayAnnounce(updates, t, r), UpdateOf(t, r) \in M,
           NEW view, NEW view2,
           AlikeBefore(view, view2, l[2], GetDirectionFromRank(l[2], l[1]), t),
           IsRangeFrom(view2, l[2], GetDirectionFromRank(l[2], l[1]), t, r),
           NEW out, out = SendRangeUpdates(l[2], updates, GetDirectionFromRank(l[2], l[1])),
           NEW links2, AfterReceipt(links2, l, i, out),
           RemoveAt(net[l], i) \in Seq(M)
    PROVE  OthersHearNoMore(view, view2, net, links2, l[2], GetDirectionFromRank(l[2], l[1]))
<1> DEFINE p == l[2]
           D(q, n) == GetDirectionFromRank(q, n)
           src == D(p, l[1])
<1>1. i \in DOMAIN net[l] /\ \A j \in DOMAIN net[l] : net[l][j].type = "update" => i <= j
  BY FirstUpdate
<1>2. l = <<l[1], l[2]>> /\ l[1] # p /\ l[1] \in Neighbours(p) /\ src \in Direction
  BY LinkEnds, SenderIs
<1>3. /\ \A k \in Link : links2[k] = (IF k = l THEN RemoveAt(net[l], i) ELSE net[k])
                                        \o OutOn(k, p, out)
      /\ \A s \in Time : s >= t => view2[p][src][s] = r
      /\ updates = <<>> \/ updates = <<[time |-> t, range |-> r]>>
  BY DEF AfterReceipt, IsRangeFrom, MayAnnounce
<1>4. ASSUME NEW k \in ClpLink, k[1] # p \/ D(k[1], k[2]) = src, NEW s \in Time
      PROVE  Heard(links2[k], view2[k[2]][D(k[2], k[1])][s], s)
               \subseteq Heard(net[k], view[k[2]][D(k[2], k[1])][s], s)
  <2>1. k \in Link /\ k[1] \in Clp /\ k[2] \in Clp /\ k = <<k[1], k[2]>> /\ D(k[2], k[1]) \in Direction
    BY LinkEnds DEF ClpLink
  <2>2. OutOn(k, p, out) = <<>>
    <3>1. ~(k[1] = p /\ D(k[1], k[2]) \in ClpPorts(p) \ {src})
      BY <1>4
    <3>2. out = SendRangeUpdates(p, updates, src)
      OBVIOUS
    <3> HIDE DEF p, src
    <3>3. CASE updates = <<>>
      BY <3>2, <3>3, NothingIsSent
    <3>4. CASE updates = <<[time |-> t, range |-> r]>>
      BY <3>1, <3>2, <3>4, WhatIsSent
    <3> QED
      BY <1>3, <3>3, <3>4
  <2>3. CASE k = l
    <3> DEFINE queue == net[l]
               known == view[p][src][s]
    <3>1. links2[l] = RemoveAt(queue, i)
      <4>1. links2[l] = RemoveAt(queue, i) \o <<>>
        BY <1>3, <2>2, <2>3
      <4> DEFINE rest == RemoveAt(queue, i)
      <4>2. rest \in Seq(M) /\ links2[l] = rest \o <<>>
        BY <4>1
      <4> HIDE DEF rest
      <4>3. links2[l] = rest
        BY <4>2
      <4> QED
        BY <4>3 DEF rest
    <3>2. queue \in Seq(M) /\ Len(queue) \in Nat /\ DOMAIN queue = 1..Len(queue) /\ i \in 1..Len(queue)
      BY <1>1
    <3>3. PICK n \in Nat : Len(queue) = n /\ i \in 1..n /\ DOMAIN queue = 1..n
      BY <3>2, Zenon
    <3>4. s \in Nat /\ t \in Nat
      BY TimesAreNumbers
    <3>5. CASE s >= t
      <4>1. IsBy(queue[i], s)
        BY <3>4, <3>5 DEF IsBy
      <4>2. \A j \in 1..n : queue[j].type = "update" => i <= j
        BY <1>1, <3>3
      <4>3. queue[i].range = r /\ view2[p][src][s] = r
        BY <1>3, <3>5
      <4> HIDE DEF queue, known, src, p
      <4>4. Heard(RemoveAt(queue, i), queue[i].range, s) \subseteq Heard(queue, known, s)
        BY <3>2, <3>3, <4>1, <4>2, HeardFirst
      <4>5. Heard(links2[l], view2[p][src][s], s) \subseteq Heard(queue, known, s)
        BY <3>1, <4>3, <4>4
      <4> QED
        BY <2>3, <4>5 DEF queue, known, src, p
    <3>6. CASE s < t
      <4>1. ~IsBy(queue[i], s)
        BY <3>4, <3>6 DEF IsBy
      <4>2. view2[p][src][s] = view[p][src][s]
        BY <1>2, <3>6 DEF AlikeBefore
      <4> HIDE DEF queue, src, p
      <4>3. Heard(RemoveAt(queue, i), known, s) \subseteq Heard(queue, known, s)
        BY <3>2, <3>3, <4>1, HeardWithout
      <4>4. Heard(links2[l], view2[p][src][s], s) \subseteq Heard(queue, known, s)
        BY <3>1, <4>2, <4>3
      <4> QED
        BY <2>3, <4>4 DEF queue, src, p
    <3> QED
      BY <3>4, <3>5, <3>6
  <2>4. CASE k # l
    <3>1. links2[k] = net[k]
      <4>1. links2[k] = net[k] \o <<>> /\ net[k] \in Seq(M)
        BY <1>3, <2>1, <2>2, <2>4
      <4> QED
        BY <4>1
    <3>2. k[2] # p \/ D(p, k[1]) # src
      <4> SUFFICES ASSUME k[2] = p, D(p, k[1]) = src PROVE FALSE
        OBVIOUS
      <4>1. k[1] \in Neighbours(p)
        BY <2>1, SenderIs
      <4>2. k[1] = l[1]
        BY <1>2, <4>1, OnePortEach
      <4>3. k = <<l[1], l[2]>>
        BY <2>1, <4>2
      <4> QED
        BY <1>2, <2>4, <4>3
    <3>3. view2[k[2]][D(k[2], k[1])][s] = view[k[2]][D(k[2], k[1])][s]
      BY <2>1, <3>2 DEF AlikeBefore
    <3> QED
      BY <3>1, <3>3
  <2> QED
    BY <2>3, <2>4
<1> QED
  BY <1>4 DEF OthersHearNoMore

\* What a change of the table means for the weaknesses, if there is none of them.
LEMMA RangeUpdateClear ==
    ASSUME NEW p, NEW l, NEW i, ProcessRangeUpdate(p, l, i), Clear(met')
    PROVE  LET m == net[l][i]
               source == GetDirectionFromRank(p, l[1])
               list == fRangeRoutingTable[p][source]
               updates == Announced(list, m.time, m.range)
               lists == [fRangeRoutingTable[p] EXCEPT ![source] = WithRange(list, m.time, m.range)]
           IN  /\ Clear(met) /\ ~(m.time < fGVT[p]) /\ ~(Last(list).time > m.time)
               /\ Covers(lists, p, updates, source) /\ CoversLater(lists, p, updates, source)
<1> DEFINE m == net[l][i]
           source == GetDirectionFromRank(p, l[1])
           list == fRangeRoutingTable[p][source]
           updates == Announced(list, m.time, m.range)
           lists == [fRangeRoutingTable[p] EXCEPT ![source] = WithRange(list, m.time, m.range)]
           flaws == Flaws(p, lists, m.time, updates, source)
<1>1. met' = met \cup flaws
             \cup (IF \E e \in EntriesAt(list, m.time) :
                         e.blocked /\ Crossing(m.range, e.box) THEN {"crossed"} ELSE {})
             \cup (IF m.time < fGVT[p] THEN {"passed"} ELSE {})
             \cup (IF Last(list).time > m.time THEN {"skipped"} ELSE {})
  BY Zenon DEF ProcessRangeUpdate
<1>2. /\ ~Covers(lists, p, updates, source) => "narrowed" \in flaws
      /\ ~CoversLater(lists, p, updates, source) => "early" \in flaws
  <2> HIDE DEF lists, updates, m, list, source
  <2> QED
    BY DEF Flaws
<1> HIDE DEF flaws
<1>3. Clear(met) /\ ~(m.time < fGVT[p]) /\ ~(Last(list).time > m.time)
      /\ "narrowed" \notin flaws /\ "early" \notin flaws
  <2> HIDE DEF list, m
  <2>1. PICK seen : seen = met'
    OBVIOUS
  <2> QED
    BY <1>1 DEF Clear
<1> QED
  BY <1>2, <1>3

LEMMA RangeUpdateTurnsSight ==
    ASSUME LinksAgree, Inv, Clear(met'), NEW view \in View, Sight(view), NEW l \in Link,
           l[2] \in Clp, NEW i \in Receivable(net[l]), ProcessRangeUpdate(l[2], l, i),
           fGVT' = fGVT, home' = home, positions' = positions
    PROVE  LET p == l[2]
               t == net[l][i].time
               src == GetDirectionFromRank(p, l[1])
           IN  \E view2 \in View : /\ Sight(view2)' /\ AlikeBefore(view, view2, p, src, t)
                                   /\ IsRangeFrom(view2, p, src, t, net[l][i].range)
<1> DEFINE p == l[2]
           m == net[l][i]
           t == m.time
           r == m.range
           src == GetDirectionFromRank(p, l[1])
           list == fRangeRoutingTable[p][src]
           updates == Announced(list, t, r)
           new == WithRange(list, t, r)
           lists == [fRangeRoutingTable[p] EXCEPT ![src] = new]
           out == SendRangeUpdates(p, updates, src)
           M == MessageOf(Ids)
<1>1. /\ Clear(met) /\ ~(t < fGVT[p]) /\ ~(Last(list).time > t)
      /\ Covers(lists, p, updates, src) /\ CoversLater(lists, p, updates, src)
  BY RangeUpdateClear
<1>2. Sees(view, fRangeRoutingTable, fGVT, home, positions, net)
  BY DEF Sight
<1>3. /\ AreTables(fRangeRoutingTable, fGVT, Ids) /\ net \in [Link -> Seq(M)]
      /\ home \in [Ssv -> Clp]
  BY ConstantsAssumption DEF Inv, Types, TableTypes, NetTypes, AreMessages, HistoryTypes
<1>4. i \in DOMAIN net[l] /\ m \in M /\ m \in ToSet(net[l])
  <2>1. net[l] \in Seq(M)
    BY <1>3
  <2>2. i \in DOMAIN net[l]
    <3> HIDE DEF M
    <3> QED
      BY <2>1, ReceivableIsThere, SMTT(30)
  <2> QED
    BY <2>1, <2>2 DEF ToSet
<1>5. /\ m.type = "update" /\ fRangeRoutingTable' = [fRangeRoutingTable EXCEPT ![p] = lists]
      /\ net' = Exchanged(l, i, out)
  BY DEF ProcessRangeUpdate
<1>6. t \in Time
  BY <1>4, <1>5, MessageFields
<1>7. l \in ClpLink /\ r \in FramedBox /\ Beyond(p, src, home) # {}
  BY <1>2, <1>4, <1>5 DEF Sees, UpdatesSay
<1>8. l[1] \in Clp /\ l[1] # p /\ src \in Direction /\ src # HERE /\ p \in Clp
  <2>1. l[1] \in Clp /\ l[1] # p /\ src \in Direction
    BY <1>7, SenderIs, LinkEnds DEF ClpLink
  <2>2. l[1] \in LpRank
    BY <2>1, ClpOrAlp
  <2>3. GetDirectionFromRank(p, l[1]) = HERE <=> l[1] = p
    BY <2>2 DEF LinksAgree
  <2> QED
    BY <2>1, <2>3
<1>9. t >= fGVT[p] /\ fGVT[p] \in Nat
  <2>1. fGVT[p] \in Time /\ Time \subseteq Nat
    BY <1>3, <1>8, TimesAreNumbers DEF AreTables
  <2>2. t \in Nat /\ fGVT[p] \in Nat
    BY <1>6, <2>1
  <2> QED
    BY <1>1, <2>2
<1>10. RangeAt(list, t) # NoRange
  <2>1. view[p][src][t] # NoRange
    BY <1>2, <1>6, <1>7, <1>8 DEF Sees, NoneOnlyWhere
  <2>2. view[p][src][t] = RangeAt(fRangeRoutingTable[p][src], t)
    BY <1>2, <1>6, <1>8, <1>9 DEF Sees, ShowsTables
  <2> QED
    BY <2>1, <2>2
<1>11. r # NoRange /\ r \in AnyRange
  <2>1. r # NoRange /\ r \in Framed
    BY <1>7 DEF FramedBox
  <2> QED
    BY <2>1, FramedFields
<1>12. UpdateOf(t, r) \in M
  BY <1>6, <1>11 DEF UpdateOf, MessageOf
<1>13. \/ updates = <<>> /\ r = RangeAt(list, t)
       \/ updates = <<[time |-> t, range |-> r]>>
  BY <1>11, AnnouncedCases
<1>14. PICK table : /\ table = fRangeRoutingTable'
                    /\ OtherList(fRangeRoutingTable, table, p, src, new) /\ table[p] = lists
  <2> HIDE DEF new
  <2>1. fRangeRoutingTable \in [Clp -> [Direction -> Periods(Ids)]]
    BY <1>3 DEF AreTables
  <2>2. lists[src] = new /\ \A d \in Direction : d # src => lists[d] = fRangeRoutingTable[p][d]
    BY <1>8, <2>1
  <2> HIDE DEF lists
  <2>3. PICK table : table = fRangeRoutingTable' /\ table = [fRangeRoutingTable EXCEPT ![p] = lists]
    BY <1>5
  <2>4. table[p] = lists /\ \A q \in Clp : q # p => table[q] = fRangeRoutingTable[q]
    BY <1>8, <2>1, <2>3
  <2>5. OtherList(fRangeRoutingTable, table, p, src, new)
    BY <2>2, <2>4 DEF OtherList
  <2> QED
    BY <2>3, <2>4, <2>5
<1>15. updates \in Seq(Announcement)
  BY <1>6, <1>11, AnnouncedIs
<1>16. \A d \in DOMAIN out : out[d] \in Seq(M)
  BY <1>15, UpdatesMayBeSent DEF MaySend
<1>17. PICK view2 \in View :
         /\ ShowsTables(view2, table, fGVT) /\ AlikeBefore(view, view2, p, src, t)
         /\ view2[p][src][t] = r
         /\ Becomes(view, view2, list, p, src, t, r)
         /\ r = RangeAt(list, t) => SameView(view, view2)
  <2> DEFINE view2 == ToldView(view, p, src, fGVT[p], new)
  <2>1. /\ ShowsTables(view, fRangeRoutingTable, fGVT) /\ AreTables(fRangeRoutingTable, fGVT, Ids)
        /\ t \in Time /\ t >= fGVT[p] /\ r \in FramedBox /\ src \in Direction /\ p \in Clp
        /\ RangeAt(fRangeRoutingTable[p][src], t) # NoRange /\ view \in View
        /\ OtherList(fRangeRoutingTable, table, p, src, WithRange(fRangeRoutingTable[p][src], t, r))
    BY <1>2, <1>3, <1>6, <1>7, <1>8, <1>9, <1>10, <1>14 DEF Sees
  <2>2. new = WithRange(fRangeRoutingTable[p][src], t, r) /\ list = fRangeRoutingTable[p][src]
    OBVIOUS
  <2> HIDE DEF p, t, r, src, list, new
  <2>3. /\ view2 \in View /\ ShowsTables(view2, table, fGVT)
        /\ AlikeBefore(view, view2, p, src, t) /\ view2[p][src][t] = r
    BY ONLY <2>1, <2>2, ToldViewIs
  <2>4. /\ Becomes(view, view2, list, p, src, t, r)
        /\ r = RangeAt(list, t) => SameView(view, view2)
    BY ONLY <2>1, <2>2, ToldViewIs
  <2> HIDE DEF view2
  <2> QED
    BY <2>3, <2>4
<1>18. \A s \in Time : s >= t => view2[p][src][s] = r
  <2>1. PICK lst \in Periods(Ids) : lst = list /\ \A s \in Time : s >= fGVT[p] => lst[1].time <= s
    BY <1>3, <1>8, ListFrom
  <2>2. lst[1].time <= t
    BY <1>6, <1>9, <2>1
  <2>3. ASSUME NEW s \in Time, s >= t PROVE PeriodAt(list, s) = PeriodAt(list, t)
    <3>1. t <= s
      <4>1. s \in Nat /\ t \in Nat
        BY <1>6, TimesAreNumbers
      <4> QED
        BY <2>3, <4>1
    <3>2. ~(Last(lst).time > t)
      BY <1>1, <2>1
    <3>3. PeriodAt(lst, s) = PeriodAt(lst, t)
      BY <1>6, <2>2, <3>1, <3>2, LastHolds
    <3> QED
      BY <2>1, <3>3
  <2>4. \A s \in Time : s >= t => t <= s
    <3>1. Time \subseteq Nat /\ t \in Nat
      BY <1>6, TimesAreNumbers
    <3> QED
      BY <3>1
  <2> QED
    BY <1>17, <2>3, <2>4 DEF Becomes
<1>19. PICK links : links = net' /\ links = Exchanged(l, i, out)
  BY <1>5
<1>20. /\ \A k \in Link : links[k] = (IF k = l THEN RemoveAt(net[l], i) ELSE net[k]) \o OutOn(k, p, out)
       /\ RemoveAt(net[l], i) \in Seq(M)
  <2> HIDE DEF M
  <2>1. Len(net[l]) \in Nat /\ i \in 1..Len(net[l]) /\ net[l] \in Seq(M)
    BY <1>3, <1>4
  <2>2. RemoveAt(net[l], i) \in Seq(M)
    BY <2>1, ElementsLeft
  <2> HIDE DEF out
  <2>3. \A k \in Link : links[k] = (IF k = l THEN RemoveAt(net[k], i) ELSE net[k]) \o OutOn(k, p, out)
    BY <1>19 DEF Exchanged, OutOn
  <2> QED
    BY <2>2, <2>3
<1> HIDE DEF M
<1>21. OthersHearNoMore(view, view2, net, links, p, src)
  <2>1. MayAnnounce(updates, t, r)
    BY <1>13 DEF MayAnnounce
  <2>2. /\ t \in Time /\ t = net[l][i].time /\ r = net[l][i].range /\ l[1] \in Clp /\ net[l][i].type = "update"
        /\ AlikeBefore(view, view2, l[2], GetDirectionFromRank(l[2], l[1]), t)
        /\ IsRangeFrom(view2, l[2], GetDirectionFromRank(l[2], l[1]), t, r)
        /\ out = SendRangeUpdates(l[2], updates, GetDirectionFromRank(l[2], l[1]))
        /\ UpdateOf(t, r) \in M /\ net \in [Link -> Seq(M)]
    BY <1>3, <1>5, <1>6, <1>8, <1>12, <1>17, <1>18, SMTT(30) DEF IsRangeFrom
  <2>3. AfterReceipt(links, l, i, out)
    BY <1>20 DEF AfterReceipt
  <2> HIDE DEF t, r, out, updates
  <2>5. /\ LinksAgree /\ l \in Link /\ l[2] \in Clp /\ i \in Receivable(net[l])
        /\ RemoveAt(net[l], i) \in Seq(M)
    BY <1>20
  <2> HIDE DEF m, p, src, list
  <2>4. OthersHearNoMore(view, view2, net, links, l[2], GetDirectionFromRank(l[2], l[1]))
    BY ONLY <2>1, <2>2, <2>3, <2>5, OthersHearUpdate
  <2> QED
    BY <2>4 DEF p, src
<1>22. TellsOthers(net, links, p, src, updates)
  <2>1. ASSUME NEW k \in ClpLink, k[1] = p PROVE links[k] = net[k] \o OutOn(k, p, out)
    <3>1. k \in Link /\ k # l
      BY <1>8, <2>1 DEF ClpLink
    <3> QED
      BY <1>20, <3>1
  <2> HIDE DEF p, src, updates
  <2> QED
    BY <2>1 DEF TellsOthers
<1>23. LinksCover(view2, links)
  <2>1. /\ p \in Clp /\ fGVT[p] \in Nat /\ src \in Direction /\ t \in Time /\ t >= fGVT[p]
        /\ r \in FramedBox /\ ShowsTables(view2, table, fGVT)
        /\ AlikeBefore(view, view2, p, src, t) /\ view2[p][src][t] = r
    BY <1>6, <1>7, <1>8, <1>9, <1>17
  <2>2. \/ updates = <<>> /\ SameView(view, view2)
        \/ updates = <<[time |-> t, range |-> r]>>
    BY <1>13, <1>17
  <2>3. Covers(table[p], p, updates, src) /\ CoversLater(table[p], p, updates, src)
    BY <1>1, <1>14
  <2>4. UpdateOf(t, r) \in M /\ (\A k \in Link : net[k] \in Seq(M)) /\ LinksCover(view, net)
    BY <1>2, <1>3, <1>12 DEF Sees
  <2> HIDE DEF p, src, t, r, updates
  <2> QED
    BY <1>21, <1>22, <2>1, <2>2, <2>3, <2>4, TellingCovers
<1>24. CoversHere(view2, home, positions)
  <2>1. \A q \in Clp, s \in Time : view2[q][HERE][s] = view[q][HERE][s]
    BY <1>8, <1>17, PortsAreDirections DEF AlikeBefore
  <2> QED
    BY <1>2, <1>3, <2>1 DEF Sees, CoversHere
<1>25. NoneOnlyWhere(view2, home)
  <2>1. RangeOrSame(view, view2, p, src, r)
    BY <1>17 DEF RangeOrSame, Becomes
  <2>2. /\ p \in Clp /\ src \in Direction /\ r \in FramedBox /\ NoneOnlyWhere(view, home)
        /\ AlikeBefore(view, view2, p, src, t)
    BY <1>2, <1>7, <1>8, <1>17 DEF Sees
  <2> HIDE DEF p, src, r, t
  <2> QED
    BY ONLY <2>1, <2>2, NoneOnlyTold
<1>26. UpdatesSay(links, home)
  <2>1. \A k \in Link : \A x \in ToSet(links[k]) :
          x \in ToSet(net[k]) \/ x \in ToSet(OutOn(k, p, out))
    <3>1. ASSUME NEW k \in Link, NEW x \in ToSet(links[k])
          PROVE  x \in ToSet(net[k]) \/ x \in ToSet(OutOn(k, p, out))
      <4> DEFINE rest == IF k = l THEN RemoveAt(net[l], i) ELSE net[k]
      <4>1. links[k] = rest \o OutOn(k, p, out)
        BY <1>20
      <4>2. rest \in Seq(M) /\ OutOn(k, p, out) \in Seq(M)
        BY <1>3, <1>16, <1>20, OutOnIsSeq
      <4>3. ToSet(rest) \subseteq ToSet(net[k])
        <5>1. CASE k # l
          BY <5>1
        <5>2. CASE k = l
          <6>1. net[l] \in Seq(M) /\ Len(net[l]) \in Nat /\ i \in 1..Len(net[l])
            BY <1>3, <1>4
          <6>2. ToSet(RemoveAt(net[l], i)) \subseteq ToSet(net[l])
            BY <6>1, RemoveAtSet
          <6> QED
            BY <5>2, <6>2
        <5> QED
          BY <5>1, <5>2
      <4> HIDE DEF rest, out, p
      <4>4. x \in ToSet(rest) \/ x \in ToSet(OutOn(k, p, out))
        BY <3>1, <4>1, <4>2, ToSetOfConcat
      <4> QED
        BY <4>3, <4>4
    <3> QED
      BY <3>1
  <2>2. /\ p \in Clp /\ r \in FramedBox /\ UpdatesSay(net, home) /\ Beyond(p, src, home) # {}
        /\ \A v \in Ssv : home[v] \in Clp
    BY <1>2, <1>3, <1>7, <1>8 DEF Sees
  <2>3. updates = <<>> \/ updates = <<[time |-> t, range |-> r]>>
    BY <1>13
  <2> HIDE DEF p, src, r, t, updates
  <2> QED
    BY <2>1, <2>2, <2>3, UpdatesSayStill
<1>27. Sees(view2, table, fGVT, home, positions, links)
  BY <1>17, <1>23, <1>24, <1>25, <1>26 DEF Sees
<1>28. Sight(view2)'
  BY <1>14, <1>19, <1>27 DEF Sight
<1>29. IsRangeFrom(view2, p, src, t, r)
  <2> HIDE DEF p, src, t, r
  <2> QED
    BY <1>18 DEF IsRangeFrom
<1> QED
  BY <1>17, <1>28, <1>29

-----------------------------------------------------------------------------
(***************************************************************************)
(* What a write changes of the positions.                                  *)
(***************************************************************************)
\* The write period that holds s starts at m.
Starts(history, m, s) ==
    m \in DOMAIN history /\ m <= s /\ \A x \in DOMAIN history : x <= s => x <= m

LEMMA ReadIs ==
    ASSUME NEW h, AreHistories(h), NEW v \in Ssv, NEW s \in Time, NEW m, Starts(h[v], m, s)
    PROVE  ReadWithoutRecord(h[v], s) = h[v][m]
<1> DEFINE S == {x \in DOMAIN h[v] : x <= s}
<1>1. DOMAIN h[v] \subseteq Nat /\ s \in Nat
  BY TimesAreNumbers DEF AreHistories
<1>2. m \in S /\ \A x \in S : x <= m
  BY DEF Starts
<1>3. S \in SUBSET (0..s)
  BY <1>1
<1>4. ReadWithoutRecord(h[v], s) = h[v][Max(S)]
  BY DEF ReadWithoutRecord
<1> HIDE DEF S
<1>5. Max(S) \in S /\ \A x \in S : x <= Max(S)
  BY <1>1, <1>2, <1>3, MaxFromZero
<1>6. Max(S) \in Nat /\ m \in Nat /\ Max(S) <= m /\ m <= Max(S)
  <2>1. Max(S) \in 0..s /\ m \in 0..s
    BY <1>2, <1>3, <1>5
  <2>2. Max(S) \in Nat /\ m \in Nat
    BY <1>1, <2>1
  <2> QED
    BY <1>2, <1>5, <2>2
<1>7. Max(S) = m
  BY <1>6
<1> QED
  BY <1>4, <1>7

LEMMA StartExists ==
    ASSUME NEW h, AreHistories(h), NEW v \in Ssv, NEW s \in Time
    PROVE  \E m \in Time : Starts(h[v], m, s) /\ ReadWithoutRecord(h[v], s) = h[v][m]
<1> DEFINE S == {x \in DOMAIN h[v] : x <= s}
<1>1. DOMAIN h[v] \subseteq Nat /\ s \in Nat /\ 0 \in DOMAIN h[v] /\ DOMAIN h[v] \subseteq Time
  BY TimesAreNumbers DEF AreHistories
<1>2. 0 \in S
  BY <1>1
<1>3. S \in SUBSET (0..s)
  BY <1>1
<1> HIDE DEF S
<1>4. PICK m \in S : \A x \in S : x <= m
  BY <1>1, <1>2, <1>3, MaxFromZero
<1>5. Starts(h[v], m, s)
  BY <1>4 DEF S, Starts
<1>6. m \in Time
  BY <1>1, <1>4 DEF S
<1> QED
  BY <1>5, <1>6, ReadIs

\* The histories are the same but for what starts at t.
SameButAt(history, history2, t) ==
    \A x \in Time : x # t => /\ x \in DOMAIN history <=> x \in DOMAIN history2
                             /\ x \in DOMAIN history => history2[x] = history[x]

LEMMA ReadBefore ==
    ASSUME NEW h, AreHistories(h), NEW h2, AreHistories(h2), NEW v \in Ssv, NEW t \in Time,
           SameButAt(h[v], h2[v], t), NEW s \in Time, s < t
    PROVE  ReadWithoutRecord(h2[v], s) = ReadWithoutRecord(h[v], s)
<1>1. PICK m \in Time : Starts(h[v], m, s) /\ ReadWithoutRecord(h[v], s) = h[v][m]
  BY StartExists
<1>2. m \in Nat /\ s \in Nat /\ t \in Nat /\ DOMAIN h2[v] \subseteq Time /\ Time \subseteq Nat
  BY TimesAreNumbers DEF AreHistories
<1>3. m \in DOMAIN h[v] /\ m <= s /\ m # t
  BY <1>1, <1>2 DEF Starts
<1>4. m \in DOMAIN h2[v] /\ h2[v][m] = h[v][m]
  BY <1>3 DEF SameButAt
<1>5. ASSUME NEW x \in DOMAIN h2[v], x <= s PROVE x <= m
  <2>1. x \in Time /\ x \in Nat
    BY <1>2
  <2>2. x # t
    BY <1>2, <1>5, <2>1
  <2>3. x \in DOMAIN h[v]
    BY <2>1, <2>2 DEF SameButAt
  <2> QED
    BY <1>1, <1>5, <2>3 DEF Starts
<1>6. Starts(h2[v], m, s)
  BY <1>3, <1>4, <1>5 DEF Starts
<1> QED
  BY <1>1, <1>4, <1>6, ReadIs

LEMMA ReadLater ==
    ASSUME NEW h, AreHistories(h), NEW h2, AreHistories(h2), NEW v \in Ssv, NEW t \in Time,
           SameButAt(h[v], h2[v], t), NEW s \in Time, NEW e \in DOMAIN h[v], t < e, e <= s
    PROVE  ReadWithoutRecord(h2[v], s) = ReadWithoutRecord(h[v], s)
<1>1. PICK m \in Time : Starts(h[v], m, s) /\ ReadWithoutRecord(h[v], s) = h[v][m]
  BY StartExists
<1>2. /\ m \in Nat /\ s \in Nat /\ t \in Nat /\ e \in Nat /\ DOMAIN h2[v] \subseteq Time
      /\ Time \subseteq Nat
  BY TimesAreNumbers DEF AreHistories
<1>3. m \in DOMAIN h[v] /\ m <= s /\ e <= m
  BY <1>1 DEF Starts
<1>4. m # t
  BY <1>2, <1>3
<1>5. m \in DOMAIN h2[v] /\ h2[v][m] = h[v][m]
  BY <1>3, <1>4 DEF SameButAt
<1>6. ASSUME NEW x \in DOMAIN h2[v], x <= s PROVE x <= m
  <2>1. x \in Time /\ x \in Nat
    BY <1>2
  <2>2. CASE x = t
    BY <1>2, <1>3, <2>2
  <2>3. CASE x # t
    <3>1. x \in DOMAIN h[v]
      BY <2>1, <2>3 DEF SameButAt
    <3> QED
      BY <1>1, <1>6, <3>1 DEF Starts
  <2> QED
    BY <2>2, <2>3
<1>7. Starts(h2[v], m, s)
  BY <1>3, <1>5, <1>6 DEF Starts
<1> QED
  BY <1>1, <1>5, <1>7, ReadIs

\* A time that is not before the end of the write period of t is after the next.
LEMMA EndIs ==
    ASSUME NEW h, AreHistories(h), NEW v \in Ssv, NEW t \in Time, NEW s \in Time,
           EndTime(h[v], t) <= s
    PROVE  \E e \in DOMAIN h[v] : t < e /\ e <= s
<1> DEFINE later == {x \in DOMAIN h[v] : x > t}
           S == later \cup {INT_MAX}
<1>1. DOMAIN h[v] \subseteq Nat /\ s \in Nat /\ t \in Nat /\ INT_MAX \in Nat
  BY TimesAreNumbers, LimitIsNumber DEF AreHistories
<1>2. s < INT_MAX
  BY LimitsAssumption
<1>3. EndTime(h[v], t) = Min(S)
  BY DEF EndTime
<1>4. S \in SUBSET Nat /\ S # {}
  BY <1>1
<1> HIDE DEF S
<1>5. Min(S) \in S
  BY <1>4, MinInSet
<1>6. PICK e \in Nat : e = Min(S) /\ e <= s
  BY <1>3, <1>4, <1>5
<1>7. e # INT_MAX
  BY <1>1, <1>2, <1>6
<1>8. e \in later
  BY <1>5, <1>6, <1>7 DEF S
<1>9. e \in DOMAIN h[v] /\ t < e
  BY <1>1, <1>8
<1> QED
  BY <1>6, <1>9

\* A box around the variables of a CLP.
LEMMA RecalculatedIsAround ==
    ASSUME NEW h, AreHistories(h), NEW where, NEW p, NEW t \in Time
    PROVE  /\ RecalculateRange(where, h, p, t) \in Framed
           /\ \A w \in Ssv : where[w] = p =>
                /\ IsValueOverlapping(RecalculateRange(where, h, p, t), ReadWithoutRecord(h[w], t))
                /\ RecalculateRange(where, h, p, t) # NoRange
<1> DEFINE points == {ReadWithoutRecord(h[w], t) : w \in {x \in Ssv : where[x] = p}}
<1>1. points \in SUBSET Point
  BY ReadIsPoint, PointsArePoints
<1>2. ASSUME NEW w \in Ssv, where[w] = p
      PROVE  ReadWithoutRecord(h[w], t) \in points /\ ReadWithoutRecord(h[w], t) # <<INT_MAX, INT_MAX>>
  <2>1. ReadWithoutRecord(h[w], t) \in PointsOf(w)
    BY ReadIsPoint
  <2> QED
    BY <1>2, <2>1, LimitsAssumption DEF PointsOf
<1>3. RecalculateRange(where, h, p, t) = BoxOf(points)
  BY DEF RecalculateRange
<1> HIDE DEF points
<1>4. /\ BoxOf(points) \in Framed
      /\ \A q \in points : IsValueOverlapping(BoxOf(points), q)
      /\ \A q \in points : q # <<INT_MAX, INT_MAX>> => BoxOf(points) # NoRange
  BY <1>1, BoxAround
<1>5. ASSUME NEW w \in Ssv, where[w] = p
      PROVE  /\ IsValueOverlapping(BoxOf(points), ReadWithoutRecord(h[w], t))
             /\ BoxOf(points) # NoRange
  BY <1>2, <1>4, <1>5
<1> QED
  BY <1>3, <1>4, <1>5

\* What the table of the CLP of v says of itself holds of the new positions.
NoneSkipped(list, t, end) == \A k \in DOMAIN list : ~(t < list[k].time /\ list[k].time < end)
NoneOverrun(where, h, p, list, t) ==
    \A w \in Ssv : \A s \in DOMAIN h[w] :
      t < s /\ PeriodAt(list, s) = PeriodAt(list, t) =>
        RecalculateRange(where, h, p, s) = RecalculateRange(where, h, p, t)

LEMMA ReadInPeriod ==
    ASSUME NEW h, AreHistories(h), NEW where, NEW p, NEW ids, NEW list \in Periods(ids),
           NEW t \in Time, NEW s \in Time, t <= s, PeriodAt(list, s) = PeriodAt(list, t),
           list[1].time <= t, NoneOverrun(where, h, p, list, t), NEW w \in Ssv, where[w] = p
    PROVE  IsValueOverlapping(RecalculateRange(where, h, p, t), ReadWithoutRecord(h[w], s))
<1>1. PICK m \in Time : Starts(h[w], m, s) /\ ReadWithoutRecord(h[w], s) = h[w][m]
  BY StartExists
<1>2. m \in Nat /\ s \in Nat /\ t \in Nat /\ DOMAIN h[w] \subseteq Time /\ Time \subseteq Nat
  BY TimesAreNumbers DEF AreHistories
<1>3. m \in DOMAIN h[w] /\ m <= s
  BY <1>1 DEF Starts
<1>4. CASE m <= t
  <2>1. ASSUME NEW x \in DOMAIN h[w], x <= t PROVE x <= m
    <3>1. x \in Nat /\ x <= s
      <4>1. x \in Nat
        BY <1>2
      <4> QED
        BY <1>2, <2>1, <4>1
    <3> QED
      BY <1>1, <3>1 DEF Starts
  <2>2. Starts(h[w], m, t)
    BY <1>3, <1>4, <2>1 DEF Starts
  <2>3. ReadWithoutRecord(h[w], t) = h[w][m]
    BY <2>2, ReadIs
  <2>4. IsValueOverlapping(RecalculateRange(where, h, p, t), ReadWithoutRecord(h[w], t))
    BY RecalculatedIsAround
  <2> QED
    BY <1>1, <2>3, <2>4
<1>5. CASE t < m
  <2>1. Starts(h[w], m, m)
    BY <1>2, <1>3 DEF Starts
  <2>2. ReadWithoutRecord(h[w], m) = h[w][m]
    BY <2>1, ReadIs
  <2>3. PeriodAt(list, m) = PeriodAt(list, t)
    <3>1. PeriodAt(list, t) \in DOMAIN list /\ list[PeriodAt(list, t)].time <= t
      <4>1. Holds(list, PeriodAt(list, t), t)
        BY PeriodHolds
      <4> QED
        BY <4>1 DEF Holds
    <3>2. \A j \in DOMAIN list : list[j].time <= s => j <= PeriodAt(list, t)
      BY PeriodAtIs
    <3>3. \A j \in DOMAIN list : list[j].time \in Nat
      BY PeriodsAre
    <3>4. list[PeriodAt(list, t)].time <= m
      BY <1>2, <1>5, <3>1, <3>3
    <3>5. ASSUME NEW j \in DOMAIN list, list[j].time <= m PROVE j <= PeriodAt(list, t)
      <4>1. list[j].time <= s
        BY <1>2, <1>3, <3>3, <3>5
      <4> QED
        BY <3>2, <4>1
    <3>6. Holds(list, PeriodAt(list, t), m)
      BY <3>1, <3>4, <3>5 DEF Holds
    <3> QED
      BY <3>6, HoldsIs
  <2>4. RecalculateRange(where, h, p, m) = RecalculateRange(where, h, p, t)
    BY <1>3, <1>5, <2>3 DEF NoneOverrun
  <2>5. IsValueOverlapping(RecalculateRange(where, h, p, m), ReadWithoutRecord(h[w], m))
    BY RecalculatedIsAround
  <2> QED
    BY <1>1, <2>2, <2>4, <2>5
<1>6. m <= t \/ t < m
  BY <1>2
<1> QED
  BY <1>4, <1>5, <1>6

\* A period after the one that is changed starts where the position is the old one.
LEMMA ReadAfterPeriod ==
    ASSUME NEW h, AreHistories(h), NEW h2, AreHistories(h2), NEW v \in Ssv, NEW t \in Time,
           SameButAt(h[v], h2[v], t), NEW ids, NEW list \in Periods(ids), list[1].time <= t,
           NoneSkipped(list, t, EndTime(h[v], t)),
           NEW s \in Time, t <= s, PeriodAt(list, s) # PeriodAt(list, t)
    PROVE  ReadWithoutRecord(h2[v], s) = ReadWithoutRecord(h[v], s)
<1>1. /\ \A j \in DOMAIN list : list[j].time \in Nat
      /\ \A i, j \in DOMAIN list : i < j => list[i].time < list[j].time
      /\ DOMAIN list = 1..Len(list) /\ Len(list) \in Nat /\ list[1].time \in Nat
  BY PeriodsAre
<1>2. s \in Nat /\ t \in Nat
  BY TimesAreNumbers
<1>3. list[1].time <= s
  BY <1>1, <1>2
<1> DEFINE i == PeriodAt(list, t)
           k == PeriodAt(list, s)
<1>4. Holds(list, i, t) /\ Holds(list, k, s) /\ i \in 1..Len(list) /\ k \in 1..Len(list)
  BY <1>3, PeriodHolds
<1>5. k # i
  OBVIOUS
<1> HIDE DEF i, k
<1>6. k \in DOMAIN list /\ i \in DOMAIN list /\ list[k].time <= s /\ list[i].time <= t
  BY <1>4 DEF Holds
<1>7. t < list[k].time
  <2>1. list[i].time <= s
    BY <1>1, <1>2, <1>6
  <2>2. i <= k
    BY <1>4, <1>6, <2>1 DEF Holds
  <2>3. ~(k <= i)
    BY <1>1, <1>4, <1>5, <2>2
  <2>4. ~(list[k].time <= t)
    BY <1>4, <1>6, <2>3 DEF Holds
  <2> QED
    BY <1>1, <1>2, <1>6, <2>4
<1>8. ~(list[k].time < EndTime(h[v], t))
  BY <1>6, <1>7 DEF NoneSkipped
<1>9. EndTime(h[v], t) \in Nat
  <2> DEFINE S == {x \in DOMAIN h[v] : x > t} \cup {INT_MAX}
  <2>1. S \in SUBSET Nat /\ S # {}
    BY TimesAreNumbers, LimitIsNumber DEF AreHistories
  <2>2. EndTime(h[v], t) = Min(S)
    BY DEF EndTime
  <2> HIDE DEF S
  <2> QED
    BY <2>1, <2>2, MinInSet
<1>10. EndTime(h[v], t) <= s
  BY <1>1, <1>2, <1>6, <1>8, <1>9
<1>11. PICK e \in DOMAIN h[v] : t < e /\ e <= s
  BY <1>10, EndIs
<1> QED
  BY <1>11, ReadLater

OthersKeep(h, h2, v) == \A w \in Ssv : w # v => h2[w] = h[w]

LEMMA WriteCoversHere ==
    ASSUME NEW h, AreHistories(h), NEW h2, AreHistories(h2), NEW v \in Ssv, NEW t \in Time,
           OthersKeep(h, h2, v), SameButAt(h[v], h2[v], t), NEW where, \A w \in Ssv : where[w] \in Clp,
           NEW view, NEW view2, CoversHere(view, where, h),
           AlikeBefore(view, view2, where[v], HERE, t),
           NEW ids, NEW list \in Periods(ids), list[1].time <= t,
           Becomes(view, view2, list, where[v], HERE, t, RecalculateRange(where, h2, where[v], t)),
           NoneSkipped(list, t, EndTime(h[v], t)), NoneOverrun(where, h2, where[v], list, t)
    PROVE  CoversHere(view2, where, h2)
<1> DEFINE p == where[v]
           r == RecalculateRange(where, h2, p, t)
<1>1. ASSUME NEW w \in Ssv, NEW s \in Time
      PROVE  IsValueOverlapping(view2[where[w]][HERE][s], ReadWithoutRecord(h2[w], s))
  <2>1. IsValueOverlapping(view[where[w]][HERE][s], ReadWithoutRecord(h[w], s))
    BY DEF CoversHere
  <2>2. CASE where[w] = p /\ t <= s /\ PeriodAt(list, s) = PeriodAt(list, t)
    <3>1. view2[where[w]][HERE][s] = r
      BY <2>2 DEF Becomes
    <3>2. IsValueOverlapping(r, ReadWithoutRecord(h2[w], s))
      BY <2>2, ReadInPeriod
    <3> QED
      BY <3>1, <3>2
  <2>3. CASE ~(where[w] = p /\ t <= s /\ PeriodAt(list, s) = PeriodAt(list, t))
    <3>1. view2[where[w]][HERE][s] = view[where[w]][HERE][s]
      <4>1. CASE where[w] = p
        BY <2>3, <4>1 DEF Becomes
      <4>2. CASE where[w] # p
        BY <4>2, PortsAreDirections DEF AlikeBefore
      <4> QED
        BY <4>1, <4>2
    <3>2. ReadWithoutRecord(h2[w], s) = ReadWithoutRecord(h[w], s)
      <4>1. CASE w # v
        BY <4>1 DEF OthersKeep
      <4>2. CASE w = v /\ s < t
        BY <4>2, ReadBefore
      <4>3. CASE w = v /\ t <= s
        <5>1. PeriodAt(list, s) # PeriodAt(list, t)
          BY <2>3, <4>3
        <5> QED
          BY <4>3, <5>1, ReadAfterPeriod
      <4>4. s < t \/ t <= s
        <5>1. s \in Nat /\ t \in Nat
          BY TimesAreNumbers
        <5> QED
          BY <5>1
      <4> QED
        BY <4>1, <4>2, <4>3, <4>4
    <3> QED
      BY <2>1, <3>1, <3>2
  <2> QED
    BY <2>2, <2>3
<1> QED
  BY <1>1 DEF CoversHere

\* What a write and the undoing of a write have in common.
IsWrite(v, t, history) ==
    /\ AreHistories([positions EXCEPT ![v] = history]) /\ Update(v, t, history)
    /\ SameButAt(positions[v], history, t) /\ NotBeforeGvt(t)

LEMMA WriteIsWrite ==
    ASSUME Types, NEW v \in Ssv, NEW t \in WriteTime,
           \/ \E q \in Position[v] : WriteWithRollback(v, t, q)
           \/ RollbackWrite(v, t)
    PROVE  \E history : IsWrite(v, t, history)
<1>1. AreHistories(positions) /\ positions = [w \in Ssv |-> positions[w]]
  BY DEF Types, HistoryTypes
<1>2. t \in Time
  BY DEF Time
<1>3. ASSUME NEW history, 0 \in DOMAIN history, DOMAIN history \subseteq Time,
             \A s \in DOMAIN history : history[s] \in PointsOf(v)
      PROVE  AreHistories([positions EXCEPT ![v] = history])
  BY <1>1, <1>3 DEF AreHistories
<1>4. ASSUME NEW q \in Position[v], WriteWithRollback(v, t, q)
      PROVE  \E h : IsWrite(v, t, h)
  <2> DEFINE history == [s \in DOMAIN positions[v] \cup {t} |->
                           IF s = t THEN q ELSE positions[v][s]]
  <2>1. Update(v, t, history) /\ NotBeforeGvt(t)
    BY <1>4 DEF WriteWithRollback
  <2>2. /\ 0 \in DOMAIN history /\ DOMAIN history \subseteq Time
        /\ \A s \in DOMAIN history : history[s] \in PointsOf(v)
    BY <1>1, <1>2 DEF AreHistories, PointsOf
  <2>3. SameButAt(positions[v], history, t)
    BY DEF SameButAt
  <2> HIDE DEF history
  <2> QED
    BY <1>3, <2>1, <2>2, <2>3 DEF IsWrite
<1>5. ASSUME RollbackWrite(v, t)
      PROVE  \E h : IsWrite(v, t, h)
  <2> DEFINE history == [s \in DOMAIN positions[v] \ {t} |-> positions[v][s]]
  <2>1. Update(v, t, history) /\ t # 0 /\ NotBeforeGvt(t)
    BY <1>5 DEF RollbackWrite
  <2>2. /\ 0 \in DOMAIN history /\ DOMAIN history \subseteq Time
        /\ \A s \in DOMAIN history : history[s] \in PointsOf(v)
    BY <1>1, <2>1 DEF AreHistories
  <2>3. SameButAt(positions[v], history, t)
    BY DEF SameButAt
  <2> HIDE DEF history
  <2> QED
    BY <1>3, <2>1, <2>2, <2>3 DEF IsWrite
<1> QED
  BY <1>4, <1>5

\* Nothing comes in with a write, and what is beyond the ports is not touched.
LEMMA OthersHearWrite ==
    ASSUME LinksAgree, NEW M, net \in [Link -> Seq(M)], NEW p \in Clp, NEW t, NEW r, NEW updates,
           MayAnnounce(updates, t, r), NEW view, NEW view2, AlikeBefore(view, view2, p, HERE, t),
           NEW links2, links2 = Sent(p, SendRangeUpdates(p, updates, HERE))
    PROVE  /\ OthersHearNoMore(view, view2, net, links2, p, HERE)
           /\ TellsOthers(net, links2, p, HERE, updates)
           /\ \A k \in Link : links2[k] = net[k] \o OutOn(k, p, SendRangeUpdates(p, updates, HERE))
<1> DEFINE D(q, n) == GetDirectionFromRank(q, n)
           out == SendRangeUpdates(p, updates, HERE)
<1>1. \A k \in Link : links2[k] = net[k] \o OutOn(k, p, out)
  <2> HIDE DEF out
  <2> QED
    BY DEF Sent, OutOn, out
<1>2. TellsOthers(net, links2, p, HERE, updates)
  BY <1>1 DEF TellsOthers, ClpLink
<1>3. ASSUME NEW k \in ClpLink, k[1] # p \/ D(k[1], k[2]) = HERE, NEW s \in Time
      PROVE  Heard(links2[k], view2[k[2]][D(k[2], k[1])][s], s)
               \subseteq Heard(net[k], view[k[2]][D(k[2], k[1])][s], s)
  <2>1. k \in Link /\ k[1] \in Clp /\ k[2] \in Clp /\ D(k[2], k[1]) \in Direction /\ k[1] # k[2]
    <3>1. k \in Link /\ k[1] \in Clp /\ k[2] \in Clp
      BY DEF ClpLink
    <3> QED
      BY <3>1, LinkEnds, SenderIs
  <2>2. OutOn(k, p, out) = <<>>
    <3>1. CASE updates = <<>>
      BY <3>1, NothingIsSent
    <3>2. CASE updates = <<[time |-> t, range |-> r]>>
      <4>1. ~(k[1] = p /\ D(k[1], k[2]) \in ClpPorts(p) \ {HERE})
        BY <1>3
      <4> QED
        BY <3>2, <4>1, WhatIsSent
    <3> QED
      BY <3>1, <3>2 DEF MayAnnounce
  <2>3. links2[k] = net[k]
    <3>1. links2[k] = net[k] \o <<>> /\ net[k] \in Seq(M)
      BY <1>1, <2>1, <2>2
    <3> QED
      BY <3>1
  <2>4. D(k[2], k[1]) # HERE
    <3>1. k[1] \in LpRank
      BY <2>1, ClpOrAlp
    <3>2. GetDirectionFromRank(k[2], k[1]) = HERE <=> k[1] = k[2]
      BY <2>1, <3>1 DEF LinksAgree
    <3> QED
      BY <2>1, <3>2
  <2>5. view2[k[2]][D(k[2], k[1])][s] = view[k[2]][D(k[2], k[1])][s]
    BY <2>1, <2>4 DEF AlikeBefore
  <2> QED
    BY <2>3, <2>5
<1> QED
  BY <1>1, <1>2, <1>3 DEF OthersHearNoMore

\* No later period of the changed list is before the end of the write period.
LEMMA NoLaterPeriods ==
    ASSUME NEW ids, NEW list \in Periods(ids), NEW t \in Time, NEW range \in KnownRange,
           range # NoRange, list[1].time <= t, NEW end, NoneSkipped(list, t, end)
    PROVE  LaterPeriods(WithRange(list, t, range), t, end) = {}
<1> DEFINE this == WithRange(list, t, range)
           i == PeriodAt(this, t)
<1>1. this \in Periods(ids)
  BY WithRangeKeeps DEF Keeps
<1>2. i \in 0..Len(this) /\ DOMAIN this = 1..Len(this) /\ Len(this) \in Nat
  <2> HIDE DEF this
  <2> QED
    BY <1>1, PeriodAtIs, PeriodsAre
<1>3. ASSUME NEW k \in DOMAIN this, k > i PROVE ~(this[k].time < end)
  <2>1. /\ t < this[k].time
        /\ \E j \in DOMAIN list : list[j].time = this[k].time
    BY <1>3, WithRangeLater
  <2> HIDE DEF this
  <2> QED
    BY <2>1 DEF NoneSkipped
<1>4. ASSUME NEW k \in i + 2 .. Len(this), this[k].time < end PROVE FALSE
  <2>1. k \in DOMAIN this /\ k > i
    <3> HIDE DEF i, this
    <3> QED
      BY <1>2
  <2> QED
    BY <1>3, <1>4, <2>1
<1> HIDE DEF this
<1> QED
  BY <1>4 DEF LaterPeriods, this

LEMMA WriteClear ==
    ASSUME Inv, NEW v \in Ssv, NEW t \in Time, NEW history, Update(v, t, history),
           AreHistories([positions EXCEPT ![v] = history]), Clear(met'),
           fRangeRoutingTable[home[v]][HERE][1].time <= t
    PROVE  LET p == home[v]
               now == [positions EXCEPT ![v] = history]
               range == RecalculateRange(home, now, p, t)
               list == fRangeRoutingTable[p][HERE]
               this == WithRange(list, t, range)
               updates == Announced(list, t, range)
               lists == [fRangeRoutingTable[p] EXCEPT ![HERE] = this]
           IN  /\ Clear(met) /\ NoneSkipped(list, t, EndTime(positions[v], t))
               /\ NoneOverrun(home, now, p, this, t)
               /\ Covers(lists, p, updates, HERE) /\ CoversLater(lists, p, updates, HERE)
               /\ fRangeRoutingTable' = [fRangeRoutingTable EXCEPT ![p] = lists]
               /\ net' = Sent(p, SendRangeUpdates(p, updates, HERE))
<1> DEFINE p == home[v]
           end == EndTime(positions[v], t)
           now == [positions EXCEPT ![v] = history]
           RangeFrom(s) == RecalculateRange(home, now, p, s)
           range == RecalculateRange(home, now, p, t)
           list == fRangeRoutingTable[p][HERE]
           this == WithRange(list, t, range)
           later == IF HasRangePeriod(list, t) THEN LaterPeriods(this, t, end) ELSE {}
           first == Announced(list, t, range)
           more == [n \in 1..Cardinality(later) |->
                      [time |-> t, range |-> RangeFrom(this[Min(later) + n - 1].time)]]
           updates == first \o more
           moved == [k \in DOMAIN this |->
                       IF k \in later THEN [this[k] EXCEPT !.range = RangeFrom(this[k].time)]
                       ELSE this[k]]
           lists == [fRangeRoutingTable[p] EXCEPT ![HERE] = moved]
           flaws == Flaws(p, lists, t, updates, HERE)
           skips == \E k \in DOMAIN list : t < list[k].time /\ list[k].time < end
           overruns == \E s \in UNION {DOMAIN now[w] : w \in Ssv} :
                         /\ t < s /\ PeriodAt(this, s) = PeriodAt(this, t)
                         /\ RangeFrom(s) # RangeFrom(t)
<1>1. met' = met \cup flaws \cup (IF skips THEN {"skipped"} ELSE {})
                 \cup (IF overruns THEN {"overrun"} ELSE {})
  BY Zenon DEF Update
<1>2. fRangeRoutingTable' = [fRangeRoutingTable EXCEPT ![p] = lists]
  BY Zenon DEF Update
<1>3. net' = Sent(p, SendRangeUpdates(p, updates, HERE))
  BY Zenon DEF Update
<1>4. /\ ~Covers(lists, p, updates, HERE) => "narrowed" \in flaws
      /\ ~CoversLater(lists, p, updates, HERE) => "early" \in flaws
  <2> HIDE DEF lists, updates
  <2> QED
    BY DEF Flaws
<1>5. Clear(met) /\ ~skips /\ ~overruns /\ "narrowed" \notin flaws /\ "early" \notin flaws
  <2> HIDE DEF flaws, skips, overruns
  <2> QED
    BY <1>1 DEF Clear
<1> HIDE DEF flaws
<1>6. NoneSkipped(list, t, end)
  <2> HIDE DEF list, end
  <2> QED
    BY <1>5 DEF NoneSkipped
<1>7. NoneOverrun(home, now, p, this, t)
  <2> HIDE DEF this, now, p
  <2> QED
    BY <1>5 DEF NoneOverrun
<1>8. p \in Clp /\ HERE \in Direction /\ AreTables(fRangeRoutingTable, fGVT, Ids) /\ AreHistories(now)
  BY ConstantsAssumption, PortsAreDirections DEF Inv, Types, HistoryTypes, TableTypes
<1>9. list \in Periods(Ids)
  BY <1>8 DEF AreTables
<1>10. range \in KnownRange /\ range \in AnyRange /\ range # NoRange
  <2> HIDE DEF now
  <2>1. range \in AnyRange
    BY <1>8, RecalculatedIsRange
  <2>2. range # NoRange
    BY <1>8, RecalculatedIsAround
  <2> QED
    BY <2>1, <2>2 DEF KnownRange
<1>11. later = {}
  <2>1. list[1].time <= t
    OBVIOUS
  <2> HIDE DEF list, range, end
  <2>2. LaterPeriods(this, t, end) = {}
    BY <1>6, <1>9, <1>10, <2>1, NoLaterPeriods
  <2> QED
    BY <2>2
<1>12. moved = this
  <2> HIDE DEF list, range, later
  <2>1. this \in Periods(Ids)
    BY <1>9, <1>10, WithRangeKeeps DEF Keeps
  <2>2. this \in Seq(Period(Ids))
    BY <2>1, PeriodsAre
  <2> HIDE DEF this
  <2>3. this = [k \in DOMAIN this |-> this[k]]
    BY <2>2
  <2>4. moved = [k \in DOMAIN this |-> this[k]]
    BY <1>11
  <2> QED
    BY <2>3, <2>4
<1>13. updates = first
  <2>1. first \in Seq(Announcement)
    BY <1>10, AnnouncedIs
  <2>2. Cardinality(later) = 0
    <3> HIDE DEF later
    <3> QED
      BY <1>11, FS_EmptySet
  <2> HIDE DEF later, first
  <2>3. more = <<>>
    BY <2>2
  <2> HIDE DEF more
  <2> QED
    BY <2>1, <2>3
<1> HIDE DEF moved, updates
<1>14. lists = [fRangeRoutingTable[p] EXCEPT ![HERE] = this]
  BY <1>12
<1> HIDE DEF lists
<1>15. Covers(lists, p, first, HERE) /\ CoversLater(lists, p, first, HERE)
  BY <1>4, <1>5, <1>13
<1>16. net' = Sent(p, SendRangeUpdates(p, first, HERE))
  BY <1>3, <1>13
<1> QED
  BY <1>2, <1>5, <1>6, <1>7, <1>14, <1>15, <1>16

LEMMA WriteTurnsSight ==
    ASSUME LinksAgree, Inv, Clear(met'), NEW view \in View, Sight(view), NEW v \in Ssv,
           NEW t \in Time, NEW history, IsWrite(v, t, history)
    PROVE  \E view2 \in View : Sight(view2)' /\ AlikeBefore(view, view2, home[v], HERE, t)
<1> DEFINE p == home[v]
           now == [positions EXCEPT ![v] = history]
           r == RecalculateRange(home, now, p, t)
           list == fRangeRoutingTable[p][HERE]
           new == WithRange(list, t, r)
           updates == Announced(list, t, r)
           lists == [fRangeRoutingTable[p] EXCEPT ![HERE] = new]
           out == SendRangeUpdates(p, updates, HERE)
           M == MessageOf(Ids)
<1>1. /\ Update(v, t, history) /\ AreHistories(now) /\ SameButAt(positions[v], history, t)
      /\ NotBeforeGvt(t)
  BY DEF IsWrite
<1>2. /\ AreTables(fRangeRoutingTable, fGVT, Ids) /\ net \in [Link -> Seq(M)]
      /\ home \in [Ssv -> Clp] /\ AreHistories(positions)
      /\ positions = [w \in Ssv |-> positions[w]]
  BY ConstantsAssumption DEF Inv, Types, TableTypes, NetTypes, AreMessages, HistoryTypes
<1>3. p \in Clp /\ HERE \in Direction /\ p \in LpRank
  BY <1>2, PortsAreDirections, ClpOrAlp
<1>4. t >= fGVT[p] /\ fGVT[p] \in Nat
  <2>1. fGVT[p] \in Time
    BY <1>2, <1>3 DEF AreTables
  <2> QED
    BY <1>1, <1>3, <2>1, TimesAreNumbers DEF NotBeforeGvt
<1>5. list \in Periods(Ids) /\ list[1].time <= t
  BY <1>2, <1>3, <1>4, ListFrom
<1>6. /\ positions' = now /\ UNCHANGED <<home, fGVT>>
  BY <1>1, Zenon DEF Update
<1>7. /\ Clear(met) /\ NoneSkipped(list, t, EndTime(positions[v], t))
      /\ NoneOverrun(home, now, p, new, t)
      /\ Covers(lists, p, updates, HERE) /\ CoversLater(lists, p, updates, HERE)
      /\ fRangeRoutingTable' = [fRangeRoutingTable EXCEPT ![p] = lists]
      /\ net' = Sent(p, out)
  <2>1. /\ AreHistories([positions EXCEPT ![v] = history]) /\ Clear(met') /\ Inv
        /\ fRangeRoutingTable[home[v]][HERE][1].time <= t /\ Update(v, t, history)
        /\ v \in Ssv /\ t \in Time
    BY <1>1, <1>5
  <2> QED
    BY ONLY <2>1, WriteClear
<1>8. Sees(view, fRangeRoutingTable, fGVT, home, positions, net)
  BY DEF Sight
<1>9. r \in FramedBox /\ r \in AnyRange /\ r \in KnownRange /\ r # NoRange
  <2> HIDE DEF now, p
  <2>1. r \in Framed /\ r # NoRange
    <3>1. \A w \in Ssv : home[w] = p => r # NoRange
      BY <1>1, RecalculatedIsAround
    <3>2. r \in Framed
      BY <1>1, RecalculatedIsAround
    <3> QED
      BY <3>1, <3>2 DEF p
  <2>2. r \in AnyRange
    BY <2>1, FramedFields
  <2> QED
    BY <2>1, <2>2 DEF FramedBox, KnownRange
<1>10. Beyond(p, HERE, home) # {}
  <2>1. GetDirectionFromRank(p, p) = HERE
    BY <1>3 DEF LinksAgree
  <2> QED
    BY <2>1 DEF Beyond
<1>11. RangeAt(list, t) # NoRange
  <2>1. view[p][HERE][t] # NoRange
    BY <1>3, <1>8, <1>10 DEF Sees, NoneOnlyWhere
  <2>2. view[p][HERE][t] = RangeAt(fRangeRoutingTable[p][HERE], t)
    BY <1>3, <1>4, <1>8 DEF Sees, ShowsTables
  <2> QED
    BY <2>1, <2>2
<1>12. UpdateOf(t, r) \in M
  BY <1>9 DEF UpdateOf, MessageOf
<1> HIDE DEF now
<1>13. \/ updates = <<>> /\ r = RangeAt(list, t)
       \/ updates = <<[time |-> t, range |-> r]>>
  BY <1>9, AnnouncedCases
<1>14. PICK table : /\ table = fRangeRoutingTable'
                    /\ OtherList(fRangeRoutingTable, table, p, HERE, new) /\ table[p] = lists
  <2> HIDE DEF new
  <2>1. fRangeRoutingTable \in [Clp -> [Direction -> Periods(Ids)]]
    BY <1>2 DEF AreTables
  <2>2. lists[HERE] = new /\ \A d \in Direction : d # HERE => lists[d] = fRangeRoutingTable[p][d]
    BY <1>3, <2>1
  <2> HIDE DEF lists
  <2>3. PICK table : table = fRangeRoutingTable' /\ table = [fRangeRoutingTable EXCEPT ![p] = lists]
    BY <1>7
  <2>4. table[p] = lists /\ \A q \in Clp : q # p => table[q] = fRangeRoutingTable[q]
    BY <1>3, <2>1, <2>3
  <2>5. OtherList(fRangeRoutingTable, table, p, HERE, new)
    BY <2>2, <2>4 DEF OtherList
  <2> QED
    BY <2>3, <2>4, <2>5
<1>15. updates \in Seq(Announcement)
  BY <1>9, AnnouncedIs
<1>16. \A d \in DOMAIN out : out[d] \in Seq(M)
  BY <1>15, UpdatesMayBeSent DEF MaySend
<1>17. PICK view2 \in View :
         /\ ShowsTables(view2, table, fGVT) /\ AlikeBefore(view, view2, p, HERE, t)
         /\ view2[p][HERE][t] = r
         /\ Becomes(view, view2, list, p, HERE, t, r)
         /\ r = RangeAt(list, t) => SameView(view, view2)
  <2> DEFINE view2 == ToldView(view, p, HERE, fGVT[p], new)
  <2>1. /\ ShowsTables(view, fRangeRoutingTable, fGVT) /\ AreTables(fRangeRoutingTable, fGVT, Ids)
        /\ t \in Time /\ t >= fGVT[p] /\ r \in FramedBox /\ HERE \in Direction /\ p \in Clp
        /\ RangeAt(fRangeRoutingTable[p][HERE], t) # NoRange /\ view \in View
        /\ OtherList(fRangeRoutingTable, table, p, HERE,
                     WithRange(fRangeRoutingTable[p][HERE], t, r))
    BY <1>2, <1>3, <1>4, <1>8, <1>9, <1>11, <1>14 DEF Sees
  <2>2. new = WithRange(fRangeRoutingTable[p][HERE], t, r) /\ list = fRangeRoutingTable[p][HERE]
    OBVIOUS
  <2> HIDE DEF p, r, list, new
  <2>3. /\ view2 \in View /\ ShowsTables(view2, table, fGVT)
        /\ AlikeBefore(view, view2, p, HERE, t) /\ view2[p][HERE][t] = r
    BY ONLY <2>1, <2>2, ToldViewIs
  <2>4. /\ Becomes(view, view2, list, p, HERE, t, r)
        /\ r = RangeAt(list, t) => SameView(view, view2)
    BY ONLY <2>1, <2>2, ToldViewIs
  <2> HIDE DEF view2
  <2> QED
    BY <2>3, <2>4
<1>18. NoneOverrun(home, now, p, list, t)
  <2>1. ASSUME NEW w \in Ssv, NEW s \in DOMAIN now[w], t < s, PeriodAt(list, s) = PeriodAt(list, t)
        PROVE  RecalculateRange(home, now, p, s) = RecalculateRange(home, now, p, t)
    <3>1. s \in Time /\ s \in Nat /\ t \in Nat
      BY <1>1, TimesAreNumbers DEF AreHistories
    <3>2. list[1].time \in Nat
      BY <1>5, PeriodsAre
    <3>3. list[1].time <= s /\ t <= s
      BY <1>5, <2>1, <3>1, <3>2
    <3> HIDE DEF list, r
    <3>4. Shows(list, WithRange(list, t, r), t, r, s)
      BY <1>5, <1>9, <1>11, <3>1, <3>3, WithRangeShows
    <3>5. PeriodAt(new, s) = PeriodAt(new, t)
      BY <2>1, <3>3, <3>4 DEF Shows
    <3> HIDE DEF new
    <3> QED
      BY <1>7, <2>1, <3>5 DEF NoneOverrun
  <2> HIDE DEF list, p
  <2> QED
    BY <2>1 DEF NoneOverrun
<1>19. PICK links : links = net' /\ links = Sent(p, out)
  BY <1>7
<1> HIDE DEF M
<1>20. /\ OthersHearNoMore(view, view2, net, links, p, HERE)
       /\ TellsOthers(net, links, p, HERE, updates)
       /\ \A k \in Link : links[k] = net[k] \o OutOn(k, p, out)
  <2>1. MayAnnounce(updates, t, r)
    BY <1>13 DEF MayAnnounce
  <2>2. /\ LinksAgree /\ net \in [Link -> Seq(M)] /\ p \in Clp
        /\ AlikeBefore(view, view2, p, HERE, t)
        /\ links = Sent(p, SendRangeUpdates(p, updates, HERE))
    BY <1>2, <1>3, <1>17, <1>19
  <2> HIDE DEF p, r, updates
  <2> QED
    BY ONLY <2>1, <2>2, OthersHearWrite
<1>21. LinksCover(view2, links)
  <2>1. /\ p \in Clp /\ fGVT[p] \in Nat /\ HERE \in Direction /\ t \in Time /\ t >= fGVT[p]
        /\ r \in FramedBox /\ ShowsTables(view2, table, fGVT)
        /\ AlikeBefore(view, view2, p, HERE, t) /\ view2[p][HERE][t] = r
    BY <1>3, <1>4, <1>9, <1>17
  <2>2. \/ updates = <<>> /\ SameView(view, view2)
        \/ updates = <<[time |-> t, range |-> r]>>
    BY <1>13, <1>17
  <2>3. Covers(table[p], p, updates, HERE) /\ CoversLater(table[p], p, updates, HERE)
    BY <1>7, <1>14
  <2>4. UpdateOf(t, r) \in M /\ (\A k \in Link : net[k] \in Seq(M)) /\ LinksCover(view, net)
    BY <1>2, <1>8, <1>12 DEF Sees
  <2> HIDE DEF p, r, updates
  <2> QED
    BY <1>20, <2>1, <2>2, <2>3, <2>4, TellingCovers
<1>22. CoversHere(view2, home, now)
  <2>1. OthersKeep(positions, now, v) /\ now[v] = history
    BY <1>2 DEF OthersKeep, now
  <2>2. /\ AreHistories(positions) /\ AreHistories(now) /\ v \in Ssv /\ t \in Time
        /\ OthersKeep(positions, now, v) /\ SameButAt(positions[v], now[v], t)
        /\ (\A w \in Ssv : home[w] \in Clp) /\ CoversHere(view, home, positions)
        /\ AlikeBefore(view, view2, home[v], HERE, t)
        /\ list \in Periods(Ids) /\ list[1].time <= t
        /\ Becomes(view, view2, list, home[v], HERE, t, RecalculateRange(home, now, home[v], t))
        /\ NoneSkipped(list, t, EndTime(positions[v], t)) /\ NoneOverrun(home, now, home[v], list, t)
    BY <1>1, <1>2, <1>5, <1>7, <1>8, <1>17, <1>18, <2>1 DEF Sees
  <2> HIDE DEF list
  <2> QED
    BY ONLY <2>2, WriteCoversHere
<1>23. NoneOnlyWhere(view2, home)
  <2>1. RangeOrSame(view, view2, p, HERE, r)
    BY <1>17 DEF RangeOrSame, Becomes
  <2>2. /\ p \in Clp /\ HERE \in Direction /\ r \in FramedBox /\ NoneOnlyWhere(view, home)
        /\ AlikeBefore(view, view2, p, HERE, t)
    BY <1>3, <1>8, <1>9, <1>17 DEF Sees
  <2> HIDE DEF p, r
  <2> QED
    BY ONLY <2>1, <2>2, NoneOnlyTold
<1>24. UpdatesSay(links, home)
  <2>1. \A k \in Link : \A x \in ToSet(links[k]) :
          x \in ToSet(net[k]) \/ x \in ToSet(OutOn(k, p, out))
    <3>1. ASSUME NEW k \in Link, NEW x \in ToSet(links[k])
          PROVE  x \in ToSet(net[k]) \/ x \in ToSet(OutOn(k, p, out))
      <4>1. links[k] = net[k] \o OutOn(k, p, out)
        BY <1>20
      <4>2. net[k] \in Seq(M) /\ OutOn(k, p, out) \in Seq(M)
        BY <1>2, <1>16, OutOnIsSeq
      <4> HIDE DEF out, p
      <4> QED
        BY <3>1, <4>1, <4>2, ToSetOfConcat
    <3> QED
      BY <3>1
  <2>2. /\ p \in Clp /\ r \in FramedBox /\ UpdatesSay(net, home) /\ Beyond(p, HERE, home) # {}
        /\ \A w \in Ssv : home[w] \in Clp
    BY <1>2, <1>3, <1>8, <1>9, <1>10 DEF Sees
  <2>3. updates = <<>> \/ updates = <<[time |-> t, range |-> r]>>
    BY <1>13
  <2> HIDE DEF p, r, updates
  <2> QED
    BY <2>1, <2>2, <2>3, UpdatesSayStill
<1>25. Sees(view2, table, fGVT, home, now, links)
  BY <1>17, <1>21, <1>22, <1>23, <1>24 DEF Sees
<1>26. Sight(view2)'
  BY <1>6, <1>14, <1>19, <1>25 DEF Sight
<1> QED
  BY <1>17, <1>26

LEMMA CoveredIfKept ==
    ASSUME Covered, KeepsSight
    PROVE  Covered'
<1>1. ASSUME Clear(met') PROVE \E view \in View : Sight(view)'
  <2>1. Clear(met)
    BY <1>1 DEF Clear, KeepsSight
  <2>2. PICK view \in View : Sight(view)
    BY <2>1 DEF Covered
  <2> QED
    BY <2>2 DEF KeepsSight
<1> QED
  BY <1>1 DEF Covered

LEMMA RangeUpdateCovered ==
    ASSUME LinksAgree, Inv, Covered, NEW l \in Link, l[2] \in Clp, NEW i \in Receivable(net[l]),
           ProcessRangeUpdate(l[2], l, i), fGVT' = fGVT, home' = home, positions' = positions
    PROVE  Covered'
<1>1. ASSUME Clear(met') PROVE \E view \in View : Sight(view)'
  <2>1. Clear(met)
    BY <1>1, RangeUpdateClear
  <2>2. PICK view \in View : Sight(view)
    BY <2>1 DEF Covered
  <2> QED
    BY <1>1, <2>2, RangeUpdateTurnsSight
<1> QED
  BY <1>1 DEF Covered

LEMMA WriteCovered ==
    ASSUME LinksAgree, Inv, Covered, NEW v \in Ssv, NEW t \in Time, NEW history,
           IsWrite(v, t, history)
    PROVE  Covered'
<1>1. met \subseteq met'
  BY Zenon DEF IsWrite, Update
<1>2. ASSUME Clear(met') PROVE \E view \in View : Sight(view)'
  <2>1. Clear(met)
    BY <1>1, <1>2 DEF Clear
  <2>2. PICK view \in View : Sight(view)
    BY <2>1 DEF Covered
  <2> QED
    BY <1>2, <2>2, WriteTurnsSight
<1> QED
  BY <1>2 DEF Covered

LEMMA ReceiveCovered ==
    ASSUME LinksAgree, Inv, Covered, NEW p \in Clp, Receive(p)
    PROVE  Covered'
<1>1. PICK l \in Link : /\ l[2] = p
                       /\ \E i \in Receivable(net[l]) :
                            \/ ProcessNewQuery(p, l, i) \/ ProcessReply(p, l, i)
                            \/ ProcessAntiMessage(p, l, i) \/ ProcessRangeUpdate(p, l, i)
  BY DEF Receive
<1>2. PICK i \in Receivable(net[l]) :
        \/ ProcessNewQuery(p, l, i) \/ ProcessReply(p, l, i)
        \/ ProcessAntiMessage(p, l, i) \/ ProcessRangeUpdate(p, l, i)
  BY <1>1
<1>3. fGVT' = fGVT /\ home' = home /\ positions' = positions
  BY DEF Receive
<1>4. i \in DOMAIN net[l]
  <2>1. net[l] \in Seq(MessageOf(Ids))
    BY DEF Inv, Types, NetTypes, AreMessages
  <2> QED
    BY <2>1, ReceivableIsThere
<1>5. CASE ProcessNewQuery(p, l, i)
  BY <1>1, <1>3, <1>4, <1>5, NewQueryKeepsSight, CoveredIfKept
<1>6. CASE ProcessReply(p, l, i)
  BY <1>1, <1>3, <1>4, <1>6, ReplyKeepsSight, CoveredIfKept
<1>7. CASE ProcessAntiMessage(p, l, i)
  BY <1>1, <1>3, <1>4, <1>7, AntiKeepsSight, CoveredIfKept
<1>8. CASE ProcessRangeUpdate(p, l, i)
  BY <1>1, <1>2, <1>3, <1>8, RangeUpdateCovered
<1> QED
  BY <1>2, <1>5, <1>6, <1>7, <1>8

LEMMA StepCovered ==
    ASSUME LinksAgree, Inv, Covered, [Next]_vars
    PROVE  Covered'
<1>1. Types
  BY DEF Inv
<1>2. CASE UNCHANGED vars
  BY <1>2 DEF Covered, Sight, vars
<1>3. ASSUME NEW a \in Alps, NEW t \in QueryTime, NEW box \in Box, RangeQuery(a, t, box)
      PROVE  Covered'
  BY <1>3, QueryKeepsSight, CoveredIfKept
<1>4. ASSUME NEW a \in Alps, NEW t \in QueryTime, ProcessRollback(a, t) PROVE Covered'
  BY <1>4, RollbackKeepsSight, CoveredIfKept
<1>5. ASSUME NEW a \in Alps, ReceiveAnswer(a) PROVE Covered'
  BY <1>5, AnswerKeepsSight, CoveredIfKept
<1>6. ASSUME NEW p \in Clp, Receive(p) PROVE Covered'
  BY <1>6, ReceiveCovered
<1>7. ASSUME NEW p \in Clp, NEW t \in GvtTime, SetGvt(p, t) PROVE Covered'
  BY <1>7, GvtKeepsSight, CoveredIfKept
<1>8. ASSUME NEW v \in Ssv, NEW t \in WriteTime,
              \/ \E q \in Position[v] : WriteWithRollback(v, t, q)
              \/ RollbackWrite(v, t)
      PROVE  Covered'
  <2>1. PICK history : IsWrite(v, t, history)
    BY <1>1, <1>8, WriteIsWrite
  <2>2. t \in Time
    BY DEF Time
  <2> QED
    BY <2>1, <2>2, WriteCovered
<1> QED
  BY <1>2, <1>3, <1>4, <1>5, <1>6, <1>7, <1>8 DEF Next

-----------------------------------------------------------------------------
(***************************************************************************)
(* What is known far from a variable is around what is known nearer to it. *)
(***************************************************************************)
LEMMA HeardAll ==
    ASSUME NEW M, NEW queue \in Seq(M), \A m \in ToSet(queue) : m.type # "update", NEW known, NEW t
    PROVE  known \in Heard(queue, known, t)
<1>1. \A j \in DOMAIN queue : ~IsBy(queue[j], t)
  BY NotBy
<1> QED
  BY <1>1, HeardIs

IsKnown(view, p, v, t) ==
    IsValueOverlapping(view[p][GetDirectionFromRank(p, home[v])][t],
                       ReadWithoutRecord(positions[v], t))

\* If a neighbour has a box around the variable, so has the CLP.
LEMMA KnownFromNeighbour ==
    ASSUME LinksAgree, Inv, NoUpdateUnderWay, NEW view \in View, LinksCover(view, net),
           NoneOnlyWhere(view, home), NEW v \in Ssv, NEW t \in Time,
           NEW p \in Clp, NEW n \in Neighbours(p) \cap Clp,
           GetDirectionFromRank(p, home[v]) = GetDirectionFromRank(p, n),
           IsKnown(view, n, v, t)
    PROVE  IsKnown(view, p, v, t)
<1> DEFINE D(q, r) == GetDirectionFromRank(q, r)
           e == D(n, home[v])
           q == ReadWithoutRecord(positions[v], t)
<1>1. PICK l \in Link : l = <<n, p>>
  <2>1. p \in Neighbours(n) /\ n \in LpRank /\ p \in LpRank
    BY ClpOrAlp DEF LinksAgree
  <2>2. <<n, p>> \in Link
    BY <2>1 DEF Link
  <2> QED
    BY <2>2
<1>2. l \in ClpLink /\ l[1] = n /\ l[2] = p
  BY <1>1 DEF ClpLink
<1>3. home[v] \in Clp /\ home[v] \in LpRank
  BY ClpOrAlp, ConstantsAssumption DEF Inv, Types, HistoryTypes
<1>4. e # D(n, p) /\ e \in Direction /\ D(p, n) \in Direction
  <2>1. D(p, home[v]) = D(p, n) <=> D(n, home[v]) # D(n, p)
    BY <1>3 DEF LinksAgree
  <2>2. n \in LpRank
    BY ClpOrAlp
  <2> QED
    BY <1>3, <2>1, <2>2 DEF LinksAgree
<1>5. net[l] \in Seq(MessageOf(Ids)) /\ \A m \in ToSet(net[l]) : m.type # "update"
  BY DEF Inv, Types, NetTypes, AreMessages, NoUpdateUnderWay
<1>6. view[p][D(p, n)][t] \in Heard(net[l], view[p][D(p, n)][t], t)
  BY <1>5, HeardAll
<1>7. Within(view[n][e][t], view[p][D(p, n)][t])
  <2>1. LinkCovers(view, net[l], l)
    BY <1>2 DEF LinksCover
  <2>2. \A r \in Heard(net[l], view[p][D(p, n)][t], t) : Within(view[n][e][t], r)
    BY <1>2, <1>4, <2>1 DEF LinkCovers
  <2> QED
    BY <1>6, <2>2
<1>8. view[n][e][t] \in Framed /\ view[p][D(p, n)][t] \in Framed
  BY <1>4, ViewFields
<1>9. view[n][e][t] # NoRange
  <2>1. v \in Beyond(n, e, home)
    BY DEF Beyond
  <2> QED
    BY <1>4, <2>1 DEF NoneOnlyWhere
<1>10. q \in Point
  BY ReadIsPoint, PointsArePoints DEF Inv, Types, HistoryTypes
<1>11. IsValueOverlapping(view[n][e][t], q)
  BY DEF IsKnown
<1> HIDE DEF e, q, D
<1>12. IsValueOverlapping(view[p][D(p, n)][t], q)
  BY <1>7, <1>8, <1>9, <1>10, <1>11, WithinHolds
<1> QED
  BY <1>12 DEF IsKnown, D, q

\* Who is where the variable is knows it; the others have it from there.
LEMMA KnownEverywhere ==
    ASSUME LinksAgree, WaysAgree, Inv, NoUpdateUnderWay, NEW view \in View,
           LinksCover(view, net), NoneOnlyWhere(view, home), CoversHere(view, home, positions),
           NEW v \in Ssv, NEW t \in Time, NEW p \in Clp
    PROVE  IsKnown(view, p, v, t)
<1> SUFFICES ASSUME ~IsKnown(view, p, v, t) PROVE FALSE
  OBVIOUS
<1> DEFINE D(q, r) == GetDirectionFromRank(q, r)
           h == home[v]
           Bad == {q \in Clp : ~IsKnown(view, q, v, t)}
           Toward(q) == {r \in Clp : D(q, r) = D(q, h)}
<1>1. h \in Clp /\ h \in LpRank
  BY ClpOrAlp, ConstantsAssumption DEF Inv, Types, HistoryTypes
<1>2. h \notin Bad
  <2>1. D(h, h) = HERE
    BY <1>1 DEF LinksAgree
  <2>2. IsValueOverlapping(view[h][HERE][t], ReadWithoutRecord(positions[v], t))
    BY DEF CoversHere
  <2> QED
    BY <2>1, <2>2 DEF IsKnown
<1>3. PICK q \in Bad : \A r \in Bad : Toward(r) \subseteq Toward(q) => Toward(r) = Toward(q)
  <2> DEFINE B == {Toward(r) : r \in Bad}
  <2>1. IsFiniteSet(Clp)
    <3>1. 0 \in Int /\ C - 1 \in Int
      BY RoutingAssumption
    <3> QED
      BY <3>1, FS_Interval DEF Clp
  <2>2. B \in SUBSET (SUBSET Clp) /\ B # {}
    BY Zenon
  <2> HIDE DEF B
  <2>3. PICK T \in B : \A U \in B : U \subseteq T => U = T
    BY <2>1, <2>2, SmallestSet
  <2>4. PICK q \in Bad : T = Toward(q)
    BY <2>3 DEF B
  <2>5. \A r \in Bad : Toward(r) \in B
    BY DEF B
  <2> HIDE DEF Toward, Bad
  <2> QED
    BY <2>3, <2>4, <2>5
<1>4. q \in Clp /\ q \in LpRank /\ h # q
  BY <1>2, <1>3, ClpOrAlp
<1>5. PICK n \in Neighbours(q) : D(q, h) = D(q, n)
  BY <1>1, <1>4 DEF WaysAgree
<1>6. n \in LpRank
  BY <1>4, <1>5 DEF LinksAgree
<1>7. n \in Clp
  <2> SUFFICES ASSUME n \notin Clp PROVE FALSE
    OBVIOUS
  <2>1. n \in Neighbours(q) \cap Alps
    BY <1>5, <1>6 DEF LpRank, Clp, Alps
  <2>2. h = n
    BY <1>1, <1>4, <1>5, <2>1 DEF LinksAgree
  <2> QED
    BY <1>1, <2>2
<1>8. n \in Bad
  <2>1. ~IsKnown(view, q, v, t)
    BY <1>3
  <2>2. n \in Neighbours(q) \cap Clp
    BY <1>5, <1>7
  <2> HIDE DEF Bad, Toward
  <2>3. ~IsKnown(view, n, v, t)
    BY <1>4, <1>5, <2>1, <2>2, KnownFromNeighbour
  <2> QED
    BY <1>7, <2>3 DEF Bad
<1>9. \A r \in LpRank : D(q, r) = D(q, n) <=> D(n, r) # D(n, q)
  BY <1>4, <1>5, <1>7 DEF LinksAgree
<1>10. Toward(n) \subseteq Toward(q)
  <2> SUFFICES ASSUME NEW r \in Clp, D(n, r) = D(n, h) PROVE D(q, r) = D(q, h)
    OBVIOUS
  <2>1. r \in LpRank
    BY ClpOrAlp
  <2>2. D(n, h) # D(n, q)
    BY <1>1, <1>5, <1>9
  <2> QED
    BY <1>5, <1>9, <2>1, <2>2
<1>11. n \in Toward(q)
  BY <1>5, <1>7
<1>12. n \notin Toward(n)
  <2>1. n # h
    BY <1>2, <1>8
  <2>2. D(n, n) = HERE /\ D(n, h) # HERE
    BY <1>1, <1>6, <1>7, <2>1 DEF LinksAgree
  <2> QED
    BY <2>2
<1> QED
  BY <1>3, <1>8, <1>10, <1>11, <1>12

LEMMA CoveredIsEnough ==
    ASSUME LinksAgree, WaysAgree, Inv, Covered
    PROVE  RangesCoverVariables
<1> SUFFICES ASSUME NoUpdateUnderWay, Clear(met), NEW p \in Clp, NEW d \in Direction,
                    NEW t \in Time, t >= fGVT[p], NEW v \in Beyond(p, d, home)
             PROVE  IsValueOverlapping(RangeAt(fRangeRoutingTable[p][d], t),
                                       ReadWithoutRecord(positions[v], t))
  BY DEF RangesCoverVariables, Clear
<1>1. PICK view \in View : Sees(view, fRangeRoutingTable, fGVT, home, positions, net)
  BY DEF Covered, Sight
<1>2. v \in Ssv /\ GetDirectionFromRank(p, home[v]) = d
  BY DEF Beyond
<1>3. /\ LinksCover(view, net) /\ NoneOnlyWhere(view, home)
      /\ CoversHere(view, home, positions)
  BY <1>1 DEF Sees
<1>4. IsKnown(view, p, v, t)
  BY <1>2, <1>3, KnownEverywhere
<1>5. view[p][d][t] = RangeAt(fRangeRoutingTable[p][d], t)
  BY <1>1 DEF Sees, ShowsTables
<1> QED
  BY <1>2, <1>4, <1>5 DEF IsKnown

-----------------------------------------------------------------------------
(***************************************************************************)
(* The ranges that a start-up configuration gives.                         *)
(***************************************************************************)
\* Boxes as preloading leaves them: max is not always beyond min.
Preloaded == {b \in [min: Point, max: Point] : b.min # <<INT_MAX, INT_MAX>>}

LEMMA BoxOfPoints ==
    ASSUME NEW points \in SUBSET Point, points # {}
    PROVE  /\ BoxOf(points).min \in Point /\ BoxOf(points).max \in Point
           /\ \A q \in points : BoxOf(points).min = <<INT_MAX, INT_MAX>> => q = <<INT_MAX, INT_MAX>>
<1>1. BoxOf(points) \in Framed /\ \A q \in points : IsValueOverlapping(BoxOf(points), q)
  BY BoxAround
<1>2. BoxOf(points).min \in Point /\ BoxOf(points).max \in Point
  BY <1>1 DEF Framed
<1>3. ASSUME NEW q \in points, BoxOf(points).min = <<INT_MAX, INT_MAX>>
      PROVE  q = <<INT_MAX, INT_MAX>>
  <2>1. /\ q \in Point /\ q[1] \in Nat /\ q[2] \in Nat /\ INT_MAX \in Nat
        /\ q[1] <= INT_MAX /\ q[2] <= INT_MAX /\ q = <<q[1], q[2]>>
    BY PointFields, LimitIsNumber
  <2>2. BoxOf(points).min[1] = INT_MAX /\ BoxOf(points).min[2] = INT_MAX
    BY <1>3
  <2>3. INT_MAX <= q[1] /\ INT_MAX <= q[2]
    BY <1>1, <2>2 DEF IsValueOverlapping
  <2>4. q[1] = INT_MAX /\ q[2] = INT_MAX
    BY <2>1, <2>3
  <2> QED
    BY <2>1, <2>4
<1> QED
  BY <1>2, <1>3

LEMMA PointIsPreloaded ==
    ASSUME NEW box \in {NoRange} \cup Preloaded, NEW q \in Point, q # <<INT_MAX, INT_MAX>>
    PROVE  WithPoint(box, q) \in Preloaded
<1>1. CASE box = NoRange
  <2>1. BoxOf({q}).min \in Point /\ BoxOf({q}).max \in Point
        /\ BoxOf({q}).min # <<INT_MAX, INT_MAX>>
    BY BoxOfPoints
  <2>2. BoxOf({q}) = [min |-> BoxOf({q}).min, max |-> BoxOf({q}).max]
    BY DEF BoxOf
  <2>3. BoxOf({q}) \in Preloaded
    BY <2>1, <2>2 DEF Preloaded
  <2> QED
    BY <1>1, <2>3 DEF WithPoint
<1>2. CASE box # NoRange
  <2>1. box \in [min: Point, max: Point] /\ box.min # <<INT_MAX, INT_MAX>>
    BY <1>2 DEF Preloaded
  <2>2. box.min \in Point /\ box.max \in Point
    BY <2>1
  <2>3. BoxOf({box.max, q}).max \in Point
    BY <2>2, BoxOfPoints
  <2>4. BoxOf({box.min, q}).min \in Point /\ BoxOf({box.min, q}).min # <<INT_MAX, INT_MAX>>
    BY <2>2, BoxOfPoints
  <2>5. \/ WithPoint(box, q) = [box EXCEPT !.max = BoxOf({box.max, q}).max]
        \/ WithPoint(box, q) = [box EXCEPT !.min = BoxOf({box.min, q}).min]
        \/ WithPoint(box, q) = box
    BY <1>2 DEF WithPoint
  <2>6. /\ [box EXCEPT !.max = BoxOf({box.max, q}).max] \in Preloaded
        /\ [box EXCEPT !.min = BoxOf({box.min, q}).min] \in Preloaded
    BY <2>1, <2>3, <2>4 DEF Preloaded
  <2> QED
    BY <1>2, <2>5, <2>6
<1> QED
  BY <1>1, <1>2

\* The box of r once v is preloaded.
GivenTo(r, where, box, v) ==
    IF where[v] = r THEN WithPoint(box, InitialPosition[v]) ELSE box

LEMMA GivenIsPreloaded ==
    ASSUME NEW r, NEW where, NEW box \in {NoRange} \cup Preloaded, NEW v \in Ssv
    PROVE  IF where[v] = r THEN GivenTo(r, where, box, v) \in Preloaded
           ELSE GivenTo(r, where, box, v) = box
<1>1. InitialPosition[v] \in Point
  BY ConstantsAssumption
<1>2. InitialPosition[v] # <<INT_MAX, INT_MAX>>
  BY LimitsAssumption
<1> QED
  BY <1>1, <1>2, PointIsPreloaded DEF GivenTo

LEMMA ClpRangeIs ==
    ASSUME NEW where, NEW r
    PROVE  IF \E v \in Ssv : where[v] = r THEN ClpRange(r, where) \in Preloaded
           ELSE ClpRange(r, where) = NoRange
<1>1. PICK n \in Nat : n = Len(PreloadOrder) /\ DOMAIN PreloadOrder = 1..n
  BY ConstantsAssumption
<1>2. (\A i \in 1..n : PreloadOrder[i] \in Ssv) /\ \A v \in Ssv : \E i \in 1..n : PreloadOrder[i] = v
  BY <1>1, ConstantsAssumption DEF ToSet
<1> DEFINE V == {NoRange} \cup Preloaded
           IsFold(it) == it = [s \in SUBSET (1..n) |->
                                 IF s = {} THEN NoRange
                                 ELSE GivenTo(r, where, it[s \ {Max(s)}], PreloadOrder[Max(s)])]
<1>3. ClpRange(r, where) = (CHOOSE it : IsFold(it))[1..n]
  BY <1>1, Zenon DEF ClpRange, FoldLeft, MapThenFoldSet, GivenTo
<1>4. \E it : IsFold(it)
  <2> DEFINE f == [x \in (1..n) \X V |-> GivenTo(r, where, x[2], PreloadOrder[x[1]])]
  <2>1. \A i \in 1..n, b \in V : GivenTo(r, where, b, PreloadOrder[i]) \in V
    <3> SUFFICES ASSUME NEW i \in 1..n, NEW b \in V
                 PROVE  GivenTo(r, where, b, PreloadOrder[i]) \in V
      OBVIOUS
    <3>1. PreloadOrder[i] \in Ssv
      BY <1>2
    <3> QED
      BY <3>1, GivenIsPreloaded
  <2>2. f \in [(1..n) \X V -> V]
    BY <2>1
  <2>3. NoRange \in V
    OBVIOUS
  <2>4. \A i \in 1..n, b \in V : f[<<i, b>>] = GivenTo(r, where, b, PreloadOrder[i])
    OBVIOUS
  <2> HIDE DEF f, V
  <2>5. PICK it \in [SUBSET (1..n) -> V] : IsFoldOf(it, f, NoRange, n)
    BY <2>2, <2>3, FoldExists
  <2>6. ASSUME NEW s \in SUBSET (1..n)
        PROVE  it[s] = IF s = {} THEN NoRange
                       ELSE GivenTo(r, where, it[s \ {Max(s)}], PreloadOrder[Max(s)])
    <3>1. it[s] = IF s = {} THEN NoRange ELSE f[<<Max(s), it[s \ {Max(s)}]>>]
      BY <2>5 DEF IsFoldOf
    <3>2. s # {} => Max(s) \in 1..n /\ it[s \ {Max(s)}] \in V
      BY <2>5, MaxInSet
    <3> QED
      BY <2>4, <3>1, <3>2
  <2> QED
    BY <2>5, <2>6
<1>5. PICK it : IsFold(it) /\ ClpRange(r, where) = it[1..n]
  BY <1>3, <1>4
<1> DEFINE Its(s) == \E i \in s : where[PreloadOrder[i]] = r
           Right(s) == IF Its(s) THEN it[s] \in Preloaded ELSE it[s] = NoRange
           B == {s \in SUBSET (1..n) : ~Right(s)}
<1>6. B = {}
  <2> SUFFICES ASSUME B # {} PROVE FALSE
    OBVIOUS
  <2>1. PICK T \in B : \A U \in B : U \subseteq T => U = T
    <3>1. B \in SUBSET (SUBSET (1..n)) /\ IsFiniteSet(1..n)
      BY FS_Interval
    <3> HIDE DEF B
    <3>2. PICK S : S = 1..n
      OBVIOUS
    <3>3. IsFiniteSet(S) /\ B \in SUBSET (SUBSET S) /\ B # {}
      BY <3>1, <3>2, Zenon
    <3>4. \E T \in B : \A U \in B : U \subseteq T => U = T
      BY <3>3, SmallestSet
    <3> QED
      BY <3>4
  <2>2. T \in SUBSET (1..n) /\ T # {}
    <3>1. it[{}] = NoRange
      BY <1>5
    <3>2. Right({})
      BY <3>1
    <3>3. T \in SUBSET (1..n) /\ ~Right(T)
      BY <2>1
    <3> HIDE DEF Right
    <3> QED
      BY <3>2, <3>3
  <2> DEFINE x == Max(T)
             U == T \ {x}
             v == PreloadOrder[x]
  <2>3. x \in T
    BY <2>2, MaxInSet
  <2>4. it[T] = GivenTo(r, where, it[U], v)
    BY <1>5, <2>2
  <2> HIDE DEF x
  <2>5. Right(U)
    <3>1. U \in SUBSET (1..n) /\ U \subseteq T /\ U # T
      BY <2>2, <2>3
    <3> HIDE DEF Right, U
    <3> QED
      BY <2>1, <3>1
  <2>6. v \in Ssv /\ it[U] \in {NoRange} \cup Preloaded
    BY <1>2, <2>2, <2>3, <2>5
  <2>7. IF where[v] = r THEN it[T] \in Preloaded ELSE it[T] = it[U]
    BY <2>4, <2>6, GivenIsPreloaded
  <2>8. Its(T) <=> where[v] = r \/ Its(U)
    BY <2>3
  <2>9. Right(T)
    BY <2>5, <2>7, <2>8
  <2> QED
    BY <2>1, <2>9
<1>7. Right(1..n)
  BY <1>6
<1>8. Its(1..n) <=> \E v \in Ssv : where[v] = r
  BY <1>2
<1> QED
  BY <1>5, <1>7, <1>8

CornersBeyond(p, d, where) ==
    UNION {{ClpRange(r, where).min, ClpRange(r, where).max} :
             r \in {q \in Clp : GetDirectionFromRank(p, q) = d /\ ClpRange(q, where) # NoRange}}

LEMMA CornersArePoints ==
    ASSUME NEW p, NEW d, NEW where
    PROVE  /\ CornersBeyond(p, d, where) \in SUBSET Point
           /\ CornersBeyond(p, d, where) # {} => BoxOf(CornersBeyond(p, d, where)) # NoRange
           /\ \A v \in Ssv : where[v] \in Clp /\ GetDirectionFromRank(p, where[v]) = d
                => CornersBeyond(p, d, where) # {}
<1>1. ASSUME NEW r \in Clp, ClpRange(r, where) # NoRange
      PROVE  ClpRange(r, where).min \in Point /\ ClpRange(r, where).max \in Point
             /\ ClpRange(r, where).min # <<INT_MAX, INT_MAX>>
  <2>1. ClpRange(r, where) \in Preloaded
    BY <1>1, ClpRangeIs
  <2> QED
    BY <2>1 DEF Preloaded
<1>2. CornersBeyond(p, d, where) \in SUBSET Point
  BY <1>1 DEF CornersBeyond
<1>3. ASSUME CornersBeyond(p, d, where) # {}
      PROVE  BoxOf(CornersBeyond(p, d, where)) # NoRange
  <2>1. PICK r \in Clp : GetDirectionFromRank(p, r) = d /\ ClpRange(r, where) # NoRange
    BY <1>3 DEF CornersBeyond
  <2>2. ClpRange(r, where).min \in CornersBeyond(p, d, where)
    BY <2>1 DEF CornersBeyond
  <2>3. ClpRange(r, where).min # <<INT_MAX, INT_MAX>>
    BY <1>1, <2>1
  <2> QED
    BY <1>2, <2>2, <2>3, BoxAround
<1>4. ASSUME NEW v \in Ssv, where[v] \in Clp, GetDirectionFromRank(p, where[v]) = d
      PROVE  CornersBeyond(p, d, where) # {}
  <2>1. PICK r \in Clp : r = where[v]
    BY <1>4
  <2>2. ClpRange(r, where) \in Preloaded
    BY <2>1, ClpRangeIs
  <2>3. ClpRange(r, where) # NoRange
    BY <2>2 DEF Preloaded, NoRange
  <2> QED
    BY <1>4, <2>1, <2>3 DEF CornersBeyond
<1> QED
  BY <1>2, <1>3, <1>4

LEMMA PortRangeIs ==
    ASSUME NEW p, NEW d, NEW where
    PROVE  /\ PortRange(p, d, where) \in Framed
           /\ \A v \in Ssv : where[v] \in Clp /\ GetDirectionFromRank(p, where[v]) = d
                => PortRange(p, d, where) # NoRange
<1>1. PortRange(p, d, where) = BoxOf(CornersBeyond(p, d, where))
  BY DEF PortRange, CornersBeyond
<1>2. CornersBeyond(p, d, where) \in SUBSET Point
  BY CornersArePoints
<1>3. BoxOf(CornersBeyond(p, d, where)) \in Framed
  BY <1>2, BoxAround
<1>4. ASSUME NEW v \in Ssv, where[v] \in Clp, GetDirectionFromRank(p, where[v]) = d
      PROVE  PortRange(p, d, where) # NoRange
  BY <1>1, <1>4, CornersArePoints
<1> QED
  BY <1>1, <1>3, <1>4

\* What is beyond e of p is beyond d of n.
LEMMA PortRangeGrows ==
    ASSUME NEW p, NEW e, NEW n, NEW d, NEW where,
           \A q \in Clp : GetDirectionFromRank(p, q) = e => GetDirectionFromRank(n, q) = d
    PROVE  Within(PortRange(p, e, where), PortRange(n, d, where))
<1>1. /\ PortRange(p, e, where) = BoxOf(CornersBeyond(p, e, where))
      /\ PortRange(n, d, where) = BoxOf(CornersBeyond(n, d, where))
  BY DEF PortRange, CornersBeyond
<1>2. CornersBeyond(p, e, where) \subseteq CornersBeyond(n, d, where)
  BY DEF CornersBeyond
<1>3. /\ CornersBeyond(n, d, where) \in SUBSET Point
      /\ CornersBeyond(n, d, where) # {} => BoxOf(CornersBeyond(n, d, where)) # NoRange
  BY CornersArePoints
<1> QED
  BY <1>1, <1>2, <1>3, BoxGrows

LEMMA NobodyHere ==
    ASSUME LinksAgree, NEW p \in Clp, NEW where, \A v \in Ssv : where[v] # p
    PROVE  PortRange(p, HERE, where) = NoRange
<1>1. \A q \in Clp : GetDirectionFromRank(p, q) = HERE => q = p
  BY ClpOrAlp DEF LinksAgree
<1>2. ClpRange(p, where) = NoRange
  BY ClpRangeIs
<1>3. CornersBeyond(p, HERE, where) = {}
  BY <1>1, <1>2 DEF CornersBeyond
<1> QED
  BY <1>3 DEF PortRange, CornersBeyond, BoxOf

\* What the CLPs begin with.
StartRange(p, d) == IF d = HERE THEN Corrected(p).range ELSE PortRange(p, d, home)
StartView == [p \in Clp |-> [d \in Direction |-> [t \in Time |-> StartRange(p, d)]]]

LEMMA StartRanges ==
    ASSUME LinksAgree, Init, Types, NEW p \in Clp, NEW d \in Direction
    PROVE  /\ StartRange(p, d) \in Framed
           /\ \A t \in Time : RangeAt(fRangeRoutingTable[p][d], t) = StartRange(p, d)
           /\ Beyond(p, d, home) # {} => StartRange(p, d) # NoRange
<1>1. 0 \in Time /\ \A t \in Time : 0 <= t
  BY TimesAreNumbers
<1>2. AreHistories(positions) /\ \A v \in Ssv : home[v] \in Clp
  BY ConstantsAssumption DEF Types, HistoryTypes
<1>3. /\ Corrected(p).range \in Framed
      /\ \A v \in Ssv : home[v] = p => Corrected(p).range # NoRange
  BY <1>1, <1>2, RecalculatedIsAround DEF Corrected
<1>4. StartRange(p, d) \in Framed
  BY <1>3, PortRangeIs DEF StartRange
<1>5. PICK list \in Periods(Ids) : list = fRangeRoutingTable[p][d]
  BY DEF Types, TableTypes, AreTables
<1>6. list = <<[time |-> 0, info |-> <<>>, range |-> StartRange(p, d)]>>
  <2>1. fRangeRoutingTable =
         [q \in Clp |-> [StartTable(home)[q] EXCEPT ![HERE] =
                           <<[time |-> 0, info |-> <<>>, range |-> Corrected(q).range]>>]]
    BY DEF Init
  <2>2. HERE \in Direction
    BY DEF Direction, HERE, DIRECTION_SIZE
  <2>3. CASE d = HERE
    BY <1>5, <2>1, <2>2, <2>3 DEF StartTable, StartRange
  <2>4. CASE d # HERE
    BY <1>5, <2>1, <2>2, <2>4 DEF StartTable, StartRange
  <2> QED
    BY <2>3, <2>4
<1>7. DOMAIN list = {1} /\ list[1].time = 0 /\ list[1].range = StartRange(p, d)
  <2>1. PICK only : only = [time |-> 0, info |-> <<>>, range |-> StartRange(p, d)]
    OBVIOUS
  <2>2. list = <<only>> /\ only.time = 0 /\ only.range = StartRange(p, d)
    BY <1>6, <2>1
  <2> QED
    BY <2>2
<1>8. ASSUME NEW t \in Time PROVE RangeAt(list, t) = StartRange(p, d)
  <2>1. Holds(list, 1, t)
    BY <1>1, <1>7 DEF Holds
  <2> QED
    BY <1>7, <2>1, HoldsIs
<1>9. ASSUME NEW v \in Beyond(p, d, home) PROVE StartRange(p, d) # NoRange
  <2>1. v \in Ssv /\ home[v] \in Clp /\ home[v] \in LpRank /\ GetDirectionFromRank(p, home[v]) = d
    BY <1>2, ClpOrAlp DEF Beyond
  <2>2. CASE d = HERE
    <3>1. home[v] = p
      BY <2>1, <2>2 DEF LinksAgree
    <3> QED
      BY <1>3, <2>1, <2>2, <3>1 DEF StartRange
  <2>3. CASE d # HERE
    BY <2>1, <2>3, PortRangeIs DEF StartRange
  <2> QED
    BY <2>2, <2>3
<1> QED
  BY <1>4, <1>5, <1>8, <1>9

LEMMA StartMessages ==
    ASSUME LinksAgree, Init, NEW l \in Link
    PROVE  IF l \in ClpLink /\ IsMisjudged(l[1])
           THEN net[l] = <<UpdateOf(0, Corrected(l[1]).range)>>
           ELSE net[l] = <<>>
<1> DEFINE out == SendRangeUpdates(l[1], <<Corrected(l[1])>>, HERE)
           d == GetDirectionFromRank(l[1], l[2])
<1>1. net[l] = IF l[1] \in Clp /\ l[2] \in Clp /\ IsMisjudged(l[1]) /\ d \in DOMAIN out
               THEN out[d] ELSE <<>>
  BY Zenon DEF Init
<1>2. ASSUME l \in ClpLink, IsMisjudged(l[1])
      PROVE  net[l] = <<UpdateOf(0, Corrected(l[1]).range)>>
  <2>1. l[1] \in Clp /\ l[2] \in Clp /\ l[1] \in LpRank
    BY <1>2, ClpOrAlp DEF ClpLink
  <2>2. l[2] \in Neighbours(l[1])
    BY <2>1 DEF Link, LinksAgree
  <2>3. d \in ClpPorts(l[1]) \ {HERE}
    BY <2>1, <2>2, ClpOrAlp DEF LinksAgree
  <2>4. out = [e \in ClpPorts(l[1]) \ {HERE} |->
                 [i \in {1} |-> UpdateOf(Corrected(l[1]).time, Corrected(l[1]).range)]]
    BY DEF SendRangeUpdates, UpdateOf
  <2>5. out[d] = <<UpdateOf(Corrected(l[1]).time, Corrected(l[1]).range)>>
    <3> PICK m : m = UpdateOf(Corrected(l[1]).time, Corrected(l[1]).range)
      OBVIOUS
    <3>1. out[d] = [i \in {1} |-> m] /\ DOMAIN out = ClpPorts(l[1]) \ {HERE}
      BY <2>3, <2>4
    <3> QED
      BY <3>1
  <2>6. Corrected(l[1]).time = 0
    BY DEF Corrected
  <2>7. d \in DOMAIN out
    BY <2>3, <2>4
  <2> HIDE DEF out, d
  <2> QED
    BY <1>1, <1>2, <2>1, <2>5, <2>6, <2>7
<1>3. l \in ClpLink <=> l[1] \in Clp /\ l[2] \in Clp
  BY DEF ClpLink
<1> HIDE DEF out, d
<1> QED
  BY <1>1, <1>2, <1>3

LEMMA StartLinkCovers ==
    ASSUME LinksAgree, Init, Types, Clear(met), NEW l \in ClpLink
    PROVE  LinkCovers(StartView, net[l], l)
<1> DEFINE p == l[1]
           n == l[2]
           D(q, r) == GetDirectionFromRank(q, r)
<1>1. p \in Clp /\ n \in Clp /\ p \in LpRank /\ n \in LpRank /\ l \in Link
  BY ClpOrAlp DEF ClpLink
<1>2. n \in Neighbours(p) \cap Clp /\ p # n
  BY <1>1 DEF Link, LinksAgree
<1>3. /\ \A r \in LpRank : D(p, r) = D(p, n) <=> D(n, r) # D(n, p)
      /\ D(p, n) \in Direction /\ D(n, p) \in Direction /\ D(n, p) # HERE /\ D(p, n) # HERE
      /\ D(p, n) \in ClpPorts(p) \ {HERE}
  BY <1>1, <1>2 DEF LinksAgree
<1> SUFFICES ASSUME NEW e \in Direction \ {D(p, n)}, NEW t \in Time,
                    NEW r \in Heard(net[l], StartView[n][D(n, p)][t], t)
             PROVE  Within(StartView[p][e][t], r)
  BY DEF LinkCovers
<1>4. StartView[p][e][t] = StartRange(p, e) /\ StartView[n][D(n, p)][t] = StartRange(n, D(n, p))
  BY <1>1, <1>3 DEF StartView
<1>5. CASE IsMisjudged(p)
  <2> DEFINE c == Corrected(p).range
             m == UpdateOf(0, c)
  <2>1. net[l] = <<m>>
    BY <1>1, <1>5, StartMessages
  <2>2. r = c
    <3>1. DOMAIN <<m>> = {1} /\ <<m>>[1] = m /\ m.range = c /\ m.type = "update" /\ m.time = 0
      BY DEF UpdateOf
    <3>2. 0 <= t
      BY TimesAreNumbers
    <3>3. IsBy(m, t)
      BY <3>1, <3>2 DEF IsBy
    <3>4. \/ \E i \in DOMAIN <<m>> : IsLastBy(<<m>>, i, t) /\ r = <<m>>[i].range
          \/ \A j \in DOMAIN <<m>> : ~IsBy(<<m>>[j], t)
      BY <2>1, HeardIs
    <3> QED
      BY <3>1, <3>3, <3>4
  <2>3. CASE e = HERE
    <3>1. c \in Framed /\ StartRange(p, e) = c
      BY <1>1, <2>3, StartRanges DEF StartRange
    <3> QED
      BY <1>4, <2>2, <3>1, WithinItself
  <2>4. CASE e # HERE
    <3>1. Covers(StartTable(home)[p], p, <<Corrected(p)>>, HERE)
      BY <1>1, <1>5 DEF Init, Clear
    <3>2. PICK u : u = Corrected(p)
      OBVIOUS
    <3>3. DOMAIN <<u>> = {1} /\ <<u>>[1] = u
      OBVIOUS
    <3>4. Within(RangeAt(StartTable(home)[p][e], u.time), u.range)
      BY <1>3, <2>4, <3>1, <3>2, <3>3 DEF Covers
    <3>5. StartTable(home)[p][e] = fRangeRoutingTable[p][e]
      BY <1>1, <2>4 DEF Init, StartTable
    <3>6. u.time = 0 /\ u.range = c /\ 0 \in Time
      BY <3>2, TimesAreNumbers DEF Corrected
    <3>7. RangeAt(fRangeRoutingTable[p][e], 0) = StartRange(p, e)
      BY <1>1, <3>6, StartRanges
    <3> QED
      BY <1>4, <2>2, <3>4, <3>5, <3>6, <3>7
  <2> QED
    BY <2>3, <2>4
<1>6. CASE ~IsMisjudged(p)
  <2>1. net[l] = <<>>
    BY <1>1, <1>6, StartMessages
  <2>2. r = StartRange(n, D(n, p))
    <3>1. DOMAIN <<>> = {}
      OBVIOUS
    <3> QED
      BY <1>4, <2>1, <3>1, HeardIs
  <2>3. r = PortRange(n, D(n, p), home)
    BY <1>3, <2>2 DEF StartRange
  <2>4. StartRange(p, e) = PortRange(p, e, home)
    BY <1>6 DEF IsMisjudged, StartRange
  <2>5. \A q \in Clp : D(p, q) = e => D(n, q) = D(n, p)
    BY <1>3, ClpOrAlp
  <2>6. Within(PortRange(p, e, home), PortRange(n, D(n, p), home))
    <3> HIDE DEF p, n
    <3> QED
      BY <2>5, PortRangeGrows
  <2> QED
    BY <1>4, <2>3, <2>4, <2>6
<1> QED
  BY <1>5, <1>6

LEMMA StartCovered ==
    ASSUME LinksAgree, Init
    PROVE  Covered
<1> SUFFICES ASSUME Clear(met)
             PROVE  Sees(StartView, fRangeRoutingTable, fGVT, home, positions, net)
                    /\ StartView \in View
  BY DEF Covered, Sight
<1>1. Types
  BY StartTypes
<1>2. 0 \in Time /\ \A t \in Time : 0 <= t /\ t \in Nat
  BY TimesAreNumbers
<1>3. AreHistories(positions) /\ \A v \in Ssv : home[v] \in Clp /\ home[v] \in LpRank
  BY <1>1, ConstantsAssumption, ClpOrAlp DEF Types, HistoryTypes
<1>4. HERE \in Direction
  BY DEF Direction, HERE, DIRECTION_SIZE
<1>5. \A p \in Clp, d \in Direction, t \in Time : StartView[p][d][t] = StartRange(p, d)
  BY DEF StartView
<1>6. StartView \in View
  <2>1. \A p \in Clp, d \in Direction : StartRange(p, d) \in Framed
    BY <1>1, StartRanges
  <2> QED
    BY <2>1 DEF StartView, View
<1>7. ShowsTables(StartView, fRangeRoutingTable, fGVT)
  BY <1>1, <1>5, StartRanges DEF ShowsTables
<1>8. LinksCover(StartView, net)
  BY <1>1, StartLinkCovers DEF LinksCover
<1>9. CoversHere(StartView, home, positions)
  <2> SUFFICES ASSUME NEW v \in Ssv, NEW t \in Time
               PROVE  IsValueOverlapping(StartView[home[v]][HERE][t],
                                         ReadWithoutRecord(positions[v], t))
    BY DEF CoversHere
  <2>1. DOMAIN positions[v] = {0}
    BY DEF Init
  <2>2. Starts(positions[v], 0, t) /\ Starts(positions[v], 0, 0)
    BY <1>2, <2>1 DEF Starts
  <2>3. ReadWithoutRecord(positions[v], t) = positions[v][0]
    BY <1>3, <2>2, ReadIs
  <2>4. ReadWithoutRecord(positions[v], 0) = positions[v][0]
    BY <1>2, <1>3, <2>2, ReadIs
  <2>5. IsValueOverlapping(RecalculateRange(home, positions, home[v], 0),
                           ReadWithoutRecord(positions[v], 0))
    BY <1>2, <1>3, RecalculatedIsAround
  <2>6. StartView[home[v]][HERE][t] = RecalculateRange(home, positions, home[v], 0)
    BY <1>3, <1>4, <1>5 DEF StartRange, Corrected
  <2> QED
    BY <2>3, <2>4, <2>5, <2>6
<1>10. NoneOnlyWhere(StartView, home)
  BY <1>1, <1>5, StartRanges DEF NoneOnlyWhere
<1>11. UpdatesSay(net, home)
  <2> SUFFICES ASSUME NEW l \in Link, NEW m \in ToSet(net[l]), m.type = "update"
               PROVE  /\ l \in ClpLink /\ m.range \in FramedBox
                      /\ Beyond(l[2], GetDirectionFromRank(l[2], l[1]), home) # {}
    BY DEF UpdatesSay
  <2>1. net[l] # <<>>
    BY DEF ToSet
  <2>2. l \in ClpLink /\ IsMisjudged(l[1]) /\ net[l] = <<UpdateOf(0, Corrected(l[1]).range)>>
    BY <2>1, StartMessages
  <2>3. l[1] \in Clp
    BY <2>2 DEF ClpLink
  <2>4. m.range = RecalculateRange(home, positions, l[1], 0)
    <3>1. PICK u : u = UpdateOf(0, Corrected(l[1]).range)
      OBVIOUS
    <3>2. net[l] = <<u>>
      BY <2>2, <3>1
    <3>3. m = u
      BY <3>2 DEF ToSet
    <3> QED
      BY <3>1, <3>3 DEF UpdateOf, Corrected
  <2>5. PICK v \in Ssv : home[v] = l[1]
    <3> SUFFICES ASSUME \A v \in Ssv : home[v] # l[1] PROVE FALSE
      OBVIOUS
    <3>1. PortRange(l[1], HERE, home) = NoRange
      BY <2>3, NobodyHere
    <3>2. Corrected(l[1]).range = NoRange
      <4>1. {ReadWithoutRecord(positions[v], 0) : v \in {w \in Ssv : home[w] = l[1]}} = {}
        OBVIOUS
      <4> QED
        BY <4>1 DEF Corrected, RecalculateRange, BoxOf
    <3> QED
      BY <2>2, <3>1, <3>2 DEF IsMisjudged
  <2>6. m.range \in FramedBox
    <3>1. /\ RecalculateRange(home, positions, l[1], 0) \in Framed
          /\ RecalculateRange(home, positions, l[1], 0) # NoRange
      BY <1>2, <1>3, <2>5, RecalculatedIsAround
    <3> QED
      BY <2>4, <3>1 DEF FramedBox
  <2>7. v \in Beyond(l[2], GetDirectionFromRank(l[2], l[1]), home)
    BY <2>5 DEF Beyond
  <2> QED
    BY <2>2, <2>6, <2>7
<1> QED
  BY <1>6, <1>7, <1>8, <1>9, <1>10, <1>11 DEF Sees

\* In any tree whose tables of ranks say the same ways from all sides: as long as no
\* update is under way, and none has left something out or come too late, every CLP
\* has from its GVT on a box around all variables beyond each port, whatever was
\* written and undone in whatever order (Clp::ProcessMessage of RangeUpdateMessage,
\* Clp.cpp:889-993; RangeRoutingTable::Update).
THEOREM RangesAlwaysCover ==
    ASSUME LinksAgree, WaysAgree
    PROVE  Spec => []RangesCoverVariables
<1>1. Init => Inv /\ Covered
  BY StartInv, StartCovered
<1>2. Inv /\ Covered /\ [Next]_vars => Inv' /\ Covered'
  BY StepInv, StepCovered
<1>3. Inv /\ Covered => RangesCoverVariables
  BY CoveredIsEnough
<1> QED
  BY <1>1, <1>2, <1>3, PTL DEF Spec
-----------------------------------------------------------------------------
(***************************************************************************)
(* What an answer accounts for.  Of each variable, it has either what a    *)
(* read at the CLP of the variable has noted, or nothing, because the      *)
(* query was blocked on the way there, by a range that the variable is in  *)
(* and the box is not.  Either is noted where a change will pass.          *)
(***************************************************************************)
OfVar(found, v) == {f \in found : f[1] = v}
InBox(v, value, box) == IF IsValueOverlapping(box, value) THEN {<<v, value>>} ELSE {}

NoteOf(q, id, blocked) ==
    [id |-> id, time |-> q.time, box |-> q.box, blocked |-> blocked, agent |-> q.agent]

HasNote(table, gvt, p, d, q, id, blocked) ==
    gvt[p] <= q.time => NoteOf(q, id, blocked) \in EntriesOf(table[p][d])

KeptOut(view, table, gvt, p, d, q, id) ==
    ~HaveCommonPoint(view[p][d][q.time], q.box) /\ HasNote(table, gvt, p, d, q, id, TRUE)

\* Query q, with this identifier, was kept away from CLP r, or has come there.
Explained(view, table, gvt, q, id, r) ==
    \E p \in Clp \ {r} : KeptOut(view, table, gvt, p, GetDirectionFromRank(p, r), q, id)
Entered(table, gvt, q, id, r) ==
    \E blocked \in BOOLEAN : HasNote(table, gvt, r, HERE, q, id, blocked)

Accounts(view, table, gvt, q, id, v, r, history) ==
    (IF Explained(view, table, gvt, q, id, r) THEN {{}} ELSE {})
      \cup (IF Entered(table, gvt, q, id, r)
            THEN {InBox(v, ReadWithoutRecord(history, q.time), q.box)} ELSE {})

\* What is found of v at CLP r, by a CLP that has it from all ports but these, and by
\* those that its reply comes to.
Share(p, r, q, outs, accounts) ==
    IF GetDirectionFromRank(p, r) \in outs \cup {GetDirectionFromRank(p, q.agent)}
    THEN {{}} ELSE accounts
LinkShare(l, r, q, accounts) ==
    IF l[1] \in Clp /\ GetDirectionFromRank(l[1], l[2]) = GetDirectionFromRank(l[1], q.agent)
    THEN Share(l[1], r, q, {}, accounts) ELSE {{}}

TrackersCarry(tracker, id, q, v, r, accounts) ==
    \A p \in Clp : id \in DOMAIN tracker[p] =>
      OfVar(tracker[p][id].found, v) \in Share(p, r, q, tracker[p][id].outstanding, accounts)
MessagesCarry(links, id, q, v, r, accounts) ==
    \A l \in Link : \A m \in ToSet(links[l]) :
      m.type = "query" /\ m.id = id => OfVar(m.found, v) \in LinkShare(l, r, q, accounts)
AnswersCarry(got, id, v, accounts) == id \in DOMAIN got => OfVar(got[id], v) \in accounts

Carried(tracker, links, got, id, q, v, r, accounts) ==
    /\ TrackersCarry(tracker, id, q, v, r, accounts)
    /\ MessagesCarry(links, id, q, v, r, accounts)
    /\ AnswersCarry(got, id, v, accounts)

AntisOfUndone(links, undone) ==
    \A l \in Link : \A m \in ToSet(links[l]) : m.type = "anti" => m.id \in undone

LEMMA FoundTogether ==
    ASSUME NEW f, NEW g, NEW v
    PROVE  OfVar(f \cup g, v) = OfVar(f, v) \cup OfVar(g, v)
  BY DEF OfVar

LEMMA NothingFound ==
    ASSUME NEW v
    PROVE  OfVar({}, v) = {}
  BY DEF OfVar

\* A CLP finds of its own variables those in the box, and nothing of others.
LEMMA FoundHere ==
    ASSUME NEW p, NEW box, NEW t, NEW v \in Ssv
    PROVE  OfVar(RangeRead(p, box, t), v) =
             IF home[v] = p THEN InBox(v, ReadWithoutRecord(positions[v], t), box) ELSE {}
<1> DEFINE read(w) == ReadWithoutRecord(positions[w], t)
<1>1. ASSUME NEW f
      PROVE  f \in RangeRead(p, box, t) <=>
               \E w \in Ssv : home[w] = p /\ f = <<w, read(w)>> /\ IsValueOverlapping(box, f[2])
  BY DEF RangeRead
<1> HIDE DEF read
<1>2. \A w : <<w, read(w)>>[1] = w /\ <<w, read(w)>>[2] = read(w)
  OBVIOUS
<1>3. CASE home[v] = p
  <2>1. ASSUME NEW f PROVE f \in OfVar(RangeRead(p, box, t), v) <=>
                             f = <<v, read(v)>> /\ IsValueOverlapping(box, read(v))
    BY <1>1, <1>2, <1>3 DEF OfVar
  <2>2. OfVar(RangeRead(p, box, t), v) = InBox(v, read(v), box)
    BY <2>1 DEF InBox
  <2> QED
    BY <1>3, <2>2 DEF read
<1>4. CASE home[v] # p
  <2>1. ASSUME NEW f PROVE f \notin OfVar(RangeRead(p, box, t), v)
    BY <1>1, <1>2, <1>4 DEF OfVar
  <2> QED
    BY <1>4, <2>1
<1> QED
  BY <1>3, <1>4

\* A box that has no point in common with a range holds none of the range's values.
LEMMA OutsideBox ==
    ASSUME NEW range \in Framed, NEW box \in Box, ~HaveCommonPoint(range, box),
           NEW q \in Point, IsValueOverlapping(range, q)
    PROVE  ~IsValueOverlapping(box, q)
<1>1. box \in [min: Point, max: Point]
  BY ConstantsAssumption
<1>2. box.min \in Point /\ box.max \in Point
  BY <1>1
<1>3. \A x \in Point : x[1] \in Nat /\ x[2] \in Nat
  BY PointFields
<1>4. range.min[1] \in Nat /\ range.min[2] \in Nat /\ range.max[1] \in Nat /\ range.max[2] \in Nat
  BY FramedFields
<1>5. /\ box.min[1] \in Nat /\ box.min[2] \in Nat /\ box.max[1] \in Nat /\ box.max[2] \in Nat
      /\ q[1] \in Nat /\ q[2] \in Nat
  BY <1>2, <1>3
<1>6. ASSUME IsValueOverlapping(box, q) PROVE FALSE
  <2>1. /\ box.min[1] <= q[1] /\ q[1] <= box.max[1]
        /\ box.min[2] <= q[2] /\ q[2] <= box.max[2]
    BY <1>6 DEF IsValueOverlapping
  <2>2. /\ range.min[1] <= q[1] /\ q[1] <= range.max[1]
        /\ range.min[2] <= q[2] /\ q[2] <= range.max[2]
    BY DEF IsValueOverlapping
  <2>3. range.min[1] <= box.max[1] /\ box.min[1] <= range.max[1]
    BY <1>4, <1>5, <2>1, <2>2
  <2>4. range.min[2] <= box.max[2] /\ box.min[2] <= range.max[2]
    BY <1>4, <1>5, <2>1, <2>2
  <2>5. HaveCommonPoint(range, box)
    BY <2>3, <2>4 DEF HaveCommonPoint
  <2> QED
    BY <2>5
<1> QED
  BY <1>6

\* Notes that stay, positions that stay: what an answer may account for stays as well.
NotesStay(table, gvt, table2, gvt2, q, id) ==
    \A p \in Clp, d \in Direction, blocked \in BOOLEAN :
      HasNote(table, gvt, p, d, q, id, blocked) => HasNote(table2, gvt2, p, d, q, id, blocked)

LEMMA AccountsStay ==
    ASSUME NEW view, NEW table, NEW gvt, NEW table2, NEW gvt2, NEW q, NEW id, NEW v,
           NEW r \in Clp, NEW history, NEW history2,
           \A p \in Clp : GetDirectionFromRank(p, r) \in Direction,
           NotesStay(table, gvt, table2, gvt2, q, id),
           InBox(v, ReadWithoutRecord(history2, q.time), q.box)
             = InBox(v, ReadWithoutRecord(history, q.time), q.box)
    PROVE  Accounts(view, table, gvt, q, id, v, r, history)
             \subseteq Accounts(view, table2, gvt2, q, id, v, r, history2)
<1>1. Explained(view, table, gvt, q, id, r) => Explained(view, table2, gvt2, q, id, r)
  BY DEF Explained, KeptOut, NotesStay
<1>2. Entered(table, gvt, q, id, r) => Entered(table2, gvt2, q, id, r)
  BY PortsAreDirections DEF Entered, NotesStay
<1> QED
  BY <1>1, <1>2 DEF Accounts

LEMMA CarriedByMore ==
    ASSUME NEW tracker, NEW links, NEW got, NEW id, NEW q, NEW v, NEW r, NEW less,
           NEW accounts, less \subseteq accounts, Carried(tracker, links, got, id, q, v, r, less)
    PROVE  Carried(tracker, links, got, id, q, v, r, accounts)
<1>1. \A p, outs : Share(p, r, q, outs, less) \subseteq Share(p, r, q, outs, accounts)
  BY DEF Share
<1>2. \A l : LinkShare(l, r, q, less) \subseteq LinkShare(l, r, q, accounts)
  BY <1>1 DEF LinkShare
<1>3. TrackersCarry(tracker, id, q, v, r, accounts)
  BY <1>1 DEF Carried, TrackersCarry
<1>4. MessagesCarry(links, id, q, v, r, accounts)
  BY <1>2 DEF Carried, MessagesCarry
<1>5. AnswersCarry(got, id, v, accounts)
  BY DEF Carried, AnswersCarry
<1> QED
  BY <1>3, <1>4, <1>5 DEF Carried

IsCalm(seen) == seen \subseteq {"misread"}

Known(view, id, v) ==
    Carried(fRangeTracker, net, answers, id, queries[id], v, home[v],
            Accounts(view, fRangeRoutingTable, fGVT, queries[id], id, v, home[v], positions[v]))

\* An agent gets no answers but its own.
OwnAnswers(links, asked) ==
    \A a \in Alps : \A m \in ToSet(links[<<AlpParent[a], a>>]) :
      m.type = "query" => asked[m.id].agent = a

\* The invariant.
Answered ==
    /\ AntisOfUndone(net, retracted) /\ OwnAnswers(net, queries)
    /\ IsCalm(met) => \E view \in View :
                        /\ Sight(view)
                        /\ \A id \in Ids \ (told \cup retracted), v \in Ssv : Known(view, id, v)

LEMMA CalmIsClear ==
    ASSUME NEW seen, IsCalm(seen)
    PROVE  Clear(seen) /\ "tied" \notin seen /\ "crossed" \notin seen
  BY DEF IsCalm, Clear

\* Whatever there is to account for is carried on.
CarriesOn(tracker, links, got, id) ==
    \A v \in Ssv : \A accounts :
      Carried(fRangeTracker, net, answers, id, queries[id], v, home[v], accounts)
      => Carried(tracker, links, got, id, queries[id], v, home[v], accounts)

LEMMA KnownAfter ==
    ASSUME NEW view, NEW view2, NEW id, NEW v \in Ssv, Known(view, id, v),
           NEW tracker, NEW links, NEW got, NEW table, NEW gvt, NEW h, NEW q, NEW r,
           tracker = fRangeTracker', links = net', got = answers', table = fRangeRoutingTable',
           gvt = fGVT', h = positions'[v], q = queries[id], q = queries'[id],
           r = home[v], r = home'[v], CarriesOn(tracker, links, got, id),
           Accounts(view, fRangeRoutingTable, fGVT, q, id, v, r, positions[v])
             \subseteq Accounts(view2, table, gvt, q, id, v, r, h)
    PROVE  Known(view2, id, v)'
<1> DEFINE less == Accounts(view, fRangeRoutingTable, fGVT, q, id, v, r, positions[v])
           accounts == Accounts(view2, table, gvt, q, id, v, r, h)
<1>1. Carried(fRangeTracker, net, answers, id, q, v, r, less)
  BY DEF Known
<1>2. less \subseteq accounts
  OBVIOUS
<1> HIDE DEF less, accounts
<1>3. Carried(tracker, links, got, id, q, v, r, less)
  BY <1>1 DEF CarriesOn
<1>4. Carried(tracker, links, got, id, q, v, r, accounts)
  BY <1>2, <1>3, CarriedByMore
<1> QED
  BY <1>4 DEF Known, accounts

NoOtherQueries(links, id) ==
    \A l \in Link : \A m \in ToSet(links[l]) :
      m.type = "query" /\ m.id = id => m \in ToSet(net[l])

LEMMA OldQueriesCarry ==
    ASSUME NEW links, NEW id, NoOtherQueries(links, id)
    PROVE  CarriesOn(fRangeTracker, links, answers, id)
<1>1. ASSUME NEW v \in Ssv, NEW accounts,
             Carried(fRangeTracker, net, answers, id, queries[id], v, home[v], accounts)
      PROVE  Carried(fRangeTracker, links, answers, id, queries[id], v, home[v], accounts)
  <2>1. MessagesCarry(links, id, queries[id], v, home[v], accounts)
    BY <1>1 DEF Carried, MessagesCarry, NoOtherQueries
  <2> QED
    BY <1>1, <2>1 DEF Carried
<1> QED
  BY <1>1 DEF CarriesOn

KeepsKnown ==
    \A view \in View : Sight(view) =>
      \A id \in Ids \ retracted, v \in Ssv : Known(view, id, v) => Known(view, id, v)'

LEMMA AnsweredIfKept ==
    ASSUME Answered, KeepsSight, IsCalm(met') => KeepsKnown, AntisOfUndone(net, retracted)',
           OwnAnswers(net, queries)', queries' = queries, retracted \subseteq retracted', told \subseteq told'
    PROVE  Answered'
<1>1. ASSUME IsCalm(met')
      PROVE  \E view \in View :
               Sight(view)' /\ \A id \in Ids' \ (told' \cup retracted'), v \in Ssv : Known(view, id, v)'
  <2>1. IsCalm(met)
    BY <1>1 DEF IsCalm, KeepsSight
  <2>2. PICK view \in View :
          Sight(view) /\ \A id \in Ids \ (told \cup retracted), v \in Ssv : Known(view, id, v)
    BY <2>1 DEF Answered
  <2>3. Sight(view)'
    BY <2>2 DEF KeepsSight
  <2>4. ASSUME NEW id \in Ids' \ (told' \cup retracted'), NEW v \in Ssv
        PROVE  Known(view, id, v)'
    <3>1. id \in Ids \ (told \cup retracted)
      BY <2>4 DEF Ids
    <3> QED
      BY <1>1, <2>2, <3>1 DEF KeepsKnown
  <2> QED
    BY <2>3, <2>4
<1> QED
  BY <1>1 DEF Answered

\* A step that changes no view and no variable, carries on what there is, and keeps
\* the notes.
LEMMA KnownIfCarried ==
    ASSUME LinksAgree, Inv, NEW table, NEW gvt, NEW tracker, NEW links, NEW got,
           table = fRangeRoutingTable', gvt = fGVT', tracker = fRangeTracker', links = net',
           got = answers', home' = home, positions' = positions, NEW id, queries'[id] = queries[id],
           CarriesOn(tracker, links, got, id),
           NotesStay(fRangeRoutingTable, fGVT, table, gvt, queries[id], id),
           NEW view, NEW v \in Ssv, Known(view, id, v)
    PROVE  Known(view, id, v)'
<1>1. home[v] \in Clp /\ \A p \in Clp : GetDirectionFromRank(p, home[v]) \in Direction
  <2>1. home[v] \in Clp /\ home[v] \in LpRank
    BY ConstantsAssumption, ClpOrAlp DEF Inv, Types, HistoryTypes
  <2> QED
    BY <2>1 DEF LinksAgree
<1>2. PICK q, r, h : q = queries[id] /\ r = home[v] /\ h = positions[v]
  OBVIOUS
<1>3. NotesStay(fRangeRoutingTable, fGVT, table, gvt, q, id) /\ r \in Clp
      /\ \A p \in Clp : GetDirectionFromRank(p, r) \in Direction
  BY <1>1, <1>2
<1>4. Accounts(view, fRangeRoutingTable, fGVT, q, id, v, r, h)
        \subseteq Accounts(view, table, gvt, q, id, v, r, h)
  BY ONLY <1>3, AccountsStay
<1>5. /\ q = queries'[id] /\ r = home'[v] /\ h = positions'[v]
      /\ Accounts(view, fRangeRoutingTable, fGVT, q, id, v, r, positions[v])
           \subseteq Accounts(view, table, gvt, q, id, v, r, h)
  BY <1>2, <1>4
<1> QED
  BY <1>2, <1>5, KnownAfter

LEMMA KnownIfCalm ==
    ASSUME LinksAgree, Inv, NEW table, NEW gvt, NEW links,
           table = fRangeRoutingTable', gvt = fGVT', links = net',
           fRangeTracker' = fRangeTracker, answers' = answers, queries' = queries,
           home' = home, positions' = positions,
           \A id \in Ids \ retracted : /\ NoOtherQueries(links, id)
                                       /\ NotesStay(fRangeRoutingTable, fGVT, table, gvt, queries[id], id)
    PROVE  KeepsKnown
<1>1. ASSUME NEW view \in View, NEW id \in Ids \ retracted, NEW v \in Ssv, Known(view, id, v)
      PROVE  Known(view, id, v)'
  <2>1. PICK tracker, got : /\ tracker = fRangeTracker /\ got = answers
                            /\ tracker = fRangeTracker' /\ got = answers'
    OBVIOUS
  <2>2. CarriesOn(tracker, links, got, id)
    BY <2>1, OldQueriesCarry
  <2>3. queries'[id] = queries[id]
    OBVIOUS
  <2> QED
    BY <1>1, <2>1, <2>2, <2>3, KnownIfCarried
<1> QED
  BY <1>1 DEF KeepsKnown

LEMMA NotesOfSame ==
    ASSUME NEW table, NEW gvt, NEW q, NEW id
    PROVE  NotesStay(table, gvt, table, gvt, q, id)
  BY DEF NotesStay

\* A CLP has received a message that is no query, and sends none.
LEMMA ExchangedNoQueries ==
    ASSUME NEW M, net \in [Link -> Seq(M)], NEW l \in Link, NEW i \in DOMAIN net[l],
           NEW out, \A d \in DOMAIN out : out[d] \in Seq(M),
           \A d \in DOMAIN out : \A m \in ToSet(out[d]) : m.type # "query", NEW id
    PROVE  NoOtherQueries(Exchanged(l, i, out), id)
<1>1. ASSUME NEW k \in Link, NEW m \in ToSet(Exchanged(l, i, out)[k]), m.type = "query"
      PROVE  m \in ToSet(net[k])
  <2>1. \/ m \in ToSet(net[k])
        \/ /\ GetDirectionFromRank(k[1], k[2]) \in DOMAIN out
           /\ m \in ToSet(out[GetDirectionFromRank(k[1], k[2])])
    BY <1>1, ExchangedMessages
  <2> QED
    BY <1>1, <2>1
<1> QED
  BY <1>1 DEF NoOtherQueries

\* Anti-messages that are passed on are of queries that were undone.
LEMMA ExchangedAntis ==
    ASSUME NEW M, net \in [Link -> Seq(M)], NEW l \in Link, NEW i \in DOMAIN net[l],
           NEW out, \A d \in DOMAIN out : out[d] \in Seq(M), NEW undone,
           AntisOfUndone(net, undone),
           \A d \in DOMAIN out : \A m \in ToSet(out[d]) : m.type = "anti" => m.id \in undone
    PROVE  AntisOfUndone(Exchanged(l, i, out), undone)
<1>1. ASSUME NEW k \in Link, NEW m \in ToSet(Exchanged(l, i, out)[k]), m.type = "anti"
      PROVE  m.id \in undone
  <2>1. \/ m \in ToSet(net[k])
        \/ /\ GetDirectionFromRank(k[1], k[2]) \in DOMAIN out
           /\ m \in ToSet(out[GetDirectionFromRank(k[1], k[2])])
    BY <1>1, ExchangedMessages
  <2> QED
    BY <1>1, <2>1 DEF AntisOfUndone
<1> QED
  BY <1>1 DEF AntisOfUndone

\* No query is new on a link to an agent.
NoNewAnswers(links) ==
    \A a \in Alps : \A m \in ToSet(links[<<AlpParent[a], a>>]) :
      m.type = "query" => m \in ToSet(net[<<AlpParent[a], a>>])

LEMMA OwnAnswersStay ==
    ASSUME NEW links, NEW asked, OwnAnswers(net, queries), NoNewAnswers(links),
           \A id \in Ids : asked[id] = queries[id], Inv, LinksAgree
    PROVE  OwnAnswers(links, asked)
<1>1. ASSUME NEW a \in Alps, NEW m \in ToSet(links[<<AlpParent[a], a>>]), m.type = "query"
      PROVE  asked[m.id].agent = a
  <2>1. m \in ToSet(net[<<AlpParent[a], a>>])
    BY <1>1 DEF NoNewAnswers
  <2>2. queries[m.id].agent = a
    BY <1>1, <2>1 DEF OwnAnswers
  <2>3. PICK k \in Link : k = <<AlpParent[a], a>>
    BY AgentLink
  <2>4. m \in MessageOf(Ids)
    <3>1. net[k] \in Seq(MessageOf(Ids))
      BY DEF Inv, Types, NetTypes, AreMessages
    <3>2. m \in ToSet(net[k])
      BY <2>1, <2>3
    <3> DEFINE M == MessageOf(Ids)
    <3> HIDE DEF M
    <3> QED
      BY <3>1, <3>2 DEF ToSet, M
  <2>5. m.id \in Ids
    BY <1>1, <2>4, MessageFields
  <2> QED
    BY <2>2, <2>5
<1> QED
  BY <1>1 DEF OwnAnswers

LEMMA NoQueriesNoAnswers ==
    ASSUME LinksAgree, NEW links, \A id : NoOtherQueries(links, id)
    PROVE  NoNewAnswers(links)
<1>1. ASSUME NEW a \in Alps, NEW m \in ToSet(links[<<AlpParent[a], a>>]), m.type = "query"
      PROVE  m \in ToSet(net[<<AlpParent[a], a>>])
  <2>1. PICK k \in Link : k = <<AlpParent[a], a>>
    BY AgentLink
  <2>2. m \in ToSet(links[k])
    BY <1>1, <2>1
  <2> QED
    BY <1>1, <2>1, <2>2 DEF NoOtherQueries
<1> QED
  BY <1>1 DEF NoNewAnswers

LEMMA AntiAnswered ==
    ASSUME LinksAgree, Inv, Answered, NEW l \in Link, l[2] \in Clp, NEW i \in DOMAIN net[l],
           ProcessAntiMessage(l[2], l, i), fGVT' = fGVT,
           UNCHANGED <<home, positions, queries, answers, retracted>>
    PROVE  Answered'
<1> DEFINE p == l[2]
           id == net[l][i].id
           late == fGVT[p] > queries[id].time
           out == IF late THEN <<>>
                  ELSE [d \in Onward(p, id) \ {HERE} |-> <<[type |-> "anti", id |-> id]>>]
           new == [fRangeRoutingTable EXCEPT ![p] = Forgotten(p, id)]
           M == MessageOf(Ids)
<1>1. /\ net[l][i].type = "anti" /\ net' = Exchanged(l, i, out) /\ met \subseteq met'
      /\ fRangeRoutingTable' = IF late THEN fRangeRoutingTable ELSE new
      /\ fRangeTracker' = fRangeTracker /\ told' = told
  BY DEF ProcessAntiMessage
<1>2. Types /\ net \in [Link -> Seq(M)]
  BY DEF Inv, Types, NetTypes, AreMessages
<1>3. id \in Ids /\ id \in retracted
  <2>1. net[l][i] \in MessageOf(Ids) /\ net[l][i] \in ToSet(net[l])
    BY <1>2 DEF ToSet
  <2> QED
    BY <1>1, <2>1, MessageFields DEF Answered, AntisOfUndone
<1>4. OnlyAntis(out, id)
  <2>1. DOMAIN <<>> = {}
    OBVIOUS
  <2> QED
    BY <2>1 DEF OnlyAntis
<1>5. KeepsSight
  BY <1>1, AntiKeepsSight
<1>6. \A d \in DOMAIN out : out[d] \in Seq(M)
  <2>1. <<[type |-> "anti", id |-> id]>> \in Seq(MessageOf(Ids))
    BY <1>3, MessagesToSend
  <2> HIDE DEF out, id
  <2> QED
    BY <1>4, <2>1 DEF OnlyAntis
<1> HIDE DEF out, M
<1>7. \A d \in DOMAIN out : \A m \in ToSet(out[d]) : m.type = "anti" /\ m.id = id
  <2>1. ASSUME NEW d \in DOMAIN out, NEW m \in ToSet(out[d])
        PROVE  m = [type |-> "anti", id |-> id]
    <3>1. out[d] = <<[type |-> "anti", id |-> id]>>
      BY <1>4 DEF OnlyAntis
    <3> HIDE DEF id
    <3> QED
      BY <2>1, <3>1 DEF ToSet
  <2> QED
    BY <2>1
<1>8. PICK links : links = net' /\ links = Exchanged(l, i, out)
  BY <1>1
<1>9. PICK table : table = fRangeRoutingTable' /\ table = IF late THEN fRangeRoutingTable ELSE new
  BY <1>1
<1>10. \A j : NoOtherQueries(links, j)
  <2>1. \A d \in DOMAIN out : \A m \in ToSet(out[d]) : m.type # "query"
    BY <1>7
  <2> HIDE DEF id, late
  <2> QED
    BY <1>2, <1>6, <1>8, <2>1, ExchangedNoQueries
<1>11. AntisOfUndone(links, retracted)
  <2>1. /\ AntisOfUndone(net, retracted)
        /\ \A d \in DOMAIN out : \A m \in ToSet(out[d]) : m.type = "anti" => m.id \in retracted
    BY <1>3, <1>7 DEF Answered
  <2> HIDE DEF id, late
  <2> QED
    BY <1>2, <1>6, <1>8, <2>1, ExchangedAntis
<1>12. Loses(table, p, id)
  <2>1. Loses(new, p, id)
    BY <1>2, <1>3, ForgottenEntries
  <2>2. Loses(fRangeRoutingTable, p, id)
    BY DEF Loses
  <2> QED
    BY <1>9, <2>1, <2>2
<1>13. ASSUME NEW j \in Ids \ retracted
       PROVE  NotesStay(fRangeRoutingTable, fGVT, table, fGVT, queries[j], j)
  <2>1. ASSUME NEW q \in Clp, NEW d \in Direction, NEW b \in BOOLEAN,
               HasNote(fRangeRoutingTable, fGVT, q, d, queries[j], j, b)
        PROVE  HasNote(table, fGVT, q, d, queries[j], j, b)
    <3>1. NoteOf(queries[j], j, b).id = j /\ j # id
      BY <1>3, <1>13 DEF NoteOf
    <3> HIDE DEF id
    <3> QED
      BY <1>12, <2>1, <3>1 DEF HasNote, Loses
  <2> QED
    BY <2>1 DEF NotesStay
<1>14. OwnAnswers(links, queries)
  <2>1. NoNewAnswers(links)
    BY <1>10, NoQueriesNoAnswers
  <2> QED
    BY <2>1, OwnAnswersStay DEF Answered
<1> HIDE DEF id, late, new, p
<1>15. KeepsKnown
  <2>1. PICK gvt : gvt = fGVT /\ gvt = fGVT'
    OBVIOUS
  <2>2. \A j \in Ids \ retracted :
           /\ NoOtherQueries(links, j)
           /\ NotesStay(fRangeRoutingTable, fGVT, table, gvt, queries[j], j)
    BY <1>10, <1>13, <2>1
  <2> QED
    BY <1>1, <1>8, <1>9, <2>1, <2>2, KnownIfCalm
<1>16. AntisOfUndone(net, retracted)' /\ OwnAnswers(net, queries)'
  BY <1>8, <1>11, <1>14
<1> QED
  BY <1>1, <1>5, <1>15, <1>16, AnsweredIfKept

\* What a CLP clears is before its GVT.
LEMMA ClearedNotes ==
    ASSUME LinksAgree, Inv, AllInPlace(fRangeRoutingTable), NEW p \in Clp, NEW t \in Time,
           t > fGVT[p], NEW id \in Ids, NEW table, NEW gvt,
           table = [fRangeRoutingTable EXCEPT
                      ![p] = [d \in Direction |-> ClearRangePeriods(fRangeRoutingTable[p][d], t)]],
           gvt = [fGVT EXCEPT ![p] = t]
    PROVE  NotesStay(fRangeRoutingTable, fGVT, table, gvt, queries[id], id)
<1>1. Types /\ AreTables(fRangeRoutingTable, fGVT, Ids) /\ AreQueries(queries)
  BY DEF Inv, Types, TableTypes
<1>2. fGVT \in [Clp -> Time] /\ t \in Nat /\ fGVT[p] \in Nat
  BY <1>1, TimesAreNumbers DEF AreTables
<1>3. queries[id].time \in Nat
  BY <1>1, QueryFields, TimesAreNumbers
<1>4. PICK q : q = queries[id]
  OBVIOUS
<1>5. gvt[p] = t /\ \A c \in Clp : c # p => gvt[c] = fGVT[c] /\ table[c] = fRangeRoutingTable[c]
  BY <1>1, <1>2 DEF AreTables
<1>6. \A d \in Direction : table[p][d] = ClearRangePeriods(fRangeRoutingTable[p][d], t)
  BY <1>1 DEF AreTables
<1>7. ASSUME NEW c \in Clp, NEW d \in Direction, NEW blocked \in BOOLEAN,
             HasNote(fRangeRoutingTable, fGVT, c, d, q, id, blocked), gvt[c] <= q.time
      PROVE  NoteOf(q, id, blocked) \in EntriesOf(table[c][d])
  <2>1. CASE c # p
    BY <1>5, <1>7, <2>1 DEF HasNote
  <2>2. CASE c = p
    <3>1. t <= q.time /\ fGVT[p] <= q.time
      BY <1>2, <1>3, <1>4, <1>5, <1>7, <2>2
    <3>2. NoteOf(q, id, blocked) \in EntriesOf(fRangeRoutingTable[p][d])
      BY <1>7, <2>2, <3>1 DEF HasNote
    <3>3. NoteOf(q, id, blocked).time >= t
      BY <1>2, <1>3, <1>4, <3>1 DEF NoteOf
    <3>4. PICK list \in Periods(Ids) : list = fRangeRoutingTable[p][d] /\ list[1].time <= fGVT[p]
      BY <1>1 DEF AreTables
    <3>5. list[1].time <= t
      <4>1. list[1].time \in Nat
        BY PeriodsAre
      <4> QED
        BY <1>2, <3>4, <4>1
    <3>6. InPlace(list)
      BY <3>4 DEF AllInPlace
    <3>7. \A e \in EntriesOf(list) : e.time >= t => e \in EntriesOf(ClearRangePeriods(list, t))
      BY <3>5, <3>6, ClearRangePeriodsEntries
    <3> QED
      BY <1>6, <2>2, <3>2, <3>3, <3>4, <3>7
  <2> QED
    BY <2>1, <2>2
<1> QED
  BY <1>4, <1>7 DEF NotesStay, HasNote

LEMMA GvtAnswered ==
    ASSUME LinksAgree, Inv, Trails, Answered, NEW p \in Clp, NEW t \in GvtTime, SetGvt(p, t)
    PROVE  Answered'
<1>1. /\ t > fGVT[p] /\ net' = net /\ queries' = queries /\ retracted' = retracted
      /\ met' = met /\ told' = told
  BY DEF SetGvt
<1>2. /\ fRangeTracker' = fRangeTracker /\ answers' = answers /\ home' = home
      /\ positions' = positions
  BY DEF SetGvt
<1>3. KeepsSight
  BY GvtKeepsSight
<1>4. PICK table : /\ table = fRangeRoutingTable'
                   /\ table = [fRangeRoutingTable EXCEPT ![p] =
                        [d \in Direction |-> ClearRangePeriods(fRangeRoutingTable[p][d], t)]]
  BY DEF SetGvt
<1>5. PICK gvt : gvt = fGVT' /\ gvt = [fGVT EXCEPT ![p] = t]
  BY DEF SetGvt
<1>6. ASSUME IsCalm(met') PROVE KeepsKnown
  <2>1. AllInPlace(fRangeRoutingTable)
    BY <1>1, <1>6, CalmIsClear DEF Trails
  <2>2. t \in Time
    BY DEF Time
  <2>3. \A id \in Ids : NotesStay(fRangeRoutingTable, fGVT, table, gvt, queries[id], id)
    BY <1>1, <1>4, <1>5, <2>1, <2>2, ClearedNotes
  <2>4. \A id : NoOtherQueries(net, id)
    BY DEF NoOtherQueries
  <2>5. PICK links : links = net /\ links = net'
    BY <1>1
  <2>6. \A id \in Ids \ retracted :
          /\ NoOtherQueries(links, id)
          /\ NotesStay(fRangeRoutingTable, fGVT, table, gvt, queries[id], id)
    BY <2>3, <2>4, <2>5
  <2> QED
    BY <1>1, <1>2, <1>4, <1>5, <2>5, <2>6, KnownIfCalm
<1>7. AntisOfUndone(net', retracted') /\ OwnAnswers(net', queries')
  BY <1>1 DEF Answered
<1> QED
  BY <1>1, <1>3, <1>6, <1>7, AnsweredIfKept

\* A rollback sends anti-messages for what it undoes.
LEMMA RollbackAnswered ==
    ASSUME LinksAgree, Inv, Answered, NEW a \in Alps, NEW t \in QueryTime, ProcessRollback(a, t)
    PROVE  Answered'
<1>1. /\ queries' = queries /\ met' = met /\ told' = told /\ fGVT' = fGVT
      /\ fRangeRoutingTable' = fRangeRoutingTable /\ fRangeTracker' = fRangeTracker
      /\ answers' = answers /\ home' = home /\ positions' = positions
  BY DEF ProcessRollback
<1>2. retracted' = retracted \cup Undone(a, t)
  BY DEF ProcessRollback, Undone
<1>3. Types /\ net \in [Link -> Seq(MessageOf(Ids))]
  BY DEF Inv, Types, NetTypes, AreMessages
<1>4. PICK anti \in Seq(MessageOf(Ids)) :
        /\ \A m \in ToSet(anti) : m.type = "anti" /\ m.id \in Undone(a, t)
        /\ net' = [net EXCEPT ![<<a, AlpParent[a]>>] = @ \o anti]
  BY <1>3, RollbackSendsAll
<1>5. PICK links : links = net' /\ links = [net EXCEPT ![<<a, AlpParent[a]>>] = @ \o anti]
  BY <1>4
<1>6. ASSUME NEW l \in Link, NEW m \in ToSet(links[l])
      PROVE  m \in ToSet(net[l]) \/ m \in ToSet(anti)
  <2>1. links[l] = net[l] \/ links[l] = net[l] \o anti
    BY <1>3, <1>5
  <2>2. ToSet(net[l] \o anti) = ToSet(net[l]) \cup ToSet(anti)
    BY <1>3, ToSetOfConcat
  <2> QED
    BY <1>6, <2>1, <2>2
<1>7. KeepsSight
  BY RollbackKeepsSight
<1>8. \A id : NoOtherQueries(links, id)
  BY <1>4, <1>6 DEF NoOtherQueries
<1>9. AntisOfUndone(links, retracted \cup Undone(a, t))
  BY <1>4, <1>6 DEF Answered, AntisOfUndone
<1>10. OwnAnswers(links, queries)
  BY <1>8, NoQueriesNoAnswers, OwnAnswersStay DEF Answered
<1>11. KeepsKnown
  <2>1. PICK table, gvt : /\ table = fRangeRoutingTable /\ table = fRangeRoutingTable'
                          /\ gvt = fGVT /\ gvt = fGVT'
    BY <1>1
  <2>2. \A id \in Ids \ retracted :
          /\ NoOtherQueries(links, id)
          /\ NotesStay(fRangeRoutingTable, fGVT, table, gvt, queries[id], id)
    BY <1>8, <2>1, NotesOfSame
  <2> QED
    BY <1>1, <1>5, <2>1, <2>2, KnownIfCalm
<1>12. AntisOfUndone(net', retracted') /\ OwnAnswers(net', queries')
  BY <1>1, <1>2, <1>5, <1>9, <1>10
<1> QED
  BY <1>1, <1>2, <1>7, <1>11, <1>12, AnsweredIfKept

\* An answer is what the agent's CLP has found.
LEMMA AnswerCarries ==
    ASSUME LinksAgree, Inv, NEW a \in Alps, NEW l \in Link, l = <<AlpParent[a], a>>,
           NEW m \in ToSet(net[l]), NEW id \in Ids, m.type = "query", m.id = id,
           queries[id].agent = a, NEW links, NoOtherQueries(links, id), NEW got,
           id \in DOMAIN got => got[id] = m.found \/ (id \in DOMAIN answers /\ got[id] = answers[id])
    PROVE  CarriesOn(fRangeTracker, links, got, id)
<1>1. ASSUME NEW v \in Ssv, NEW accounts,
             Carried(fRangeTracker, net, answers, id, queries[id], v, home[v], accounts)
      PROVE  Carried(fRangeTracker, links, got, id, queries[id], v, home[v], accounts)
  <2>1. /\ TrackersCarry(fRangeTracker, id, queries[id], v, home[v], accounts)
        /\ MessagesCarry(net, id, queries[id], v, home[v], accounts)
        /\ AnswersCarry(answers, id, v, accounts)
    BY <1>1 DEF Carried
  <2>2. MessagesCarry(links, id, queries[id], v, home[v], accounts)
    BY <2>1 DEF MessagesCarry, NoOtherQueries
  <2>3. OfVar(m.found, v) \in LinkShare(l, home[v], queries[id], accounts)
    BY <2>1 DEF MessagesCarry
  <2>4. GetDirectionFromRank(l[1], home[v]) # GetDirectionFromRank(l[1], queries[id].agent)
    <3>1. l[1] = AlpParent[a] /\ l[1] \in Clp /\ a \in Neighbours(l[1]) \cap Alps
      BY AgentLink
    <3>2. home[v] \in Clp /\ home[v] \in LpRank /\ home[v] # a
      BY ConstantsAssumption, ClpOrAlp DEF Inv, Types, HistoryTypes
    <3> QED
      BY <3>1, <3>2 DEF LinksAgree
  <2>5. OfVar(m.found, v) \in accounts
    <3>1. l[1] \in Clp /\ l[2] = queries[id].agent
      BY AgentLink
    <3>2. Share(l[1], home[v], queries[id], {}, accounts) = accounts
      BY <2>4 DEF Share
    <3> QED
      BY <2>3, <3>1, <3>2 DEF LinkShare
  <2>6. AnswersCarry(got, id, v, accounts)
    BY <2>1, <2>5 DEF AnswersCarry
  <2> QED
    BY <2>1, <2>2, <2>6 DEF Carried
<1> QED
  BY <1>1 DEF CarriesOn

LEMMA OtherAnswersCarry ==
    ASSUME NEW links, NEW id, NoOtherQueries(links, id), NEW got,
           id \in DOMAIN got => id \in DOMAIN answers /\ got[id] = answers[id]
    PROVE  CarriesOn(fRangeTracker, links, got, id)
<1>1. ASSUME NEW v \in Ssv, NEW accounts,
             Carried(fRangeTracker, net, answers, id, queries[id], v, home[v], accounts)
      PROVE  Carried(fRangeTracker, links, got, id, queries[id], v, home[v], accounts)
  <2>1. MessagesCarry(links, id, queries[id], v, home[v], accounts)
    BY <1>1 DEF Carried, MessagesCarry, NoOtherQueries
  <2>2. AnswersCarry(got, id, v, accounts)
    BY <1>1 DEF Carried, AnswersCarry
  <2> QED
    BY <1>1, <2>1, <2>2 DEF Carried
<1> QED
  BY <1>1 DEF CarriesOn

LEMMA AnswerAnswered ==
    ASSUME LinksAgree, Inv, Answered, NEW a \in Alps, ReceiveAnswer(a)
    PROVE  Answered'
<1> DEFINE l == <<AlpParent[a], a>>
           m == Head(net[l])
<1>1. /\ queries' = queries /\ met' = met /\ told' = told /\ retracted' = retracted
      /\ fGVT' = fGVT /\ home' = home /\ positions' = positions
      /\ fRangeRoutingTable' = fRangeRoutingTable /\ fRangeTracker' = fRangeTracker
  BY DEF ReceiveAnswer
<1>2. Types /\ net \in [Link -> Seq(MessageOf(Ids))] /\ l \in Link
  BY AgentLink DEF Inv, Types, NetTypes, AreMessages
<1>3. PICK links : links = net' /\ links = [net EXCEPT ![l] = Tail(@)]
  BY DEF ReceiveAnswer
<1>4. PICK got : /\ got = answers'
                 /\ got = IF m.id # Max(QueriesOf(a)) THEN answers
                          ELSE [id \in DOMAIN answers \cup {m.id} |->
                                  IF id = m.id THEN m.found ELSE answers[id]]
  BY DEF ReceiveAnswer
<1>5. net[l] # <<>>
  BY DEF ReceiveAnswer
<1>6. m \in MessageOf(Ids) /\ m \in ToSet(net[l]) /\ ToSet(Tail(net[l])) \subseteq ToSet(net[l])
  <2>1. net[l] \in Seq(MessageOf(Ids))
    BY <1>2
  <2> HIDE DEF l
  <2>2. PICK n \in Nat : n = Len(net[l])
    BY <2>1
  <2>3. DOMAIN net[l] = 1..n /\ n >= 1 /\ m = net[l][1]
    BY <1>5, <2>1, <2>2
  <2>4. \A i \in DOMAIN Tail(net[l]) : Tail(net[l])[i] = net[l][i + 1] /\ i + 1 \in 1..n
    BY <1>5, <2>1, <2>2
  <2>5. m \in MessageOf(Ids) /\ m \in ToSet(net[l])
    <3>1. 1 \in DOMAIN net[l]
      BY <2>3
    <3> QED
      BY <2>1, <2>3, <3>1 DEF ToSet
  <2>6. ToSet(Tail(net[l])) \subseteq ToSet(net[l])
    BY <2>3, <2>4 DEF ToSet
  <2> QED
    BY <2>5, <2>6
<1>7. \A k \in Link : ToSet(links[k]) \subseteq ToSet(net[k])
  <2> HIDE DEF l, m
  <2> QED
    BY <1>2, <1>3, <1>6
<1>8. \A id : NoOtherQueries(links, id)
  BY <1>7 DEF NoOtherQueries
<1>9. m.type # "update"
  BY <1>6 DEF Inv, Types, NetTypes, AreMessages
<1> HIDE DEF m
<1>10. ASSUME NEW id \in Ids \ retracted
       PROVE  CarriesOn(fRangeTracker, links, got, id)
  <2>1. CASE m.id = id
    <3>1. m.type = "query"
      <4>1. m.type = "anti" => m.id \in retracted
        BY <1>2, <1>6 DEF Answered, AntisOfUndone
      <4> QED
        BY <1>6, <1>9, <1>10, <2>1, <4>1, MessageFields
    <3>2. queries[id].agent = a
      BY <1>6, <2>1, <3>1 DEF Answered, OwnAnswers
    <3>3. id \in DOMAIN got => got[id] = m.found \/ (id \in DOMAIN answers /\ got[id] = answers[id])
      BY <1>4, <2>1
    <3>4. PICK k \in Link : k = l /\ k = <<AlpParent[a], a>>
      BY <1>2
    <3> HIDE DEF l
    <3>5. m \in ToSet(net[k])
      BY <1>6, <3>4
    <3> QED
      BY <1>8, <1>10, <2>1, <3>1, <3>2, <3>3, <3>4, <3>5, AnswerCarries
  <2>2. CASE m.id # id
    <3>1. id \in DOMAIN got => id \in DOMAIN answers /\ got[id] = answers[id]
      BY <1>4, <2>2
    <3> QED
      BY <1>8, <3>1, OtherAnswersCarry
  <2> QED
    BY <2>1, <2>2
<1>11. KeepsSight
  BY AnswerKeepsSight
<1> HIDE DEF l
<1>12. KeepsKnown
  <2>1. PICK table, gvt, tracker :
          /\ table = fRangeRoutingTable /\ table = fRangeRoutingTable'
          /\ gvt = fGVT /\ gvt = fGVT' /\ tracker = fRangeTracker /\ tracker = fRangeTracker'
    BY <1>1
  <2>2. ASSUME NEW view \in View, NEW id \in Ids \ retracted, NEW v \in Ssv, Known(view, id, v)
        PROVE  Known(view, id, v)'
    <3>1. CarriesOn(tracker, links, got, id)
      BY <1>10, <2>1
    <3>2. NotesStay(fRangeRoutingTable, fGVT, table, gvt, queries[id], id)
      BY <2>1, NotesOfSame
    <3>3. queries'[id] = queries[id]
      BY <1>1
    <3> QED
      BY <1>1, <1>3, <1>4, <2>1, <2>2, <3>1, <3>2, <3>3, KnownIfCarried
  <2> QED
    BY <2>2 DEF KeepsKnown
<1>13. AntisOfUndone(net', retracted') /\ OwnAnswers(net', queries')
  <2>1. AntisOfUndone(links, retracted)
    BY <1>7 DEF Answered, AntisOfUndone
  <2>2. OwnAnswers(links, queries)
    BY <1>8, NoQueriesNoAnswers, OwnAnswersStay DEF Answered
  <2> QED
    BY <1>1, <1>3, <2>1, <2>2
<1> QED
  BY <1>1, <1>11, <1>12, <1>13, AnsweredIfKept

\* Of a query that was just sent, nothing has been found yet.
AgentAsks(links, m) ==
    \A l \in Link : \A x \in ToSet(links[l]) : x \in ToSet(net[l]) \/ (x = m /\ l[1] \notin Clp)

LEMMA NothingYet ==
    ASSUME Types, NEW n, n \notin Ids, NEW links, NEW m, m = Query(n, {}), AgentAsks(links, m),
           NEW q, NEW v, NEW r, NEW accounts
    PROVE  Carried(fRangeTracker, links, answers, n, q, v, r, accounts)
<1>1. TrackersCarry(fRangeTracker, n, q, v, r, accounts)
  BY DEF Types, TrackerTypes, AreTrackers, TrackersCarry
<1>2. AnswersCarry(answers, n, v, accounts)
  BY DEF Types, SeenTypes, AnswersCarry
<1>3. ASSUME NEW l \in Link, NEW x \in ToSet(links[l]), x.type = "query", x.id = n
      PROVE  OfVar(x.found, v) \in LinkShare(l, r, q, accounts)
  <2>1. x \notin ToSet(net[l])
    <3>1. ASSUME x \in ToSet(net[l]) PROVE FALSE
      <4>1. net[l] \in Seq(MessageOf(Ids))
        BY DEF Types, NetTypes, AreMessages
      <4> DEFINE M == MessageOf(Ids)
      <4>2. x \in M
        <5> HIDE DEF M
        <5> QED
          BY <3>1, <4>1 DEF ToSet, M
      <4> QED
        BY <1>3, <4>2, MessageFields
    <3> QED
      BY <3>1
  <2>2. x = m /\ l[1] \notin Clp
    BY <1>3, <2>1 DEF AgentAsks
  <2>3. x.found = {}
    BY <2>2 DEF Query
  <2>4. LinkShare(l, r, q, accounts) = {{}}
    BY <2>2 DEF LinkShare
  <2> QED
    BY <2>3, <2>4, NothingFound
<1>4. MessagesCarry(links, n, q, v, r, accounts)
  BY <1>3 DEF MessagesCarry
<1> QED
  BY <1>1, <1>2, <1>4 DEF Carried

LEMMA QueryAnswered ==
    ASSUME LinksAgree, Inv, Answered, NEW a \in Alps, NEW t \in QueryTime, NEW box \in Box,
           RangeQuery(a, t, box)
    PROVE  Answered'
<1> DEFINE n == Len(queries) + 1
           m == Query(n, {})
           k == <<a, AlpParent[a]>>
<1>1. /\ met' = met /\ told' = told /\ retracted' = retracted
      /\ fGVT' = fGVT /\ home' = home /\ positions' = positions
      /\ fRangeRoutingTable' = fRangeRoutingTable /\ fRangeTracker' = fRangeTracker
      /\ answers' = answers
  BY DEF RangeQuery
<1>2. PICK asked : asked = queries' /\ asked = Append(queries, [agent |-> a, time |-> t, box |-> box])
  BY DEF RangeQuery
<1>3. PICK links : links = net' /\ links = [net EXCEPT ![k] = Append(@, m)]
  BY DEF RangeQuery
<1>4. Types /\ net \in [Link -> Seq(MessageOf(Ids))] /\ k \in Link /\ a \notin Clp
  BY AgentLink, ClpOrAlp DEF Inv, Types, NetTypes, AreMessages
<1>5. /\ Ids = 1..Len(queries) /\ Len(queries) \in Nat /\ Ids' = Ids \cup {n} /\ n \notin Ids
      /\ \A id \in Ids : asked[id] = queries[id]
  <2>1. queries \in Seq(RangeQueryOf)
    BY <1>4 DEF Types, AreQueries
  <2>2. PICK c \in Nat : c = Len(queries)
    BY <2>1
  <2>3. DOMAIN queries = 1..c /\ DOMAIN asked = 1..(c + 1)
    BY <1>2, <2>1, <2>2
  <2>4. \A id \in 1..c : asked[id] = queries[id]
    BY <1>2, <2>1, <2>2
  <2> QED
    BY <1>2, <2>2, <2>3, <2>4 DEF Ids
<1> HIDE DEF n
<1>6. ASSUME NEW l \in Link, NEW x \in ToSet(links[l])
      PROVE  x \in ToSet(net[l]) \/ (x = m /\ l[1] \notin Clp /\ l = k)
  <2>1. CASE l # k
    BY <1>3, <1>4, <1>6, <2>1
  <2>2. CASE l = k
    <3> HIDE DEF m
    <3>1. links[l] = Append(net[l], m)
      BY <1>3, <1>4, <2>2
    <3>2. net[l] \in Seq(MessageOf(Ids))
      BY <1>4
    <3>3. PICK i \in DOMAIN links[l] : x = links[l][i]
      BY <1>6 DEF ToSet
    <3>4. (i \in DOMAIN net[l] /\ x = net[l][i]) \/ x = m
      BY <3>1, <3>2, <3>3
    <3>5. l[1] \notin Clp
      BY <1>4, <2>2
    <3> QED
      BY <2>2, <3>4, <3>5 DEF ToSet
  <2> QED
    BY <2>1, <2>2
<1>7. m.type = "query" /\ m.id = n /\ m = Query(n, {})
  BY DEF Query
<1> HIDE DEF m
<1>8. \A id \in Ids : NoOtherQueries(links, id)
  BY <1>5, <1>6, <1>7 DEF NoOtherQueries
<1>9. AntisOfUndone(links, retracted)
  BY <1>6, <1>7 DEF Answered, AntisOfUndone
<1>10. OwnAnswers(links, asked)
  <2>1. NoNewAnswers(links)
    <3>1. ASSUME NEW b \in Alps, NEW x \in ToSet(links[<<AlpParent[b], b>>])
          PROVE  x \in ToSet(net[<<AlpParent[b], b>>])
      <4>1. PICK l \in Link : l = <<AlpParent[b], b>>
        BY AgentLink
      <4>2. l[1] \in Clp
        BY <4>1, AgentLink
      <4> QED
        BY <1>6, <3>1, <4>1, <4>2
    <3> QED
      BY <3>1 DEF NoNewAnswers
  <2> QED
    BY <1>5, <2>1, OwnAnswersStay DEF Answered
<1>11. KeepsSight
  BY QueryKeepsSight
<1>12. ASSUME IsCalm(met')
       PROVE  \E view \in View :
                Sight(view)' /\ \A id \in Ids' \ (told' \cup retracted'), v \in Ssv : Known(view, id, v)'
  <2>1. IsCalm(met)
    BY <1>1, <1>12
  <2>2. PICK view \in View :
          Sight(view) /\ \A id \in Ids \ (told \cup retracted), v \in Ssv : Known(view, id, v)
    BY <2>1 DEF Answered
  <2>3. Sight(view)'
    BY <1>11, <2>2 DEF KeepsSight
  <2>4. ASSUME NEW id \in Ids' \ (told' \cup retracted'), NEW v \in Ssv
        PROVE  Known(view, id, v)'
    <3>1. CASE id \in Ids
      <4>1. Known(view, id, v)
        BY <1>1, <2>2, <2>4, <3>1
      <4>2. PICK table, gvt, tracker, got :
              /\ table = fRangeRoutingTable /\ table = fRangeRoutingTable'
              /\ gvt = fGVT /\ gvt = fGVT' /\ tracker = fRangeTracker /\ tracker = fRangeTracker'
              /\ got = answers /\ got = answers'
        BY <1>1
      <4>3. CarriesOn(tracker, links, got, id)
        BY <1>8, <3>1, <4>2, OldQueriesCarry
      <4>4. NotesStay(fRangeRoutingTable, fGVT, table, gvt, queries[id], id)
        BY <4>2, NotesOfSame
      <4>5. queries'[id] = queries[id]
        BY <1>2, <1>5, <3>1
      <4> QED
        BY <1>1, <1>3, <2>4, <4>1, <4>2, <4>3, <4>4, <4>5, KnownIfCarried
    <3>2. CASE id = n
      <4>1. AgentAsks(links, m)
        BY <1>6 DEF AgentAsks
      <4>2. PICK q, r, accounts :
              /\ q = queries'[id] /\ r = home'[v]
              /\ accounts = Accounts(view, fRangeRoutingTable, fGVT, queries[id], id, v, home[v],
                                     positions[v])'
        OBVIOUS
      <4>3. Carried(fRangeTracker, links, answers, id, q, v, r, accounts)
        <5>1. Types /\ id \notin Ids /\ m = Query(id, {})
          BY <1>4, <1>5, <1>7, <3>2
        <5> QED
          BY ONLY <4>1, <5>1, NothingYet
      <4> QED
        BY <1>1, <1>3, <4>2, <4>3 DEF Known
    <3> QED
      BY <1>5, <2>4, <3>1, <3>2
  <2> QED
    BY <2>3, <2>4
<1>13. AntisOfUndone(net', retracted') /\ OwnAnswers(net', queries')
  BY <1>1, <1>2, <1>3, <1>9, <1>10
<1> QED
  BY <1>12, <1>13 DEF Answered

\* An entry that stands in the period of its time.
LEMMA EntryIsThere ==
    ASSUME NEW ids, NEW list \in Periods(ids), InPlace(list), NEW e \in EntriesOf(list)
    PROVE  /\ e \in EntriesAt(list, e.time)
           /\ \A t \in Time : PeriodAt(list, e.time) = PeriodAt(list, t) => e \in EntriesAt(list, t)
<1>1. PICK i \in DOMAIN list : e \in ToSet(list[i].info)
  BY DEF EntriesOf
<1>2. StandsAt(list, i, e)
  BY <1>1 DEF InPlace
<1>3. e.time \in Time /\ e.time \in Nat
  BY EntriesAreTyped
<1>4. ASSUME NEW j \in DOMAIN list, list[j].time <= e.time PROVE j <= i
  <2>1. list[j].time <= list[i].time
    BY <1>2, <1>4 DEF StandsAt
  <2>2. /\ DOMAIN list = 1..Len(list) /\ Len(list) \in Nat
        /\ \A x \in DOMAIN list : list[x].time \in Nat
        /\ \A x, y \in DOMAIN list : x < y => list[x].time < list[y].time
    BY PeriodsAre
  <2>3. CASE i < j
    <3>1. list[i].time < list[j].time /\ list[i].time \in Nat /\ list[j].time \in Nat
      BY <1>1, <2>2, <2>3
    <3> QED
      BY <2>1, <3>1
  <2> QED
    BY <1>1, <2>2, <2>3
<1>5. Holds(list, i, e.time)
  BY <1>1, <1>2, <1>4 DEF Holds, StandsAt
<1>6. PeriodAt(list, e.time) = i /\ HasRangePeriod(list, e.time)
  BY <1>3, <1>5, HoldsIs
<1>7. ASSUME NEW t, PeriodAt(list, t) = i PROVE e \in EntriesAt(list, t)
  <2>1. HasRangePeriod(list, t)
    BY <1>6, <1>7 DEF HasRangePeriod
  <2> QED
    BY <1>1, <1>7, <2>1 DEF EntriesAt
<1> QED
  BY <1>6, <1>7

\* The ranges a query was kept out by still keep it out, and what is read where it
\* has entered is the same.
StaysOut(view, table, gvt, view2, table2, gvt2, q, id) ==
    \A p \in Clp, d \in Direction \ {HERE} :
      KeptOut(view, table, gvt, p, d, q, id) => KeptOut(view2, table2, gvt2, p, d, q, id)
ReadsSame(table, gvt, history, history2, q, id, v, r) ==
    Entered(table, gvt, q, id, r) =>
      InBox(v, ReadWithoutRecord(history2, q.time), q.box)
        = InBox(v, ReadWithoutRecord(history, q.time), q.box)

LEMMA AccountsTurn ==
    ASSUME NEW view, NEW table, NEW gvt, NEW view2, NEW table2, NEW gvt2, NEW q, NEW id, NEW v,
           NEW r \in Clp, NEW history, NEW history2,
           \A p \in Clp \ {r} : GetDirectionFromRank(p, r) \in Direction \ {HERE},
           NotesStay(table, gvt, table2, gvt2, q, id),
           StaysOut(view, table, gvt, view2, table2, gvt2, q, id),
           ReadsSame(table, gvt, history, history2, q, id, v, r)
    PROVE  Accounts(view, table, gvt, q, id, v, r, history)
             \subseteq Accounts(view2, table2, gvt2, q, id, v, r, history2)
<1>1. Explained(view, table, gvt, q, id, r) => Explained(view2, table2, gvt2, q, id, r)
  BY DEF Explained, StaysOut
<1>2. Entered(table, gvt, q, id, r) => Entered(table2, gvt2, q, id, r)
  BY PortsAreDirections DEF Entered, NotesStay
<1>3. Entered(table, gvt, q, id, r) =>
        InBox(v, ReadWithoutRecord(history2, q.time), q.box)
          = InBox(v, ReadWithoutRecord(history, q.time), q.box)
  BY DEF ReadsSame
<1> QED
  BY <1>1, <1>2, <1>3 DEF Accounts

\* The way from one CLP to another does not begin at HERE.
LEMMA NotHere ==
    ASSUME LinksAgree, NEW r \in Clp
    PROVE  \A p \in Clp \ {r} : GetDirectionFromRank(p, r) \in Direction \ {HERE}
<1>1. r \in LpRank
  BY ClpOrAlp
<1> QED
  BY <1>1 DEF LinksAgree

\* Other ranges and other positions: the notes stay, and nothing else is changed.
SameNotes(table, table2) ==
    \A p \in Clp, d \in Direction : EntriesOf(table2[p][d]) = EntriesOf(table[p][d])

LEMMA KnownIfTurned ==
    ASSUME LinksAgree, Inv, NEW table, NEW gvt, NEW links, NEW h, NEW id, NEW view, NEW view2,
           NEW v \in Ssv,
           table = fRangeRoutingTable', gvt = fGVT, gvt = fGVT', links = net', h = positions',
           fRangeTracker' = fRangeTracker, answers' = answers, queries' = queries, home' = home,
           NoOtherQueries(links, id), SameNotes(fRangeRoutingTable, table),
           StaysOut(view, fRangeRoutingTable, fGVT, view2, table, gvt, queries[id], id),
           ReadsSame(fRangeRoutingTable, fGVT, positions[v], h[v], queries[id], id, v, home[v]),
           Known(view, id, v)
    PROVE  Known(view2, id, v)'
<1>1. home[v] \in Clp /\ \A p \in Clp \ {home[v]} : GetDirectionFromRank(p, home[v]) \in Direction \ {HERE}
  <2>1. home[v] \in Clp
    BY ConstantsAssumption DEF Inv, Types, HistoryTypes
  <2> QED
    BY <2>1, NotHere
<1>2. PICK q, r, old, tracker, got, new :
        /\ q = queries[id] /\ r = home[v] /\ old = positions[v] /\ new = h[v]
        /\ tracker = fRangeTracker /\ tracker = fRangeTracker' /\ got = answers /\ got = answers'
  OBVIOUS
<1>3. NotesStay(fRangeRoutingTable, fGVT, table, gvt, q, id)
  <2>1. ASSUME NEW p \in Clp, NEW d \in Direction, NEW blocked \in BOOLEAN,
               HasNote(fRangeRoutingTable, fGVT, p, d, q, id, blocked)
        PROVE  HasNote(table, gvt, p, d, q, id, blocked)
    BY <2>1 DEF HasNote, SameNotes
  <2> QED
    BY <2>1 DEF NotesStay
<1>4. /\ r \in Clp /\ \A p \in Clp \ {r} : GetDirectionFromRank(p, r) \in Direction \ {HERE}
      /\ StaysOut(view, fRangeRoutingTable, fGVT, view2, table, gvt, q, id)
      /\ ReadsSame(fRangeRoutingTable, fGVT, old, new, q, id, v, r)
  BY <1>1, <1>2
<1>5. Accounts(view, fRangeRoutingTable, fGVT, q, id, v, r, old)
        \subseteq Accounts(view2, table, gvt, q, id, v, r, new)
  BY ONLY <1>3, <1>4, AccountsTurn
<1>6. CarriesOn(tracker, links, got, id)
  BY <1>2, OldQueriesCarry
<1>7. /\ q = queries'[id] /\ r = home'[v] /\ new = positions'[v]
      /\ Accounts(view, fRangeRoutingTable, fGVT, q, id, v, r, positions[v])
           \subseteq Accounts(view2, table, gvt, q, id, v, r, new)
  BY <1>2, <1>5
<1> QED
  BY <1>2, <1>6, <1>7, KnownAfter

\* What a calm range update tells: whoever it lets in is rolled back, and no box
\* crosses the range.
CalmUpdate(list, t, range) ==
    /\ ~SameTime(list, t) /\ ~(Last(list).time > t)
    /\ ~ \E e \in EntriesAt(list, t) : e.blocked /\ Crossing(range, e.box)

LEMMA RangeUpdateCalm ==
    ASSUME NEW p, NEW l, NEW i, ProcessRangeUpdate(p, l, i), IsCalm(met')
    PROVE  LET m == net[l][i]
               list == fRangeRoutingTable[p][GetDirectionFromRank(p, l[1])]
           IN  /\ met \subseteq met' /\ CalmUpdate(list, m.time, m.range)
               /\ told' = told \cup RolledByRange(list, m.time, m.range)
<1> DEFINE m == net[l][i]
           source == GetDirectionFromRank(p, l[1])
           list == fRangeRoutingTable[p][source]
           updates == Announced(list, m.time, m.range)
           lists == [fRangeRoutingTable[p] EXCEPT ![source] = WithRange(list, m.time, m.range)]
           flaws == Flaws(p, lists, m.time, updates, source)
           crosses == \E e \in EntriesAt(list, m.time) : e.blocked /\ Crossing(m.range, e.box)
<1>1. met' = met \cup flaws
             \cup (IF crosses THEN {"crossed"} ELSE {})
             \cup (IF m.time < fGVT[p] THEN {"passed"} ELSE {})
             \cup (IF Last(list).time > m.time THEN {"skipped"} ELSE {})
  BY Zenon DEF ProcessRangeUpdate
<1>2. SameTime(list, m.time) => "tied" \in flaws
  <2> HIDE DEF lists, updates, m
  <2> QED
    BY DEF Flaws
<1>3. told' = told \cup RolledByRange(list, m.time, m.range)
  BY Zenon DEF ProcessRangeUpdate
<1> HIDE DEF flaws, crosses
<1>4. met \subseteq met' /\ "tied" \notin flaws /\ ~crosses /\ ~(Last(list).time > m.time)
  <2> HIDE DEF list, m
  <2>1. PICK seen : seen = met' /\ seen \subseteq {"misread"}
    BY DEF IsCalm
  <2> QED
    BY <1>1, <2>1
<1>5. CalmUpdate(list, m.time, m.range)
  BY <1>2, <1>4 DEF CalmUpdate, crosses
<1> QED
  BY <1>3, <1>4, <1>5

\* A query that was blocked and that an update does not roll back is still kept out.
LEMMA StillKeptOut ==
    ASSUME NEW list \in Periods(Ids), InPlace(list), NEW t \in Time, list[1].time <= t,
           NEW range \in FramedBox, CalmUpdate(list, t, range), NEW q, NEW id,
           q.time \in Time, t <= q.time, NoteOf(q, id, TRUE) \in EntriesOf(list),
           id \notin RolledByRange(list, t, range)
    PROVE  ~HaveCommonPoint(range, q.box)
<1> DEFINE e == NoteOf(q, id, TRUE)
<1>1. e.id = id /\ e.time = q.time /\ e.box = q.box /\ e.blocked
  BY DEF NoteOf
<1> HIDE DEF e
<1>2. e \in EntriesOf(list)
  BY DEF e
<1>3. PeriodAt(list, q.time) = PeriodAt(list, t)
  BY LastHolds DEF CalmUpdate
<1>4. e \in EntriesAt(list, t)
  BY <1>1, <1>2, <1>3, EntryIsThere
<1>5. e.time > t
  <2>1. e.time # t
    BY <1>4 DEF CalmUpdate, SameTime
  <2>2. q.time \in Nat /\ t \in Nat
    BY TimesAreNumbers
  <2> QED
    BY <1>1, <2>1, <2>2
<1>6. range # NoRange
  BY DEF FramedBox
<1>7. ~IsRangeOverlapping(range, e.box)
  <2>1. ASSUME IsRangeOverlapping(range, e.box) PROVE e.id \in RolledByRange(list, t, range)
    <3> HIDE DEF SameTime
    <3> QED
      BY <1>1, <1>4, <1>5, <1>6, <2>1 DEF RolledByRange
  <2> QED
    BY <1>1, <2>1
<1>8. ~Crossing(range, e.box)
  BY <1>1, <1>4 DEF CalmUpdate
<1> QED
  BY <1>1, <1>6, <1>7, <1>8 DEF Crossing

LEMMA UpdateStaysOut ==
    ASSUME Types, AllInPlace(fRangeRoutingTable), NEW table, SameNotes(fRangeRoutingTable, table),
           NEW p \in Clp, NEW src \in Direction, NEW t \in Time, t >= fGVT[p],
           NEW range \in FramedBox, CalmUpdate(fRangeRoutingTable[p][src], t, range),
           NEW view, NEW view2, AlikeBefore(view, view2, p, src, t),
           IsRangeFrom(view2, p, src, t, range), NEW gvt, gvt = fGVT, NEW id \in Ids,
           id \notin RolledByRange(fRangeRoutingTable[p][src], t, range)
    PROVE  StaysOut(view, fRangeRoutingTable, fGVT, view2, table, gvt, queries[id], id)
<1>1. queries[id].time \in Time /\ Time \subseteq Nat
  BY QueryFields, TimesAreNumbers DEF Types
<1>2. PICK q : q = queries[id]
  OBVIOUS
<1>3. q.time \in Time /\ q.time \in Nat /\ t \in Nat
  BY <1>1, <1>2
<1>4. ASSUME NEW c \in Clp, NEW d \in Direction,
             KeptOut(view, fRangeRoutingTable, fGVT, c, d, q, id)
      PROVE  KeptOut(view2, table, gvt, c, d, q, id)
  <2>1. HasNote(table, gvt, c, d, q, id, TRUE)
    BY <1>4 DEF KeptOut, HasNote, SameNotes
  <2>2. ~HaveCommonPoint(view2[c][d][q.time], q.box)
    <3>1. CASE c # p \/ d # src \/ q.time < t
      <4>1. view2[c][d][q.time] = view[c][d][q.time]
        BY <1>3, <3>1 DEF AlikeBefore
      <4> QED
        BY <1>4, <4>1 DEF KeptOut
    <3>2. CASE c = p /\ d = src /\ ~(q.time < t)
      <4>1. view2[c][d][q.time] = range
        BY <1>3, <3>2 DEF IsRangeFrom
      <4>2. AreTables(fRangeRoutingTable, fGVT, Ids)
        BY DEF Types, TableTypes
      <4>3. PICK list \in Periods(Ids) :
               list = fRangeRoutingTable[p][src] /\ \A s \in Time : s >= fGVT[p] => list[1].time <= s
        BY <4>2, ListFrom
      <4>4. fGVT[p] \in Nat /\ list[1].time <= t /\ t <= q.time
        BY <1>3, <3>2, <4>2, <4>3, TimesAreNumbers DEF AreTables
      <4>5. NoteOf(q, id, TRUE) \in EntriesOf(list)
        <5>1. fGVT[p] <= q.time
          BY <1>3, <4>4
        <5> QED
          BY <1>4, <3>2, <4>3, <5>1 DEF KeptOut, HasNote
      <4>6. InPlace(list)
        BY <4>3 DEF AllInPlace
      <4>7. CalmUpdate(list, t, range) /\ id \notin RolledByRange(list, t, range)
        BY <4>3
      <4>8. ~HaveCommonPoint(range, q.box)
        BY <1>3, <4>4, <4>5, <4>6, <4>7, StillKeptOut
      <4> QED
        BY <4>1, <4>8
    <3> QED
      BY <3>1, <3>2
  <2> QED
    BY <2>1, <2>2 DEF KeptOut
<1> QED
  BY <1>2, <1>4 DEF StaysOut

LEMMA SameNotesIf ==
    ASSUME Types, NEW p \in Clp, NEW src \in Direction, NEW t \in Time, NEW range \in AnyRange,
           NEW table,
           table = [fRangeRoutingTable EXCEPT
                      ![p] = [fRangeRoutingTable[p] EXCEPT
                                ![src] = WithRange(fRangeRoutingTable[p][src], t, range)]]
    PROVE  SameNotes(fRangeRoutingTable, table)
<1> DEFINE list == fRangeRoutingTable[p][src]
           new == WithRange(list, t, range)
<1>1. fRangeRoutingTable \in [Clp -> [Direction -> Periods(Ids)]]
  BY DEF Types, TableTypes, AreTables
<1>2. EntriesOf(new) = EntriesOf(list)
  <2>1. list \in Periods(Ids) /\ range \in KnownRange
    BY <1>1 DEF KnownRange
  <2> HIDE DEF list
  <2> QED
    BY <2>1, WithRangeEntries
<1> HIDE DEF new
<1>3. /\ table[p][src] = new
      /\ \A q \in Clp, d \in Direction : q # p \/ d # src => table[q][d] = fRangeRoutingTable[q][d]
  BY <1>1 DEF new
<1>4. ASSUME NEW q \in Clp, NEW d \in Direction
      PROVE  EntriesOf(table[q][d]) = EntriesOf(fRangeRoutingTable[q][d])
  <2>1. CASE q = p /\ d = src
    BY <1>2, <1>3, <2>1
  <2>2. CASE q # p \/ d # src
    BY <1>3, <2>2
  <2> QED
    BY <2>1, <2>2
<1> QED
  BY <1>4 DEF SameNotes

LEMMA UpdateAnswered ==
    ASSUME LinksAgree, Inv, Trails, Answered, NEW l \in Link, l[2] \in Clp,
           NEW i \in Receivable(net[l]), ProcessRangeUpdate(l[2], l, i), fGVT' = fGVT,
           UNCHANGED <<home, positions, queries, answers, retracted>>
    PROVE  Answered'
<1> DEFINE p == l[2]
           m == net[l][i]
           src == GetDirectionFromRank(p, l[1])
           list == fRangeRoutingTable[p][src]
           updates == Announced(list, m.time, m.range)
           lists == [fRangeRoutingTable[p] EXCEPT ![src] = WithRange(list, m.time, m.range)]
           out == SendRangeUpdates(p, updates, src)
           M == MessageOf(Ids)
<1>1. /\ m.type = "update" /\ fRangeRoutingTable' = [fRangeRoutingTable EXCEPT ![p] = lists]
      /\ net' = Exchanged(l, i, out) /\ fRangeTracker' = fRangeTracker
  BY DEF ProcessRangeUpdate
<1>2. Types /\ net \in [Link -> Seq(M)] /\ i \in DOMAIN net[l] /\ src \in Direction
  <2>1. net \in [Link -> Seq(M)]
    BY DEF Inv, Types, NetTypes, AreMessages
  <2> HIDE DEF M
  <2> QED
    BY <2>1, ReceivableIsThere, LinkEnds DEF Inv
<1>3. m \in M /\ m \in ToSet(net[l])
  <2>1. net[l] \in Seq(M) /\ i \in DOMAIN net[l]
    BY <1>2
  <2> HIDE DEF M
  <2> QED
    BY <2>1 DEF ToSet
<1>4. m.time \in Time /\ m.range \in AnyRange
  BY <1>1, <1>3, MessageFields
<1>5. updates \in Seq(Announcement)
  BY <1>4, AnnouncedIs
<1>6. \A d \in DOMAIN out : out[d] \in Seq(M)
  BY <1>5, UpdatesMayBeSent DEF MaySend
<1>7. (\A d \in DOMAIN out : \A x \in ToSet(out[d]) : x.type = "update")
  <2>1. ASSUME NEW d \in DOMAIN out, NEW x \in ToSet(out[d])
        PROVE  x.type = "update"
    <3>1. out[d] = [j \in DOMAIN updates |-> [type |-> "update", time |-> updates[j].time,
                                              range |-> updates[j].range]]
      BY Zenon DEF SendRangeUpdates
    <3> HIDE DEF out, updates
    <3> QED
      BY <2>1, <3>1 DEF ToSet
  <2> QED
    BY <2>1
<1>8. PICK table : table = fRangeRoutingTable' /\ table = [fRangeRoutingTable EXCEPT ![p] = lists]
  BY <1>1
<1>9. SameNotes(fRangeRoutingTable, table)
  <2>1. PICK t, range : t = m.time /\ range = m.range
    OBVIOUS
  <2>2. /\ Types /\ p \in Clp /\ src \in Direction /\ t \in Time /\ range \in AnyRange
        /\ table = [fRangeRoutingTable EXCEPT
                      ![p] = [fRangeRoutingTable[p] EXCEPT
                                ![src] = WithRange(fRangeRoutingTable[p][src], t, range)]]
    BY <1>2, <1>4, <1>8, <2>1
  <2> HIDE DEF m, p, src
  <2> QED
    BY ONLY <2>2, SameNotesIf
<1> HIDE DEF out, M, updates, lists
<1>10. PICK links : links = net' /\ links = Exchanged(l, i, out)
  BY <1>1
<1>11. \A id : NoOtherQueries(links, id)
  <2>1. \A d \in DOMAIN out : \A x \in ToSet(out[d]) : x.type # "query"
    BY <1>7
  <2> QED
    BY <1>2, <1>6, <1>10, <2>1, ExchangedNoQueries
<1>12. AntisOfUndone(links, retracted)
  <2>1. /\ AntisOfUndone(net, retracted)
        /\ \A d \in DOMAIN out : \A x \in ToSet(out[d]) : x.type = "anti" => x.id \in retracted
    BY <1>7 DEF Answered
  <2> QED
    BY <1>2, <1>6, <1>10, <2>1, ExchangedAntis
<1>13. OwnAnswers(links, queries)
  BY <1>11, NoQueriesNoAnswers, OwnAnswersStay DEF Answered
<1>14. ASSUME IsCalm(met')
       PROVE  \E view \in View :
                Sight(view)' /\ \A id \in Ids' \ (told' \cup retracted'), v \in Ssv : Known(view, id, v)'
  <2>1. /\ met \subseteq met' /\ CalmUpdate(list, m.time, m.range)
        /\ told' = told \cup RolledByRange(list, m.time, m.range)
    BY <1>14, RangeUpdateCalm
  <2>2. IsCalm(met) /\ "tied" \notin met /\ Clear(met')
    BY <1>14, <2>1, CalmIsClear DEF IsCalm
  <2>3. PICK view \in View :
          Sight(view) /\ \A id \in Ids \ (told \cup retracted), v \in Ssv : Known(view, id, v)
    BY <2>2 DEF Answered
  <2>4. PICK view2 \in View : /\ Sight(view2)' /\ AlikeBefore(view, view2, p, src, m.time)
                              /\ IsRangeFrom(view2, p, src, m.time, m.range)
    BY <2>2, <2>3, RangeUpdateTurnsSight
  <2>5. m.range \in FramedBox
    BY <1>1, <1>3, <2>3 DEF Sight, Sees, UpdatesSay
  <2>6. m.time >= fGVT[p]
    <3>1. ~(m.time < fGVT[p])
      BY <2>2, RangeUpdateClear
    <3>2. fGVT[p] \in Nat /\ m.time \in Nat
      BY <1>2, <1>4, TimesAreNumbers DEF Types, TableTypes, AreTables
    <3> QED
      BY <3>1, <3>2
  <2>7. AllInPlace(fRangeRoutingTable)
    BY <2>2 DEF Trails
  <2>8. PICK gvt, h : gvt = fGVT /\ gvt = fGVT' /\ h = positions /\ h = positions'
    OBVIOUS
  <2>9. PICK t, range : t = m.time /\ range = m.range
    OBVIOUS
  <2>10. Ids' = Ids
    BY DEF Ids
  <2>11. ASSUME NEW id \in Ids' \ (told' \cup retracted'), NEW v \in Ssv
         PROVE  Known(view2, id, v)'
    <3>1. Known(view, id, v) /\ id \in Ids
      BY <2>1, <2>3, <2>10, <2>11
    <3>2. StaysOut(view, fRangeRoutingTable, fGVT, view2, table, gvt, queries[id], id)
      <4>1. /\ t \in Time /\ t >= fGVT[p] /\ range \in FramedBox /\ src \in Direction /\ p \in Clp
            /\ CalmUpdate(fRangeRoutingTable[p][src], t, range)
            /\ AlikeBefore(view, view2, p, src, t) /\ IsRangeFrom(view2, p, src, t, range)
            /\ id \notin RolledByRange(fRangeRoutingTable[p][src], t, range)
        BY <1>2, <1>4, <2>1, <2>4, <2>5, <2>6, <2>9, <2>11
      <4>2. Types /\ gvt = fGVT
        BY <1>2, <2>8
      <4> HIDE DEF p, m, src
      <4> QED
        BY ONLY <1>9, <2>7, <3>1, <4>1, <4>2, UpdateStaysOut
    <3>3. ReadsSame(fRangeRoutingTable, fGVT, positions[v], h[v], queries[id], id, v, home[v])
      BY <2>8 DEF ReadsSame
    <3> HIDE DEF p, m, src, list
    <3> QED
      BY <1>1, <1>8, <1>9, <1>10, <1>11, <2>8, <3>1, <3>2, <3>3, KnownIfTurned
  <2> QED
    BY <2>4, <2>11
<1>15. AntisOfUndone(net', retracted') /\ OwnAnswers(net', queries')
  BY <1>10, <1>12, <1>13
<1> QED
  BY <1>14, <1>15 DEF Answered

\* With no write period that starts in between, the same is read.
LEMMA ReadUntil ==
    ASSUME NEW h, AreHistories(h), NEW v \in Ssv, NEW t \in Time, NEW s \in Time, t <= s,
           \A e \in DOMAIN h[v] : ~(t < e /\ e <= s)
    PROVE  ReadWithoutRecord(h[v], s) = ReadWithoutRecord(h[v], t)
<1>1. PICK m \in Time : Starts(h[v], m, t) /\ ReadWithoutRecord(h[v], t) = h[v][m]
  BY StartExists
<1>2. /\ s \in Nat /\ t \in Nat /\ m \in Nat /\ \A x \in DOMAIN h[v] : x \in Nat
      /\ m <= t /\ m \in DOMAIN h[v]
  BY <1>1, TimesAreNumbers DEF AreHistories, Starts
<1>3. ASSUME NEW x \in DOMAIN h[v], x <= s PROVE x <= m
  <2>1. x <= t
    BY <1>2, <1>3
  <2> QED
    BY <1>1, <2>1 DEF Starts
<1>4. Starts(h[v], m, s)
  BY <1>2, <1>3 DEF Starts
<1> QED
  BY <1>1, <1>4, ReadIs

\* What a calm write tells: whoever read what it changes is rolled back.
LEMMA WriteCalm ==
    ASSUME NEW v \in Ssv, NEW t, NEW history, Update(v, t, history), IsCalm(met')
    PROVE  LET list == fRangeRoutingTable[home[v]][HERE]
           IN  /\ met \subseteq met' /\ ~SameTime(list, t) /\ told \subseteq told'
               /\ RolledByValue(list, t, ReadWithoutRecord(positions[v], t),
                                ReadWithoutRecord(history, t)) \subseteq told'
<1> DEFINE p == home[v]
           old == ReadWithoutRecord(positions[v], t)
           new == ReadWithoutRecord(history, t)
           end == EndTime(positions[v], t)
           now == [positions EXCEPT ![v] = history]
           RangeFrom(s) == RecalculateRange(home, now, p, s)
           list == fRangeRoutingTable[p][HERE]
           this == WithRange(list, t, RangeFrom(t))
           later == IF HasRangePeriod(list, t) THEN LaterPeriods(this, t, end) ELSE {}
           updates == Announced(list, t, RangeFrom(t))
                        \o [n \in 1..Cardinality(later) |->
                              [time |-> t, range |-> RangeFrom(this[Min(later) + n - 1].time)]]
           rolledLater == {e.id : e \in {f \in UNION {ToSet(this[k].info) : k \in later} :
                                           MovesIn(f, old, new)}}
           lists == [fRangeRoutingTable[p] EXCEPT ![HERE] =
                       [k \in DOMAIN this |->
                          IF k \in later THEN [this[k] EXCEPT !.range = RangeFrom(this[k].time)]
                          ELSE this[k]]]
           flaws == Flaws(p, lists, t, updates, HERE)
           rolled == RolledByValue(list, t, old, new)
<1>1. met' = met \cup flaws
               \cup (IF \E k \in DOMAIN list : t < list[k].time /\ list[k].time < end
                     THEN {"skipped"} ELSE {})
               \cup (IF \E s \in UNION {DOMAIN now[w] : w \in Ssv} :
                           /\ t < s /\ PeriodAt(this, s) = PeriodAt(this, t)
                           /\ RangeFrom(s) # RangeFrom(t)
                     THEN {"overrun"} ELSE {})
  BY Zenon DEF Update
<1>2. told' = told \cup rolled \cup rolledLater
  BY Zenon DEF Update
<1>3. SameTime(list, t) => "tied" \in flaws
  <2> HIDE DEF lists, updates
  <2> QED
    BY DEF Flaws
<1> HIDE DEF flaws, list, this, end, now, RangeFrom, rolled, rolledLater
<1>4. met \subseteq met' /\ "tied" \notin flaws
  <2>1. PICK seen : seen = met' /\ seen \subseteq {"misread"}
    BY DEF IsCalm
  <2> QED
    BY <1>1, <2>1
<1>5. told \subseteq told' /\ rolled \subseteq told'
  BY <1>2
<1> QED
  BY <1>3, <1>4, <1>5 DEF list, rolled

\* What a query has read is as it was, unless its agent is rolled back.
LEMMA WriteReadsSame ==
    ASSUME LinksAgree, Types, AllInPlace(fRangeRoutingTable), NEW v \in Ssv, NEW t \in Time,
           NEW h, AreHistories(h), SameButAt(positions[v], h[v], t), t >= fGVT[home[v]],
           NEW id \in Ids, ~SameTime(fRangeRoutingTable[home[v]][HERE], t),
           NoneSkipped(fRangeRoutingTable[home[v]][HERE], t, EndTime(positions[v], t)),
           id \notin RolledByValue(fRangeRoutingTable[home[v]][HERE], t,
                       ReadWithoutRecord(positions[v], t), ReadWithoutRecord(h[v], t))
    PROVE  ReadsSame(fRangeRoutingTable, fGVT, positions[v], h[v], queries[id], id, v, home[v])
<1> DEFINE p == home[v]
           old == ReadWithoutRecord(positions[v], t)
           new == ReadWithoutRecord(h[v], t)
<1>1. queries[id].time \in Time /\ Time \subseteq Nat /\ p \in Clp /\ HERE \in Direction
  BY ConstantsAssumption, QueryFields, TimesAreNumbers, PortsAreDirections DEF Types, HistoryTypes
<1>2. PICK q : q = queries[id]
  OBVIOUS
<1>3. q.time \in Time /\ q.time \in Nat /\ t \in Nat
  BY <1>1, <1>2
<1>4. AreTables(fRangeRoutingTable, fGVT, Ids) /\ AreHistories(positions)
  BY DEF Types, TableTypes, HistoryTypes
<1>5. PICK list \in Periods(Ids) :
        list = fRangeRoutingTable[p][HERE] /\ \A s \in Time : s >= fGVT[p] => list[1].time <= s
  BY <1>1, <1>4, ListFrom
<1>6. fGVT[p] \in Nat /\ list[1].time <= t
  BY <1>1, <1>4, <1>5, TimesAreNumbers DEF AreTables
<1> DEFINE same == InBox(v, ReadWithoutRecord(h[v], q.time), q.box)
                     = InBox(v, ReadWithoutRecord(positions[v], q.time), q.box)
<1>7. CASE q.time < t
  <2>1. ReadWithoutRecord(h[v], q.time) = ReadWithoutRecord(positions[v], q.time)
    BY <1>3, <1>4, <1>7, ReadBefore
  <2> QED
    BY <1>2, <2>1 DEF ReadsSame
<1>8. CASE t <= q.time /\ PeriodAt(list, q.time) # PeriodAt(list, t)
  <2>1. NoneSkipped(list, t, EndTime(positions[v], t))
    BY <1>5
  <2>2. ReadWithoutRecord(h[v], q.time) = ReadWithoutRecord(positions[v], q.time)
    BY <1>3, <1>4, <1>6, <1>8, <2>1, ReadAfterPeriod
  <2> QED
    BY <1>2, <2>2 DEF ReadsSame
<1>9. CASE /\ t <= q.time /\ PeriodAt(list, q.time) = PeriodAt(list, t)
           /\ \E e \in DOMAIN positions[v] : t < e /\ e <= q.time
  <2>1. ReadWithoutRecord(h[v], q.time) = ReadWithoutRecord(positions[v], q.time)
    BY <1>3, <1>4, <1>9, ReadLater
  <2> QED
    BY <1>2, <2>1 DEF ReadsSame
<1>10. CASE /\ t <= q.time /\ PeriodAt(list, q.time) = PeriodAt(list, t)
            /\ ~ \E e \in DOMAIN positions[v] : t < e /\ e <= q.time
  <2>1. ReadWithoutRecord(positions[v], q.time) = old
    BY <1>3, <1>4, <1>10, ReadUntil
  <2>2. ReadWithoutRecord(h[v], q.time) = new
    <3>1. \A e \in DOMAIN h[v] : ~(t < e /\ e <= q.time)
      <4>1. ASSUME NEW e \in DOMAIN h[v], t < e, e <= q.time PROVE FALSE
        <5>1. e \in Time /\ e \in Nat /\ e # t
          <6>1. e \in Time
            BY <4>1 DEF AreHistories
          <6>2. e \in Nat
            BY <1>1, <6>1
          <6> QED
            BY <1>3, <4>1, <6>1, <6>2
        <5>2. e \in DOMAIN positions[v]
          BY <4>1, <5>1 DEF SameButAt
        <5> QED
          BY <1>10, <4>1, <5>2
      <4> QED
        BY <4>1
    <3> QED
      BY <1>3, <1>10, <3>1, ReadUntil
  <2> HIDE DEF old, new
  <2>3. ASSUME NEW blocked \in BOOLEAN, HasNote(fRangeRoutingTable, fGVT, p, HERE, q, id, blocked)
        PROVE  ~IsValueOverlapping(q.box, old) /\ ~IsValueOverlapping(q.box, new)
    <3> DEFINE e == NoteOf(q, id, blocked)
    <3>1. e.id = id /\ e.time = q.time /\ e.box = q.box
      BY DEF NoteOf
    <3>2. fGVT[p] <= q.time
      BY <1>3, <1>6, <1>10
    <3>3. e \in EntriesOf(list)
      BY <1>5, <2>3, <3>2 DEF HasNote
    <3> HIDE DEF e
    <3>4. InPlace(list)
      BY <1>1, <1>5 DEF AllInPlace
    <3>5. e \in EntriesAt(list, t)
      BY <1>10, <3>1, <3>3, <3>4, EntryIsThere
    <3>6. e.time > t
      <4>1. e.time # t
        BY <1>5, <3>5 DEF SameTime
      <4> QED
        BY <1>3, <1>10, <3>1, <4>1
    <3>7. ~MovesIn(e, old, new)
      <4>1. ASSUME MovesIn(e, old, new) PROVE e.id \in RolledByValue(list, t, old, new)
        BY <3>5, <3>6, <4>1 DEF RolledByValue
      <4>2. id \notin RolledByValue(list, t, old, new)
        BY <1>5 DEF old, new
      <4> QED
        BY <3>1, <4>1, <4>2
    <3> QED
      BY <3>1, <3>7 DEF MovesIn
  <2>4. Entered(fRangeRoutingTable, fGVT, q, id, p) => same
    BY <2>1, <2>2, <2>3 DEF Entered, InBox
  <2> QED
    BY <1>2, <2>4 DEF ReadsSame
<1> QED
  BY <1>3, <1>7, <1>8, <1>9, <1>10

LEMMA WriteStaysOut ==
    ASSUME Types, NEW table, SameNotes(fRangeRoutingTable, table), NEW p, NEW t,
           NEW view, NEW view2, AlikeBefore(view, view2, p, HERE, t), NEW gvt, gvt = fGVT,
           NEW id \in Ids
    PROVE  StaysOut(view, fRangeRoutingTable, fGVT, view2, table, gvt, queries[id], id)
<1>1. PICK q : q = queries[id] /\ q.time \in Time
  BY QueryFields DEF Types
<1>2. ASSUME NEW c \in Clp, NEW d \in Direction \ {HERE},
             KeptOut(view, fRangeRoutingTable, fGVT, c, d, q, id)
      PROVE  KeptOut(view2, table, gvt, c, d, q, id)
  <2>1. HasNote(table, gvt, c, d, q, id, TRUE)
    BY <1>2 DEF KeptOut, HasNote, SameNotes
  <2>2. view2[c][d][q.time] = view[c][d][q.time]
    BY <1>1 DEF AlikeBefore
  <2> QED
    BY <1>2, <2>1, <2>2 DEF KeptOut
<1> QED
  BY <1>1, <1>2 DEF StaysOut

LEMMA SentNoQueries ==
    ASSUME NEW M, net \in [Link -> Seq(M)], NEW p, NEW out,
           \A d \in DOMAIN out : out[d] \in Seq(M),
           \A d \in DOMAIN out : \A m \in ToSet(out[d]) : m.type = "update"
    PROVE  /\ \A id : NoOtherQueries(Sent(p, out), id)
           /\ \A undone : AntisOfUndone(net, undone) => AntisOfUndone(Sent(p, out), undone)
<1>1. ASSUME NEW k \in Link, NEW m \in ToSet(Sent(p, out)[k]), m.type # "update"
      PROVE  m \in ToSet(net[k])
  <2>1. Sent(p, out)[k] = net[k] \o OutOn(k, p, out)
    BY DEF Sent, OutOn
  <2>2. net[k] \in Seq(M) /\ OutOn(k, p, out) \in Seq(M)
    BY OutOnIsSeq
  <2>3. m \in ToSet(net[k]) \/ m \in ToSet(OutOn(k, p, out))
    BY <1>1, <2>1, <2>2, ToSetOfConcat
  <2>4. m \notin ToSet(OutOn(k, p, out))
    <3>1. ToSet(<<>>) = {}
      BY DEF ToSet
    <3> QED
      BY <1>1, <3>1 DEF OutOn
  <2> QED
    BY <2>3, <2>4
<1>2. ASSUME NEW id PROVE NoOtherQueries(Sent(p, out), id)
  BY <1>1 DEF NoOtherQueries
<1>3. ASSUME NEW undone, AntisOfUndone(net, undone) PROVE AntisOfUndone(Sent(p, out), undone)
  BY <1>1, <1>3 DEF AntisOfUndone
<1> QED
  BY <1>2, <1>3

LEMMA UpdatesOnly ==
    ASSUME NEW p, NEW updates \in Seq(Announcement), NEW source
    PROVE  LET out == SendRangeUpdates(p, updates, source)
           IN  /\ \A d \in DOMAIN out : out[d] \in Seq(MessageOf(Ids))
               /\ \A d \in DOMAIN out : \A m \in ToSet(out[d]) : m.type = "update"
<1> DEFINE out == SendRangeUpdates(p, updates, source)
<1>1. \A d \in DOMAIN out : out[d] \in Seq(MessageOf(Ids))
  BY UpdatesMayBeSent DEF MaySend
<1>2. ASSUME NEW d \in DOMAIN out, NEW m \in ToSet(out[d])
      PROVE  m.type = "update"
  <2>1. out[d] = [j \in DOMAIN updates |-> [type |-> "update", time |-> updates[j].time,
                                            range |-> updates[j].range]]
    BY DEF SendRangeUpdates
  <2> HIDE DEF out
  <2> QED
    BY <1>2, <2>1 DEF ToSet
<1> QED
  BY <1>1, <1>2

LEMMA WriteAnswered ==
    ASSUME LinksAgree, Inv, Trails, Answered, NEW v \in Ssv, NEW t \in Time, NEW history,
           IsWrite(v, t, history)
    PROVE  Answered'
<1> DEFINE p == home[v]
           now == [positions EXCEPT ![v] = history]
           range == RecalculateRange(home, now, p, t)
           list == fRangeRoutingTable[p][HERE]
           this == WithRange(list, t, range)
           updates == Announced(list, t, range)
           lists == [fRangeRoutingTable[p] EXCEPT ![HERE] = this]
<1>1. /\ AreHistories(now) /\ Update(v, t, history) /\ SameButAt(positions[v], history, t)
      /\ NotBeforeGvt(t)
  BY DEF IsWrite
<1>2. /\ positions' = now /\ home' = home /\ fGVT' = fGVT /\ fRangeTracker' = fRangeTracker
      /\ queries' = queries /\ answers' = answers /\ retracted' = retracted
  BY <1>1, Zenon DEF Update
<1>3. Types /\ net \in [Link -> Seq(MessageOf(Ids))] /\ positions = [w \in Ssv |-> positions[w]]
  BY DEF Inv, Types, NetTypes, AreMessages, HistoryTypes
<1>4. p \in Clp /\ HERE \in Direction
  BY <1>3, ConstantsAssumption, PortsAreDirections DEF Types, HistoryTypes
<1>5. PICK q \in Clp, sent \in Seq(Announcement) :
        net' = Sent(q, SendRangeUpdates(q, sent, HERE))
  BY <1>1, UpdateKeepsTypes DEF Inv, SendsUpdates
<1>6. PICK out : /\ out = SendRangeUpdates(q, sent, HERE)
                 /\ \A d \in DOMAIN out : out[d] \in Seq(MessageOf(Ids))
                 /\ \A d \in DOMAIN out : \A m \in ToSet(out[d]) : m.type = "update"
  BY UpdatesOnly
<1>7. PICK links : links = net' /\ links = Sent(q, out)
  BY <1>5, <1>6
<1>8. /\ \A id : NoOtherQueries(links, id)
      /\ \A undone : AntisOfUndone(net, undone) => AntisOfUndone(links, undone)
  BY <1>3, <1>6, <1>7, SentNoQueries
<1>9. AntisOfUndone(links, retracted) /\ OwnAnswers(links, queries)
  BY <1>8, NoQueriesNoAnswers, OwnAnswersStay DEF Answered
<1>10. ASSUME IsCalm(met')
       PROVE  \E view \in View :
                Sight(view)' /\ \A id \in Ids' \ (told' \cup retracted'), w \in Ssv : Known(view, id, w)'
  <2>1. /\ met \subseteq met' /\ ~SameTime(list, t) /\ told \subseteq told'
        /\ RolledByValue(list, t, ReadWithoutRecord(positions[v], t),
                         ReadWithoutRecord(history, t)) \subseteq told'
    BY <1>1, <1>10, WriteCalm
  <2>2. IsCalm(met) /\ "tied" \notin met /\ Clear(met')
    BY <1>10, <2>1, CalmIsClear DEF IsCalm
  <2>3. PICK view \in View :
          Sight(view) /\ \A id \in Ids \ (told \cup retracted), w \in Ssv : Known(view, id, w)
    BY <2>2 DEF Answered
  <2>4. PICK view2 \in View : Sight(view2)' /\ AlikeBefore(view, view2, p, HERE, t)
    BY <2>2, <2>3, WriteTurnsSight
  <2>5. t >= fGVT[p]
    BY <1>1, <1>4 DEF NotBeforeGvt
  <2>6. list[1].time <= t
    <3>1. AreTables(fRangeRoutingTable, fGVT, Ids)
      BY <1>3 DEF Types, TableTypes
    <3> HIDE DEF p
    <3> QED
      BY <1>4, <2>5, <3>1, ListFrom
  <2>7. NoneSkipped(list, t, EndTime(positions[v], t))
    BY <1>1, <2>2, <2>6, WriteClear
  <2>8. PICK table : table = fRangeRoutingTable' /\ table = [fRangeRoutingTable EXCEPT ![p] = lists]
    BY <1>1, <2>2, <2>6, WriteClear
  <2>9. SameNotes(fRangeRoutingTable, table)
    <3>1. range \in AnyRange
      BY <1>1, RecalculatedIsRange
    <3>2. /\ Types /\ p \in Clp /\ HERE \in Direction /\ t \in Time
          /\ table = [fRangeRoutingTable EXCEPT
                        ![p] = [fRangeRoutingTable[p] EXCEPT
                                  ![HERE] = WithRange(fRangeRoutingTable[p][HERE], t, range)]]
      BY <1>3, <1>4, <2>8
    <3> HIDE DEF p, range
    <3> QED
      BY ONLY <3>1, <3>2, SameNotesIf
  <2>10. AllInPlace(fRangeRoutingTable)
    BY <2>2 DEF Trails
  <2>11. PICK gvt, h : gvt = fGVT /\ gvt = fGVT' /\ h = now /\ h = positions'
    BY <1>2
  <2>12. h[v] = history /\ \A w \in Ssv : w # v => h[w] = positions[w]
    BY <1>3, <2>11
  <2>13. Ids' = Ids
    BY <1>2 DEF Ids
  <2>14. ASSUME NEW id \in Ids' \ (told' \cup retracted'), NEW w \in Ssv
         PROVE  Known(view2, id, w)'
    <3>1. Known(view, id, w) /\ id \in Ids
      BY <1>2, <2>1, <2>3, <2>13, <2>14
    <3>2. StaysOut(view, fRangeRoutingTable, fGVT, view2, table, gvt, queries[id], id)
      <4> HIDE DEF p
      <4> QED
        BY <1>3, <2>4, <2>9, <2>11, <3>1, WriteStaysOut
    <3>3. ReadsSame(fRangeRoutingTable, fGVT, positions[w], h[w], queries[id], id, w, home[w])
      <4>1. CASE w # v
        BY <2>12, <4>1 DEF ReadsSame
      <4>2. CASE w = v
        <5>1. /\ LinksAgree /\ Types /\ AllInPlace(fRangeRoutingTable) /\ AreHistories(h)
              /\ SameButAt(positions[v], h[v], t) /\ t >= fGVT[home[v]] /\ id \in Ids
              /\ ~SameTime(fRangeRoutingTable[home[v]][HERE], t)
              /\ NoneSkipped(fRangeRoutingTable[home[v]][HERE], t, EndTime(positions[v], t))
              /\ id \notin RolledByValue(fRangeRoutingTable[home[v]][HERE], t,
                       ReadWithoutRecord(positions[v], t), ReadWithoutRecord(h[v], t))
          BY <1>1, <1>3, <2>1, <2>5, <2>7, <2>10, <2>11, <2>12, <2>14, <3>1
        <5> QED
          BY ONLY <4>2, <5>1, WriteReadsSame
      <4> QED
        BY <4>1, <4>2
    <3> HIDE DEF p, now, list, lists, range, this
    <3> QED
      BY <1>2, <1>7, <1>8, <2>8, <2>9, <2>11, <3>1, <3>2, <3>3, KnownIfTurned
  <2> QED
    BY <2>4, <2>14
<1>11. AntisOfUndone(net', retracted') /\ OwnAnswers(net', queries')
  BY <1>2, <1>7, <1>9
<1> QED
  BY <1>10, <1>11 DEF Answered
-----------------------------------------------------------------------------
\* What a CLP that has taken a query knows of it, and what it sends.
StatusCarries(p, status, q, v, r, accounts) ==
    OfVar(status.found, v) \in Share(p, r, q, status.outstanding, accounts)
OutCarries(p, out, id, q, v, r, accounts) ==
    \A k \in Link : k[1] = p /\ GetDirectionFromRank(k[1], k[2]) \in DOMAIN out =>
      \A m \in ToSet(out[GetDirectionFromRank(k[1], k[2])]) :
        m.type = "query" /\ m.id = id => OfVar(m.found, v) \in LinkShare(k, r, q, accounts)

Takes(tracker, p, id, status) ==
    \A c \in Clp : \A j \in DOMAIN tracker[c] :
      \/ c = p /\ j = id /\ tracker[c][j] = status
      \/ (c # p \/ j # id) /\ j \in DOMAIN fRangeTracker[c] /\ tracker[c][j] = fRangeTracker[c][j]

LEMMA TrackedTakes ==
    ASSUME TrackerTypes, NEW p \in Clp, NEW id, NEW status
    PROVE  Takes([fRangeTracker EXCEPT ![p] = Tracked(p, id, status)], p, id, status)
<1> DEFINE mine == Tracked(p, id, status)
           new == [fRangeTracker EXCEPT ![p] = mine]
<1>1. \A c \in Clp : new[c] = IF c = p THEN mine ELSE fRangeTracker[c]
  BY DEF TrackerTypes
<1>2. CASE status.outstanding = {}
  <2>1. DOMAIN mine = DOMAIN fRangeTracker[p] \ {id}
        /\ \A j \in DOMAIN mine : mine[j] = fRangeTracker[p][j]
    BY <1>2 DEF Tracked
  <2> HIDE DEF mine, new
  <2> QED
    BY <1>1, <2>1 DEF Takes, mine, new
<1>3. CASE status.outstanding # {}
  <2>1. DOMAIN mine = DOMAIN fRangeTracker[p] \cup {id}
        /\ \A j \in DOMAIN mine : mine[j] = IF j = id THEN status ELSE fRangeTracker[p][j]
    BY <1>3 DEF Tracked
  <2> HIDE DEF mine, new
  <2>2. Takes(new, p, id, status)
    BY <1>1, <2>1 DEF Takes
  <2> QED
    BY <2>2 DEF new, mine
<1> QED
  BY <1>2, <1>3

LEMMA HandlerCarries ==
    ASSUME NEW M, net \in [Link -> Seq(M)], NEW l \in Link, NEW i \in DOMAIN net[l],
           NEW out, \A d \in DOMAIN out : out[d] \in Seq(M), NEW id, NEW status,
           NEW tracker, Takes(tracker, l[2], id, status), NEW q, NEW v, NEW r, NEW accounts,
           Carried(fRangeTracker, net, answers, id, q, v, r, accounts),
           StatusCarries(l[2], status, q, v, r, accounts),
           OutCarries(l[2], out, id, q, v, r, accounts)
    PROVE  Carried(tracker, Exchanged(l, i, out), answers, id, q, v, r, accounts)
<1>1. ASSUME NEW c \in Clp, id \in DOMAIN tracker[c]
      PROVE  OfVar(tracker[c][id].found, v) \in Share(c, r, q, tracker[c][id].outstanding, accounts)
  <2>1. CASE c = l[2] /\ tracker[c][id] = status
    BY <2>1 DEF StatusCarries
  <2>2. CASE id \in DOMAIN fRangeTracker[c] /\ tracker[c][id] = fRangeTracker[c][id]
    BY <2>2 DEF Carried, TrackersCarry
  <2> QED
    BY <1>1, <2>1, <2>2 DEF Takes
<1>2. ASSUME NEW k \in Link, NEW m \in ToSet(Exchanged(l, i, out)[k]),
             m.type = "query", m.id = id
      PROVE  OfVar(m.found, v) \in LinkShare(k, r, q, accounts)
  <2>1. \/ m \in ToSet(net[k])
        \/ /\ k[1] = l[2] /\ GetDirectionFromRank(k[1], k[2]) \in DOMAIN out
           /\ m \in ToSet(out[GetDirectionFromRank(k[1], k[2])])
    BY <1>2, ExchangedMessages
  <2>2. CASE m \in ToSet(net[k])
    BY <1>2, <2>2 DEF Carried, MessagesCarry
  <2>3. CASE /\ k[1] = l[2] /\ GetDirectionFromRank(k[1], k[2]) \in DOMAIN out
             /\ m \in ToSet(out[GetDirectionFromRank(k[1], k[2])])
    BY <1>2, <2>3 DEF OutCarries
  <2> QED
    BY <2>1, <2>2, <2>3
<1> QED
  BY <1>1, <1>2 DEF Carried, TrackersCarry, MessagesCarry

\* Nothing changes for other queries.
LEMMA OthersStay ==
    ASSUME NEW M, net \in [Link -> Seq(M)], NEW l \in Link, NEW i \in DOMAIN net[l],
           NEW out, \A d \in DOMAIN out : out[d] \in Seq(M), NEW id, OnlyQueries(out, id),
           NEW j, j # id
    PROVE  NoOtherQueries(Exchanged(l, i, out), j)
<1>1. ASSUME NEW k \in Link, NEW m \in ToSet(Exchanged(l, i, out)[k]), m.id = j
      PROVE  m \in ToSet(net[k])
  <2>1. \/ m \in ToSet(net[k])
        \/ /\ GetDirectionFromRank(k[1], k[2]) \in DOMAIN out
           /\ m \in ToSet(out[GetDirectionFromRank(k[1], k[2])])
    BY <1>1, ExchangedMessages
  <2>2. ASSUME NEW d \in DOMAIN out, m \in ToSet(out[d]) PROVE FALSE
    <3>1. PICK found : out[d] = <<Query(id, found)>>
      BY DEF OnlyQueries
    <3>2. m = Query(id, found)
      BY <2>2, <3>1 DEF ToSet
    <3> QED
      BY <1>1, <3>2 DEF Query
  <2> QED
    BY <2>1, <2>2
<1> QED
  BY <1>1 DEF NoOtherQueries

LEMMA OthersCarryOn ==
    ASSUME NEW p, NEW id, NEW status, NEW tracker, Takes(tracker, p, id, status),
           NEW j, j # id, NEW links, NoOtherQueries(links, j)
    PROVE  CarriesOn(tracker, links, answers, j)
<1>1. CarriesOn(fRangeTracker, links, answers, j)
  BY OldQueriesCarry
<1>2. \A c \in Clp : j \in DOMAIN tracker[c] =>
        j \in DOMAIN fRangeTracker[c] /\ tracker[c][j] = fRangeTracker[c][j]
  BY DEF Takes
<1> QED
  BY <1>1, <1>2 DEF CarriesOn, Carried, TrackersCarry

\* A reply has all there is, for where the query came from.
LEMMA ReplyCarriesAll ==
    ASSUME NEW p \in Clp, NEW id, NEW status, status.originPort = AgentPort(p, id),
           NEW v, NEW r, NEW accounts, StatusCarries(p, status, queries[id], v, r, accounts)
    PROVE  OutCarries(p, Reply(id, status), id, queries[id], v, r, accounts)
<1> DEFINE out == Reply(id, status)
<1>1. ASSUME NEW k \in Link, k[1] = p, GetDirectionFromRank(k[1], k[2]) \in DOMAIN out,
             NEW m \in ToSet(out[GetDirectionFromRank(k[1], k[2])])
      PROVE  OfVar(m.found, v) \in LinkShare(k, r, queries[id], accounts)
  <2>1. PICK d : d = GetDirectionFromRank(k[1], k[2])
    OBVIOUS
  <2>2. status.outstanding = {} /\ d = status.originPort /\ out[d] = <<Query(id, status.found)>>
    BY <1>1, <2>1 DEF Reply
  <2> HIDE DEF out
  <2>3. m = Query(id, status.found)
    BY <1>1, <2>1, <2>2 DEF ToSet
  <2>4. m.found = status.found
    BY <2>3 DEF Query
  <2>5. LinkShare(k, r, queries[id], accounts) = Share(p, r, queries[id], {}, accounts)
    BY <1>1, <2>1, <2>2 DEF LinkShare, AgentPort
  <2> QED
    BY <2>2, <2>4, <2>5 DEF StatusCarries
<1> QED
  BY <1>1 DEF OutCarries

\* A query that is passed on has found nothing yet.
LEMMA OnwardCarries ==
    ASSUME NEW p \in Clp, NEW id, NEW ports, AgentPort(p, id) \notin ports,
           NEW v, NEW r, NEW accounts
    PROVE  OutCarries(p, [d \in ports |-> <<Query(id, {})>>], id, queries[id], v, r, accounts)
<1> DEFINE out == [d \in ports |-> <<Query(id, {})>>]
<1>1. ASSUME NEW k \in Link, k[1] = p, GetDirectionFromRank(k[1], k[2]) \in DOMAIN out,
             NEW m \in ToSet(out[GetDirectionFromRank(k[1], k[2])])
      PROVE  OfVar(m.found, v) \in LinkShare(k, r, queries[id], accounts)
  <2>1. PICK d : d = GetDirectionFromRank(k[1], k[2])
    OBVIOUS
  <2>2. d \in ports /\ out[d] = <<Query(id, {})>>
    BY <1>1, <2>1
  <2> HIDE DEF out
  <2>3. m = Query(id, {})
    BY <1>1, <2>1, <2>2 DEF ToSet
  <2>4. OfVar(m.found, v) = {}
    BY <2>3, NothingFound DEF Query
  <2>5. LinkShare(k, r, queries[id], accounts) = {{}}
    BY <1>1, <2>1, <2>2 DEF LinkShare, AgentPort
  <2> QED
    BY <2>4, <2>5
<1> QED
  BY <1>1 DEF OutCarries

\* Replies to an agent are replies to its own query.
LEMMA OwnAnswersSent ==
    ASSUME LinksAgree, Types, OwnAnswers(net, queries), NEW l \in Link, l[2] \in Clp,
           NEW i \in DOMAIN net[l], NEW id \in Ids, NEW out, OnlyQueries(out, id),
           \A d \in DOMAIN out : out[d] \in Seq(MessageOf(Ids)),
           \A d \in DOMAIN out : d \in ClpPorts(l[2]) \cup {AgentPort(l[2], id)}
    PROVE  OwnAnswers(Exchanged(l, i, out), queries)
<1>1. ASSUME NEW a \in Alps, NEW m \in ToSet(Exchanged(l, i, out)[<<AlpParent[a], a>>]),
             m.type = "query"
      PROVE  queries[m.id].agent = a
  <2>1. PICK k \in Link : k = <<AlpParent[a], a>>
    BY AgentLink
  <2>2. net \in [Link -> Seq(MessageOf(Ids))]
    BY DEF Types, NetTypes, AreMessages
  <2>3. \/ m \in ToSet(net[k])
        \/ /\ k[1] = l[2] /\ GetDirectionFromRank(k[1], k[2]) \in DOMAIN out
           /\ m \in ToSet(out[GetDirectionFromRank(k[1], k[2])])
    <3> DEFINE M == MessageOf(Ids)
    <3>1. net \in [Link -> Seq(M)] /\ \A d \in DOMAIN out : out[d] \in Seq(M)
      BY <2>2
    <3>2. m \in ToSet(Exchanged(l, i, out)[k])
      BY <1>1, <2>1
    <3> HIDE DEF M
    <3> QED
      BY <3>1, <3>2, ExchangedMessages
  <2>4. CASE m \in ToSet(net[k])
    BY <1>1, <2>1, <2>4 DEF OwnAnswers
  <2>5. CASE /\ k[1] = l[2] /\ GetDirectionFromRank(k[1], k[2]) \in DOMAIN out
             /\ m \in ToSet(out[GetDirectionFromRank(k[1], k[2])])
    <3>1. PICK d \in DOMAIN out : d = GetDirectionFromRank(k[1], k[2])
      BY <2>5
    <3>2. PICK found : out[d] = <<Query(id, found)>>
      BY DEF OnlyQueries
    <3>3. m.id = id
      <4>1. m = Query(id, found)
        BY <2>5, <3>1, <3>2 DEF ToSet
      <4> QED
        BY <4>1 DEF Query
    <3>4. l[2] = AlpParent[a] /\ d = GetDirectionFromRank(l[2], a)
      BY <2>1, <2>5, <3>1
    <3>5. d = GetDirectionFromRank(l[2], queries[id].agent)
      <4>1. d \notin ClpPorts(l[2])
        BY <3>4, AgentLink
      <4> QED
        BY <4>1 DEF AgentPort
    <3>6. a \in Neighbours(l[2]) \cap Alps /\ queries[id].agent \in LpRank
      BY <3>4, AgentLink, QueryFields, ClpOrAlp DEF Types
    <3>7. \A b \in Neighbours(l[2]) \cap Alps, r \in LpRank :
            GetDirectionFromRank(l[2], r) = GetDirectionFromRank(l[2], b) => r = b
      BY DEF LinksAgree
    <3>8. queries[id].agent = a
      BY <3>4, <3>5, <3>6, <3>7
    <3> QED
      BY <3>3, <3>8
  <2> QED
    BY <2>3, <2>4, <2>5
<1> QED
  BY <1>1 DEF OwnAnswers

\* A CLP that takes a query up accounts for what it notes and sends.
TakesUp(p, id, out, status, table) ==
    \A view \in View, v \in Ssv : \A accounts :
      Sight(view) /\ Known(view, id, v)
        /\ accounts = Accounts(view, table, fGVT, queries[id], id, v, home[v], positions[v])
      => /\ StatusCarries(p, status, queries[id], v, home[v], accounts)
         /\ OutCarries(p, out, id, queries[id], v, home[v], accounts)
KeepsEntries(table) ==
    \A c \in Clp, d \in Direction :
      EntriesOf(fRangeRoutingTable[c][d]) \subseteq EntriesOf(table[c][d])

LEMMA KnownIfTaken ==
    ASSUME LinksAgree, Inv, NEW l \in Link, l[2] \in Clp, NEW i \in DOMAIN net[l], NEW id \in Ids,
           NEW out, \A d \in DOMAIN out : out[d] \in Seq(MessageOf(Ids)),
           NEW status, NEW tracker, tracker = fRangeTracker', Takes(tracker, l[2], id, status),
           NEW links, links = net', links = Exchanged(l, i, out),
           NEW table, table = fRangeRoutingTable', KeepsEntries(table),
           NEW gvt, gvt = fGVT', gvt = fGVT, NEW got, got = answers', got = answers,
           home' = home, positions' = positions, queries' = queries,
           TakesUp(l[2], id, out, status, table),
           NEW view \in View, Sight(view), NEW v \in Ssv, Known(view, id, v)
    PROVE  Known(view, id, v)'
<1>1. home[v] \in Clp /\ \A p \in Clp : GetDirectionFromRank(p, home[v]) \in Direction
  <2>1. home[v] \in Clp /\ home[v] \in LpRank
    BY ConstantsAssumption, ClpOrAlp DEF Inv, Types, HistoryTypes
  <2> QED
    BY <2>1 DEF LinksAgree
<1>2. PICK q, r, h : q = queries[id] /\ r = home[v] /\ h = positions[v]
  OBVIOUS
<1>3. PICK less, accounts : /\ less = Accounts(view, fRangeRoutingTable, fGVT, q, id, v, r, h)
                            /\ accounts = Accounts(view, table, fGVT, q, id, v, r, h)
  OBVIOUS
<1>4. NotesStay(fRangeRoutingTable, fGVT, table, fGVT, q, id)
  BY DEF NotesStay, HasNote, KeepsEntries
<1>5. less \subseteq accounts
  <2>1. r \in Clp /\ \A p \in Clp : GetDirectionFromRank(p, r) \in Direction
    BY <1>1, <1>2
  <2>2. Accounts(view, fRangeRoutingTable, fGVT, q, id, v, r, h)
          \subseteq Accounts(view, table, fGVT, q, id, v, r, h)
    BY ONLY <1>4, <2>1, AccountsStay
  <2> QED
    BY <1>3, <2>2
<1>6. Carried(fRangeTracker, net, answers, id, q, v, r, less)
  BY <1>2, <1>3 DEF Known
<1>7. Carried(fRangeTracker, net, answers, id, q, v, r, accounts)
  BY <1>5, <1>6, CarriedByMore
<1>8. StatusCarries(l[2], status, q, v, r, accounts) /\ OutCarries(l[2], out, id, q, v, r, accounts)
  BY <1>2, <1>3 DEF TakesUp
<1>9. Carried(tracker, links, got, id, q, v, r, accounts)
  <2> DEFINE M == MessageOf(Ids)
  <2>1. net \in [Link -> Seq(M)] /\ \A d \in DOMAIN out : out[d] \in Seq(M)
    BY DEF Inv, Types, NetTypes, AreMessages
  <2> HIDE DEF M
  <2>2. Carried(tracker, Exchanged(l, i, out), answers, id, q, v, r, accounts)
    BY <1>7, <1>8, <2>1, HandlerCarries
  <2> QED
    BY <2>2
<1>10. accounts = Accounts(view, table, gvt, q, id, v, r, h)
  BY <1>3
<1>11. q = queries'[id] /\ r = home'[v] /\ h = positions'[v]
  BY <1>2
<1> QED
  BY <1>9, <1>10, <1>11 DEF Known

LEMMA HandlerAnswered ==
    ASSUME LinksAgree, Inv, Answered, NEW l \in Link, l[2] \in Clp, NEW i \in DOMAIN net[l],
           NEW id \in Ids, NEW out, OnlyQueries(out, id),
           \A d \in DOMAIN out : d \in ClpPorts(l[2]) \cup {AgentPort(l[2], id)},
           NEW status, fRangeTracker' = [fRangeTracker EXCEPT ![l[2]] = Tracked(l[2], id, status)],
           net' = Exchanged(l, i, out), NEW table, table = fRangeRoutingTable', KeepsEntries(table),
           KeepsSight, fGVT' = fGVT, told' = told,
           UNCHANGED <<home, positions, queries, answers, retracted>>,
           IsCalm(met') => TakesUp(l[2], id, out, status, table)
    PROVE  Answered'
<1> DEFINE M == MessageOf(Ids)
<1>1. PICK links : links = net' /\ links = Exchanged(l, i, out)
  OBVIOUS
<1>2. PICK tracker : tracker = fRangeTracker' /\ Takes(tracker, l[2], id, status)
  BY TrackedTakes DEF Inv, Types
<1>3. PICK gvt, got : gvt = fGVT' /\ gvt = fGVT /\ got = answers' /\ got = answers
  OBVIOUS
<1>4. Types /\ net \in [Link -> Seq(M)]
  BY DEF Inv, Types, NetTypes, AreMessages
<1>5. \A d \in DOMAIN out : out[d] \in Seq(M)
  <2>1. \A found \in Found : <<Query(id, found)>> \in Seq(M)
    BY MessagesToSend
  <2> HIDE DEF M
  <2> QED
    BY <2>1 DEF OnlyQueries
<1>6. \A d \in DOMAIN out : \A m \in ToSet(out[d]) : m.type = "query"
  <2>1. ASSUME NEW d \in DOMAIN out, NEW m \in ToSet(out[d])
        PROVE  \E found : m = Query(id, found)
    <3>1. PICK found : out[d] = <<Query(id, found)>>
      BY DEF OnlyQueries
    <3> QED
      BY <2>1, <3>1 DEF ToSet
  <2> QED
    BY <2>1 DEF Query
<1>7. AntisOfUndone(links, retracted)
  <2>1. AntisOfUndone(net, retracted)
    BY DEF Answered
  <2>2. \A d \in DOMAIN out : \A m \in ToSet(out[d]) : m.type = "anti" => m.id \in retracted
    BY <1>6
  <2> HIDE DEF M
  <2> QED
    BY <1>1, <1>4, <1>5, <2>1, <2>2, ExchangedAntis
<1>8. OwnAnswers(links, queries)
  BY <1>1, <1>4, <1>5, OwnAnswersSent DEF Answered
<1>9. ASSUME IsCalm(met') PROVE KeepsKnown
  <2>1. ASSUME NEW view \in View, Sight(view), NEW j \in Ids \ retracted, NEW v \in Ssv,
               Known(view, j, v)
        PROVE  Known(view, j, v)'
    <3>1. CASE j = id
      BY <1>1, <1>2, <1>3, <1>5, <1>9, <2>1, <3>1, KnownIfTaken
    <3>2. CASE j # id
      <4> HIDE DEF M
      <4>1. CarriesOn(tracker, links, got, j)
        <5>1. NoOtherQueries(links, j)
          BY <1>1, <1>4, <1>5, <3>2, OthersStay
        <5>2. CarriesOn(tracker, links, answers, j)
          BY <1>2, <3>2, <5>1, OthersCarryOn
        <5> QED
          BY <1>3, <5>2
      <4>2. NotesStay(fRangeRoutingTable, fGVT, table, gvt, queries[j], j)
        BY <1>3 DEF NotesStay, HasNote, KeepsEntries
      <4>3. queries'[j] = queries[j]
        OBVIOUS
      <4> QED
        BY <1>1, <1>2, <1>3, <2>1, <4>1, <4>2, <4>3, KnownIfCarried
    <3> QED
      BY <3>1, <3>2
  <2> QED
    BY <2>1 DEF KeepsKnown
<1>10. AntisOfUndone(net', retracted') /\ OwnAnswers(net', queries')
  BY <1>1, <1>7, <1>8
<1> QED
  BY <1>9, <1>10, AnsweredIfKept

\* The CLP a reply comes from has found what is beyond it, and nothing else; what is
\* waited for is not found yet.
LEMMA ReplyIsAwaited ==
    ASSUME LinksAgree, Inv, NEW l \in Link, l[2] \in Clp, NEW i \in DOMAIN net[l],
           net[l][i].type = "query", NEW id, id = net[l][i].id, id \in DOMAIN fRangeTracker[l[2]]
    PROVE  /\ l[1] \in Clp /\ GetDirectionFromRank(l[1], l[2]) = GetDirectionFromRank(l[1], queries[id].agent)
           /\ GetDirectionFromRank(l[2], l[1]) # GetDirectionFromRank(l[2], queries[id].agent)
           /\ GetDirectionFromRank(l[2], l[1]) \in fRangeTracker[l[2]][id].outstanding
           /\ \A r \in LpRank : GetDirectionFromRank(l[2], r) = GetDirectionFromRank(l[2], l[1])
                <=> GetDirectionFromRank(l[1], r) # GetDirectionFromRank(l[1], queries[id].agent)
<1>1. PICK p \in Clp : p = l[2]
  OBVIOUS
<1>2. PICK s : s = l[1]
  OBVIOUS
<1>3. id \in Ids /\ s \in ClpNeighbours(p) /\ IsBeyond(p, s, id)
  BY <1>1, <1>2, CameFrom
<1>4. PICK a : a = queries[id].agent /\ a \in LpRank
  BY <1>3, QueryFields, ClpOrAlp DEF Inv, Types
<1>5. /\ s \in Clp
      /\ \A r \in LpRank : GetDirectionFromRank(p, r) = GetDirectionFromRank(p, s)
           <=> GetDirectionFromRank(s, r) # GetDirectionFromRank(s, p)
  BY <1>3, BothWays
<1>6. GetDirectionFromRank(p, s) # GetDirectionFromRank(p, a)
  BY <1>3, <1>4 DEF IsBeyond, AgentPort
<1>7. GetDirectionFromRank(s, a) = GetDirectionFromRank(s, p)
  BY <1>4, <1>5, <1>6
<1>8. GetDirectionFromRank(p, s) \in fRangeTracker[p][id].outstanding
  <2>1. Edge(net, fRangeTracker, p, s, id)
    BY <1>3 DEF Inv, Edges
  <2>2. l = <<s, p>>
    BY <1>1, <1>2, LinkEnds
  <2>3. PICK there, back, before :
          /\ there = InQueue(net[<<p, s>>], id) /\ back = InQueue(net[<<s, p>>], id)
          /\ before = Tracks(fRangeTracker, s, id)
    OBVIOUS
  <2>4. back \in Nat /\ back >= 1
    BY <2>2, <2>3, Counts DEF Inv
  <2>5. there \in Nat /\ before \in Nat
    BY <1>3, <2>3, BothWays, Counts DEF Inv, Tracks
  <2>6. there + back + before = Waits(fRangeTracker, p, GetDirectionFromRank(p, s), id)
    BY <2>1, <2>3 DEF Edge
  <2>7. Waits(fRangeTracker, p, GetDirectionFromRank(p, s), id) # 0
    BY <2>4, <2>5, <2>6
  <2> QED
    BY <2>7 DEF Waits
<1> QED
  BY <1>1, <1>2, <1>4, <1>5, <1>6, <1>7, <1>8

LEMMA ReplyTakesUp ==
    ASSUME LinksAgree, Inv, NEW l \in Link, l[2] \in Clp, NEW i \in DOMAIN net[l],
           net[l][i].type = "query", NEW id, id = net[l][i].id, id \in DOMAIN fRangeTracker[l[2]],
           NEW status, status.originPort = AgentPort(l[2], id),
           status.outstanding = fRangeTracker[l[2]][id].outstanding \ {GetDirectionFromRank(l[2], l[1])},
           status.found = fRangeTracker[l[2]][id].found \cup net[l][i].found
    PROVE  TakesUp(l[2], id, Reply(id, status), status, fRangeRoutingTable)
<1>1. PICK p \in Clp : p = l[2]
  OBVIOUS
<1>2. PICK s \in Clp : s = l[1]
  BY ReplyIsAwaited
<1>3. PICK q, outs, m : q = queries[id] /\ outs = fRangeTracker[p][id].outstanding /\ m = net[l][i]
  OBVIOUS
<1>4. /\ GetDirectionFromRank(s, p) = GetDirectionFromRank(s, q.agent)
      /\ GetDirectionFromRank(p, s) # GetDirectionFromRank(p, q.agent)
      /\ GetDirectionFromRank(p, s) \in outs
      /\ \A r \in LpRank : GetDirectionFromRank(p, r) = GetDirectionFromRank(p, s)
           <=> GetDirectionFromRank(s, r) # GetDirectionFromRank(s, q.agent)
  BY <1>1, <1>2, <1>3, ReplyIsAwaited
<1>5. ASSUME NEW v \in Ssv, NEW accounts,
             Carried(fRangeTracker, net, answers, id, q, v, home[v], accounts)
      PROVE  StatusCarries(p, status, q, v, home[v], accounts)
  <2>1. PICK r \in LpRank : r = home[v]
    BY ConstantsAssumption, ClpOrAlp DEF Inv, Types, HistoryTypes
  <2>2. PICK had, has : had = OfVar(fRangeTracker[p][id].found, v) /\ has = OfVar(m.found, v)
    OBVIOUS
  <2>3. OfVar(status.found, v) = had \cup has
    <3>1. PICK f, g : /\ f = fRangeTracker[p][id].found /\ g = m.found
                      /\ status.found = f \cup g
      BY <1>1, <1>3
    <3>2. OfVar(f \cup g, v) = OfVar(f, v) \cup OfVar(g, v)
      BY ONLY FoundTogether
    <3> QED
      BY <2>2, <3>1, <3>2, Zenon
  <2>4. had \in Share(p, r, q, outs, accounts)
    BY <1>1, <1>3, <1>5, <2>1, <2>2, ZenonT(30) DEF Carried, TrackersCarry
  <2>5. has \in LinkShare(l, r, q, accounts)
    <3>1. m \in ToSet(net[l])
      BY <1>3 DEF ToSet
    <3> QED
      BY <1>3, <1>5, <2>1, <2>2, <3>1 DEF Carried, MessagesCarry
  <2>6. has \in Share(s, r, q, {}, accounts)
    BY <1>1, <1>2, <1>4, <2>5 DEF LinkShare
  <2>7. status.outstanding = outs \ {GetDirectionFromRank(p, s)}
    BY <1>1, <1>2, <1>3
  <2>8. CASE GetDirectionFromRank(p, r) = GetDirectionFromRank(p, s)
    <3>1. had = {}
      BY <1>4, <2>4, <2>8 DEF Share
    <3>2. has \in accounts
      BY <1>4, <2>6, <2>8 DEF Share
    <3>3. Share(p, r, q, status.outstanding, accounts) = accounts
      BY <1>4, <2>7, <2>8 DEF Share
    <3>4. had \cup has = has
      BY <3>1
    <3> QED
      BY <2>1, <2>3, <3>2, <3>3, <3>4, Zenon DEF StatusCarries
  <2>9. CASE GetDirectionFromRank(p, r) # GetDirectionFromRank(p, s)
    <3>1. has = {}
      BY <1>4, <2>6, <2>9 DEF Share
    <3>2. Share(p, r, q, status.outstanding, accounts) = Share(p, r, q, outs, accounts)
      BY <2>7, <2>9 DEF Share
    <3>3. had \cup has = had
      BY <3>1
    <3> QED
      BY <2>1, <2>3, <2>4, <3>2, <3>3, Zenon DEF StatusCarries
  <2> QED
    BY <2>8, <2>9
<1>6. ASSUME NEW view \in View, NEW v \in Ssv, NEW accounts, Known(view, id, v),
             accounts = Accounts(view, fRangeRoutingTable, fGVT, queries[id], id, v, home[v],
                                 positions[v])
      PROVE  /\ StatusCarries(p, status, queries[id], v, home[v], accounts)
             /\ OutCarries(p, Reply(id, status), id, queries[id], v, home[v], accounts)
  <2>1. Carried(fRangeTracker, net, answers, id, q, v, home[v], accounts)
    BY <1>3, <1>6 DEF Known
  <2>2. StatusCarries(p, status, queries[id], v, home[v], accounts)
    BY <1>3, <1>5, <2>1
  <2> QED
    BY <1>1, <2>2, ReplyCarriesAll
<1> QED
  BY <1>1, <1>6 DEF TakesUp

LEMMA ReplyAnswered ==
    ASSUME LinksAgree, Inv, Answered, NEW l \in Link, l[2] \in Clp, NEW i \in DOMAIN net[l],
           ProcessReply(l[2], l, i), fGVT' = fGVT,
           UNCHANGED <<home, positions, queries, answers, retracted>>
    PROVE  Answered'
<1> DEFINE p == l[2]
           id == net[l][i].id
           old == fRangeTracker[p][id]
           status == Scanned(p, l, id, net[l][i].found)
           out == Reply(id, status)
<1>1. /\ net[l][i].type = "query" /\ id \in DOMAIN fRangeTracker[p]
      /\ fRangeTracker' = [fRangeTracker EXCEPT ![p] = Tracked(p, id, status)]
      /\ net' = Exchanged(l, i, out)
      /\ fRangeRoutingTable' = fRangeRoutingTable /\ told' = told
  BY DEF ProcessReply
<1>2. Types /\ TrackerTypes /\ Origins /\ AreMessages(net, Ids)
  BY DEF Inv, Types, NetTypes
<1>3. id \in Ids
  BY <1>1, CameFrom
<1>4. old \in Status /\ old.originPort = AgentPort(p, id)
  BY <1>1, <1>2 DEF TrackerTypes, AreTrackers, Origins
<1>5. /\ status.originPort = AgentPort(p, id)
      /\ status.outstanding = old.outstanding \ {GetDirectionFromRank(p, l[1])}
      /\ status.found = old.found \cup net[l][i].found
  <2>1. status = [old EXCEPT !.outstanding = @ \ {GetDirectionFromRank(p, l[1])},
                             !.found = @ \cup net[l][i].found]
    BY DEF Scanned
  <2> HIDE DEF status, old
  <2> QED
    BY <1>4, <2>1 DEF Status
<1>6. status.found \in Found
  <2>1. net[l][i].found \in Found
    <3>1. net[l][i] \in MessageOf(Ids)
      BY <1>2 DEF AreMessages
    <3> QED
      BY <1>1, <3>1, MessageFields
  <2>2. old.found \in Found
    BY <1>4 DEF Status
  <2> HIDE DEF old, status
  <2> QED
    BY <1>5, <2>1, <2>2, FoundIsClosed
<1> HIDE DEF status
<1>7. /\ OnlyQueries(out, id)
      /\ \A d \in DOMAIN out : d \in ClpPorts(p) \cup {AgentPort(p, id)}
  <2> HIDE DEF id
  <2> QED
    BY <1>5, <1>6 DEF Reply, OnlyQueries
<1>8. TakesUp(p, id, out, status, fRangeRoutingTable)
  BY <1>1, <1>5, ReplyTakesUp
<1>9. PICK table : table = fRangeRoutingTable /\ table = fRangeRoutingTable'
  BY <1>1
<1>10. KeepsEntries(table)
  BY <1>9 DEF KeepsEntries
<1>11. KeepsSight
  BY ReplyKeepsSight
<1> HIDE DEF out, id, p
<1> QED
  BY <1>1, <1>3, <1>7, <1>8, <1>9, <1>10, <1>11, HandlerAnswered DEF p

\* A new query is noted at every port, and with it whether it was blocked there.
LEMMA NotedNotes ==
    ASSUME Types, LinksAgree, NEW p \in Clp, NEW id \in Ids, NEW table,
           table = [fRangeRoutingTable EXCEPT ![p] = Noted(p, id)], NEW d \in Ranged(p, id)
    PROVE  NoteOf(queries[id], id, d \notin NotBlocked(p, id)) \in EntriesOf(table[p][d])
<1>1. PICK e : e = NoteOf(queries[id], id, d \notin NotBlocked(p, id))
  OBVIOUS
<1>2. e \in EntryOf(Ids) /\ e.time = queries[id].time
  <2>1. /\ queries[id].agent \in Alps /\ queries[id].time \in Time /\ queries[id].box \in Box
    BY QueryFields DEF Types
  <2> QED
    BY <1>1, <2>1 DEF NoteOf, EntryOf
<1>3. d \in Direction /\ HasRangePeriod(fRangeRoutingTable[p][d], queries[id].time)
  BY PortsAreDirections DEF Ranged, Targets
<1>4. PICK list \in Periods(Ids) : list = fRangeRoutingTable[p][d]
  BY <1>3 DEF Types, TableTypes, AreTables
<1>5. table[p][d] = AddRangeQueryInfo(list, e)
  <2>1. table[p] = Noted(p, id)
    BY DEF Types, TableTypes, AreTables
  <2>2. Noted(p, id)[d] = AddRangeQueryInfo(fRangeRoutingTable[p][d],
          [id |-> id, time |-> queries[id].time, box |-> queries[id].box,
           blocked |-> d \notin NotBlocked(p, id), agent |-> queries[id].agent])
    BY <1>3 DEF Noted
  <2> QED
    BY <1>1, <1>4, <2>1, <2>2 DEF NoteOf
<1>6. HasRangePeriod(list, e.time) => e \in EntriesOf(AddRangeQueryInfo(list, e))
  BY <1>2, AddRangeQueryInfoEntries
<1> QED
  BY <1>1, <1>2, <1>3, <1>4, <1>5, <1>6

\* Where it is blocked there is nothing in the box, unless the boxes cross.
LEMMA BlockedIsOutside ==
    ASSUME LinksAgree, Types, NEW view \in View, Sight(view), NEW p \in Clp, NEW id \in Ids,
           fGVT[p] <= queries[id].time, ~Crosses(p, id),
           NEW d \in Ranged(p, id), d \notin NotBlocked(p, id), Beyond(p, d, home) # {}
    PROVE  ~HaveCommonPoint(view[p][d][queries[id].time], queries[id].box)
<1>1. PICK t \in Time : t = queries[id].time
  BY QueryFields DEF Types
<1>2. d \in Direction
  BY PortsAreDirections DEF Ranged, Targets
<1>3. t >= fGVT[p]
  <2>1. fGVT[p] \in Nat /\ t \in Nat
    BY <1>1, TimesAreNumbers DEF Types, TableTypes, AreTables
  <2> QED
    BY <1>1, <2>1
<1>4. view[p][d][t] = RangeAt(fRangeRoutingTable[p][d], t)
  BY <1>2, <1>3 DEF Sight, Sees, ShowsTables
<1>5. view[p][d][t] # NoRange
  BY <1>2 DEF Sight, Sees, NoneOnlyWhere
<1>6. ~IsRangeOverlapping(view[p][d][t], queries[id].box)
  BY <1>1, <1>4, <1>5 DEF NotBlocked
<1>7. ~Crossing(view[p][d][t], queries[id].box)
  BY <1>1, <1>4 DEF Crosses
<1> QED
  BY <1>1, <1>5, <1>6, <1>7 DEF Crossing

\* Of the CLP's own variables.
LEMMA BlockedHere ==
    ASSUME LinksAgree, Types, NEW view \in View, Sight(view), NEW id \in Ids, NEW v \in Ssv,
           fGVT[home[v]] <= queries[id].time, ~Crosses(home[v], id),
           HERE \in Ranged(home[v], id), HERE \notin NotBlocked(home[v], id)
    PROVE  InBox(v, ReadWithoutRecord(positions[v], queries[id].time), queries[id].box) = {}
<1>1. PICK t \in Time : t = queries[id].time
  BY QueryFields DEF Types
<1>2. PICK p \in Clp : p = home[v]
  BY ConstantsAssumption DEF Types, HistoryTypes
<1>3. v \in Beyond(p, HERE, home)
  <2>1. GetDirectionFromRank(p, p) = HERE
    BY <1>2, ClpOrAlp DEF LinksAgree
  <2> QED
    BY <1>2, <2>1 DEF Beyond
<1>4. ~HaveCommonPoint(view[p][HERE][t], queries[id].box)
  BY <1>1, <1>2, <1>3, BlockedIsOutside
<1>5. IsValueOverlapping(view[p][HERE][t], ReadWithoutRecord(positions[v], t))
  BY <1>2 DEF Sight, Sees, CoversHere
<1>6. view[p][HERE][t] \in Framed /\ queries[id].box \in Box
  BY PortsAreDirections, QueryFields DEF View, Types
<1>7. ReadWithoutRecord(positions[v], t) \in Point
  BY ReadIsPoint, PointsArePoints DEF Types, HistoryTypes
<1>8. ~IsValueOverlapping(queries[id].box, ReadWithoutRecord(positions[v], t))
  BY <1>4, <1>5, <1>6, <1>7, OutsideBox
<1> QED
  BY <1>1, <1>8 DEF InBox

\* What a CLP has of a new query: what it has read, or nothing of what the query was
\* blocked on the way to.
LEMMA NewStatusCarries ==
    ASSUME LinksAgree, WaysAgree, Inv, NEW view \in View, Sight(view), NEW p \in Clp, NEW id \in Ids,
           fGVT[p] <= queries[id].time, ~Crosses(p, id), NEW table,
           table = [fRangeRoutingTable EXCEPT ![p] = Noted(p, id)], NEW status,
           status.outstanding = NotBlocked(p, id) \ {HERE},
           status.found = IF HERE \in NotBlocked(p, id)
                          THEN RangeRead(p, queries[id].box, queries[id].time) ELSE {},
           NEW v \in Ssv, NEW accounts,
           accounts = Accounts(view, table, fGVT, queries[id], id, v, home[v], positions[v])
    PROVE  StatusCarries(p, status, queries[id], v, home[v], accounts)
<1>1. PICK r : r = home[v] /\ r \in Clp /\ r \in LpRank
  BY ConstantsAssumption, ClpOrAlp DEF Inv, Types, HistoryTypes
<1>2. PICK d \in Direction : d = GetDirectionFromRank(p, r)
  BY <1>1 DEF LinksAgree
<1>3. d = HERE <=> r = p
  BY <1>1, <1>2 DEF LinksAgree
<1>4. PICK q : q = queries[id]
  OBVIOUS
<1>5. Types
  BY DEF Inv
<1>6. q.agent \in Alps /\ q.agent \in LpRank /\ q.agent # p
  BY <1>4, <1>5, QueryFields, ClpOrAlp DEF Types
<1>7. AgentPort(p, id) = GetDirectionFromRank(p, q.agent) /\ AgentPort(p, id) # HERE
  <2>1. AgentPort(p, id) = GetDirectionFromRank(p, q.agent)
    BY <1>4 DEF AgentPort
  <2> QED
    BY <1>6, <2>1 DEF LinksAgree
<1>8. Targets(p, id) \subseteq Ranged(p, id)
  <2>1. Outstanding(p, id) = NotBlocked(p, id) \ {HERE}
    BY AllRanged
  <2>2. NotBlocked(p, id) \subseteq Ranged(p, id)
    BY DEF NotBlocked
  <2> QED
    BY <2>1, <2>2 DEF Outstanding
<1>9. /\ r # p => OfVar(status.found, v) = {}
      /\ r = p /\ HERE \in NotBlocked(p, id) =>
           OfVar(status.found, v) = InBox(v, ReadWithoutRecord(positions[v], q.time), q.box)
  <2>1. OfVar(RangeRead(p, queries[id].box, queries[id].time), v)
          = IF home[v] = p THEN InBox(v, ReadWithoutRecord(positions[v], queries[id].time), queries[id].box)
            ELSE {}
    BY FoundHere
  <2> QED
    BY <1>1, <1>4, <2>1, NothingFound
<1>10. CASE d \in status.outstanding \cup {AgentPort(p, id)}
  <2>1. r # p
    BY <1>3, <1>7, <1>10
  <2>2. Share(p, r, q, status.outstanding, accounts) = {{}}
    BY <1>2, <1>7, <1>10 DEF Share
  <2> QED
    BY <1>1, <1>4, <1>9, <2>1, <2>2 DEF StatusCarries
<1>11. CASE d \notin status.outstanding \cup {AgentPort(p, id)}
  <2>1. Share(p, r, q, status.outstanding, accounts) = accounts
    BY <1>2, <1>7, <1>11 DEF Share
  <2>2. CASE r = p
    <3>1. HERE \in Ranged(p, id)
      BY <1>7, <1>8 DEF Targets
    <3>2. NoteOf(q, id, HERE \notin NotBlocked(p, id)) \in EntriesOf(table[p][HERE])
      BY <1>4, <1>5, <3>1, NotedNotes
    <3>3. Entered(table, fGVT, q, id, r)
      <4>1. (HERE \notin NotBlocked(p, id)) \in BOOLEAN
        OBVIOUS
      <4>2. HasNote(table, fGVT, p, HERE, q, id, HERE \notin NotBlocked(p, id))
        BY <3>2 DEF HasNote
      <4> QED
        BY <2>2, <4>1, <4>2 DEF Entered
    <3>4. InBox(v, ReadWithoutRecord(positions[v], q.time), q.box) \in accounts
      BY <1>1, <1>4, <3>3 DEF Accounts
    <3>5. OfVar(status.found, v) = InBox(v, ReadWithoutRecord(positions[v], q.time), q.box)
      <4>1. CASE HERE \in NotBlocked(p, id)
        BY <1>9, <2>2, <4>1
      <4>2. CASE HERE \notin NotBlocked(p, id)
        <5>1. OfVar(status.found, v) = {}
          BY <4>2, NothingFound
        <5>2. InBox(v, ReadWithoutRecord(positions[v], queries[id].time), queries[id].box) = {}
          BY <1>1, <1>5, <2>2, <3>1, <4>2, BlockedHere
        <5> QED
          BY <1>4, <5>1, <5>2
      <4> QED
        BY <4>1, <4>2
    <3> QED
      BY <1>1, <1>4, <2>1, <3>4, <3>5 DEF StatusCarries
  <2>3. CASE r # p
    <3>1. d \in ClpPorts(p)
      <4>1. PICK n \in Neighbours(p) : d = GetDirectionFromRank(p, n)
        BY <1>1, <1>2, <2>3 DEF WaysAgree
      <4>2. n \in LpRank
        BY DEF LinksAgree
      <4>3. n \notin Alps
        <5>1. ASSUME n \in Alps PROVE FALSE
          <6>1. \A a \in Neighbours(p) \cap Alps : \A x \in LpRank :
                  GetDirectionFromRank(p, x) = GetDirectionFromRank(p, a) => x = a
            BY DEF LinksAgree
          <6>2. r = n
            BY <1>1, <1>2, <4>1, <5>1, <6>1
          <6> QED
            BY <1>1, <5>1, <6>2, ClpOrAlp
        <5> QED
          BY <5>1
      <4>4. n \in Clp
        BY <4>2, <4>3 DEF LpRank
      <4>5. ClpPorts(p) = {GetDirectionFromRank(p, x) : x \in Neighbours(p) \cap Clp}
        BY DEF LinksAgree
      <4> QED
        BY <4>1, <4>4, <4>5
    <3>2. d \in Ranged(p, id) /\ d \notin NotBlocked(p, id)
      BY <1>3, <1>8, <1>11, <2>3, <3>1 DEF Targets
    <3>3. NoteOf(q, id, TRUE) \in EntriesOf(table[p][d])
      <4>1. NoteOf(queries[id], id, d \notin NotBlocked(p, id)) \in EntriesOf(table[p][d])
        BY <1>5, <3>2, NotedNotes
      <4>2. (d \notin NotBlocked(p, id)) = TRUE
        BY <3>2
      <4> QED
        BY <1>4, <4>1, <4>2
    <3>4. ~HaveCommonPoint(view[p][d][q.time], q.box)
      <4>1. v \in Beyond(p, d, home)
        BY <1>1, <1>2 DEF Beyond
      <4> QED
        BY <1>4, <1>5, <3>2, <4>1, BlockedIsOutside
    <3>5. KeptOut(view, table, fGVT, p, d, q, id)
      BY <3>3, <3>4 DEF KeptOut, HasNote
    <3>6. Explained(view, table, fGVT, q, id, r)
      BY <1>2, <2>3, <3>5 DEF Explained
    <3>7. {} \in accounts
      BY <1>1, <1>4, <3>6 DEF Accounts
    <3> QED
      BY <1>1, <1>4, <1>9, <2>1, <2>3, <3>7 DEF StatusCarries
  <2> QED
    BY <2>2, <2>3
<1> QED
  BY <1>10, <1>11

LEMMA NewQueryTakesUp ==
    ASSUME LinksAgree, WaysAgree, Inv, NEW p \in Clp, NEW id \in Ids, fGVT[p] <= queries[id].time,
           ~Crosses(p, id), NEW table, table = [fRangeRoutingTable EXCEPT ![p] = Noted(p, id)],
           NEW status, status.originPort = AgentPort(p, id),
           status.outstanding = NotBlocked(p, id) \ {HERE},
           status.found = IF HERE \in NotBlocked(p, id)
                          THEN RangeRead(p, queries[id].box, queries[id].time) ELSE {},
           NEW out, \/ out = Reply(id, status)
                    \/ out = [d \in NotBlocked(p, id) \ {HERE} |-> <<Query(id, {})>>]
    PROVE  TakesUp(p, id, out, status, table)
<1>1. AgentPort(p, id) \notin NotBlocked(p, id) \ {HERE}
  BY AllRanged
<1>2. ASSUME NEW view \in View, NEW v \in Ssv, NEW accounts, Sight(view),
             accounts = Accounts(view, table, fGVT, queries[id], id, v, home[v], positions[v])
      PROVE  /\ StatusCarries(p, status, queries[id], v, home[v], accounts)
             /\ OutCarries(p, out, id, queries[id], v, home[v], accounts)
  <2>1. StatusCarries(p, status, queries[id], v, home[v], accounts)
    BY <1>2, NewStatusCarries
  <2>2. CASE out = Reply(id, status)
    BY <2>1, <2>2, ReplyCarriesAll
  <2>3. CASE out = [d \in NotBlocked(p, id) \ {HERE} |-> <<Query(id, {})>>]
    <3>1. PICK ports : ports = NotBlocked(p, id) \ {HERE}
      OBVIOUS
    <3>2. AgentPort(p, id) \notin ports
      BY <1>1, <3>1
    <3>3. PICK q, r : q = queries[id] /\ r = home[v]
      OBVIOUS
    <3>4. OutCarries(p, [d \in ports |-> <<Query(id, {})>>], id, queries[id], v, r, accounts)
      BY ONLY p \in Clp, <3>2, OnwardCarries
    <3>5. out = [d \in ports |-> <<Query(id, {})>>]
      BY <2>3, <3>1
    <3> QED
      BY <2>1, <3>3, <3>4, <3>5
  <2> QED
    BY <2>1, <2>2, <2>3
<1> QED
  BY <1>2 DEF TakesUp

LEMMA NewQueryAnswered ==
    ASSUME LinksAgree, WaysAgree, Inv, Answered, NEW l \in Link, l[2] \in Clp,
           NEW i \in DOMAIN net[l], ProcessNewQuery(l[2], l, i), fGVT' = fGVT,
           UNCHANGED <<home, positions, queries, answers, retracted>>
    PROVE  Answered'
<1> DEFINE p == l[2]
           id == net[l][i].id
           found == IF HERE \in NotBlocked(p, id)
                    THEN RangeRead(p, queries[id].box, queries[id].time) ELSE {}
           status == [originPort |-> AgentPort(p, id), outstanding |-> Outstanding(p, id),
                      found |-> found]
           onward == [d \in NotBlocked(p, id) \ {HERE} |-> <<Query(id, {})>>]
           out == IF status.outstanding = {} THEN Reply(id, status) ELSE onward
           new == [fRangeRoutingTable EXCEPT ![p] = Noted(p, id)]
<1>1. /\ net[l][i].type = "query" /\ id \notin DOMAIN fRangeTracker[p]
      /\ fRangeTracker' = [fRangeTracker EXCEPT ![p] = Tracked(p, id, status)]
      /\ net' = Exchanged(l, i, out) /\ fRangeRoutingTable' = new
      /\ met' = met \cup (IF Crosses(p, id) THEN {"crossed"} ELSE {})
      /\ told' = told
  BY DEF ProcessNewQuery
<1>2. Types /\ InTime(net, fGVT, queries)
  BY DEF Inv
<1>3. id \in Ids
  BY <1>1, CameFrom
<1>4. fGVT[p] <= queries[id].time
  <2>1. net[l][i] \in ToSet(net[l])
    BY DEF ToSet
  <2> QED
    BY <1>1, <1>2, <2>1 DEF InTime
<1>5. Outstanding(p, id) = NotBlocked(p, id) \ {HERE}
  BY <1>3, <1>4, AllRanged
<1>6. found \in Found /\ {} \in Found
  <2>1. RangeRead(p, queries[id].box, queries[id].time) \in Found
    BY <1>2, <1>3, QueryFields, RangeReadIsFound DEF Types, HistoryTypes
  <2> QED
    BY <2>1, FoundIsClosed
<1>7. /\ status.originPort = AgentPort(p, id)
      /\ status.outstanding = NotBlocked(p, id) \ {HERE} /\ status.found = found
  BY <1>5
<1>8. \/ out = Reply(id, status)
      \/ out = [d \in NotBlocked(p, id) \ {HERE} |-> <<Query(id, {})>>]
  OBVIOUS
<1> HIDE DEF status, out
<1>9. /\ OnlyQueries(out, id)
      /\ \A d \in DOMAIN out : d \in ClpPorts(p) \cup {AgentPort(p, id)}
  <2>1. NotBlocked(p, id) \ {HERE} \subseteq ClpPorts(p)
    BY DEF NotBlocked, Ranged, Targets
  <2> HIDE DEF id, found
  <2>2. CASE out = Reply(id, status)
    BY <1>6, <1>7, <2>2 DEF Reply, OnlyQueries
  <2>3. CASE out = [d \in NotBlocked(p, id) \ {HERE} |-> <<Query(id, {})>>]
    BY <1>6, <2>1, <2>3 DEF OnlyQueries
  <2> QED
    BY <1>8, <2>2, <2>3
<1>10. PICK table : table = new /\ table = fRangeRoutingTable'
  BY <1>1
<1>11. KeepsEntries(table)
  <2>1. PICK j, c : j = id /\ c = p
    OBVIOUS
  <2>2. /\ j \in Ids /\ c \in Clp /\ Types
        /\ table = [fRangeRoutingTable EXCEPT ![c] = Noted(c, j)]
    BY <1>2, <1>3, <1>10, <2>1
  <2> HIDE DEF id, p, new, found, onward
  <2>3. NotesOf(table, c, j)
    BY <2>2, NotedEntries
  <2> QED
    BY <2>3 DEF NotesOf, KeepsEntries
<1>12. KeepsSight
  BY NewQueryKeepsSight
<1>13. ASSUME IsCalm(met') PROVE TakesUp(p, id, out, status, table)
  <2>1. "crossed" \notin met'
    BY <1>13 DEF IsCalm
  <2>2. ~Crosses(p, id)
    BY <1>1, <2>1
  <2>3. PICK j, c : j = id /\ c = p
    OBVIOUS
  <2>4. /\ c \in Clp /\ j \in Ids /\ fGVT[c] <= queries[j].time /\ ~Crosses(c, j)
        /\ table = [fRangeRoutingTable EXCEPT ![c] = Noted(c, j)]
        /\ status.originPort = AgentPort(c, j) /\ status.outstanding = NotBlocked(c, j) \ {HERE}
        /\ status.found = IF HERE \in NotBlocked(c, j)
                          THEN RangeRead(c, queries[j].box, queries[j].time) ELSE {}
        /\ \/ out = Reply(j, status)
           \/ out = [d \in NotBlocked(c, j) \ {HERE} |-> <<Query(j, {})>>]
    BY <1>3, <1>4, <1>7, <1>8, <1>10, <2>2, <2>3
  <2>5. LinksAgree /\ WaysAgree /\ Inv
    OBVIOUS
  <2> HIDE DEF id, p, new, found, onward
  <2>6. TakesUp(c, j, out, status, table)
    BY ONLY <2>4, <2>5, NewQueryTakesUp
  <2> QED
    BY <2>3, <2>6
<1> HIDE DEF id, p, new, found, onward
<1> QED
  BY <1>1, <1>3, <1>9, <1>10, <1>11, <1>12, <1>13, HandlerAnswered DEF p

LEMMA ReceiveAnswered ==
    ASSUME LinksAgree, WaysAgree, Inv, Trails, Answered, NEW p \in Clp, Receive(p)
    PROVE  Answered'
<1>1. PICK l \in Link : /\ l[2] = p
                       /\ \E i \in Receivable(net[l]) :
                            \/ ProcessNewQuery(p, l, i) \/ ProcessReply(p, l, i)
                            \/ ProcessAntiMessage(p, l, i) \/ ProcessRangeUpdate(p, l, i)
  BY DEF Receive
<1>2. PICK i \in Receivable(net[l]) :
        \/ ProcessNewQuery(p, l, i) \/ ProcessReply(p, l, i)
        \/ ProcessAntiMessage(p, l, i) \/ ProcessRangeUpdate(p, l, i)
  BY <1>1
<1>3. fGVT' = fGVT /\ UNCHANGED <<home, positions, queries, answers, retracted>>
  BY DEF Receive
<1>4. i \in DOMAIN net[l]
  <2>1. net[l] \in Seq(MessageOf(Ids))
    BY DEF Inv, Types, NetTypes, AreMessages
  <2> QED
    BY <2>1, ReceivableIsThere
<1>5. CASE ProcessNewQuery(p, l, i)
  BY <1>1, <1>3, <1>4, <1>5, NewQueryAnswered
<1>6. CASE ProcessReply(p, l, i)
  BY <1>1, <1>3, <1>4, <1>6, ReplyAnswered
<1>7. CASE ProcessAntiMessage(p, l, i)
  BY <1>1, <1>3, <1>4, <1>7, AntiAnswered
<1>8. CASE ProcessRangeUpdate(p, l, i)
  BY <1>1, <1>2, <1>3, <1>8, UpdateAnswered
<1> QED
  BY <1>2, <1>5, <1>6, <1>7, <1>8

LEMMA StepAnswered ==
    ASSUME LinksAgree, WaysAgree, Inv, Trails, Answered, [Next]_vars
    PROVE  Answered'
<1>1. Types
  BY DEF Inv
<1>2. CASE UNCHANGED vars
  BY <1>2 DEF Answered, Sight, Known, Ids, vars
<1>3. ASSUME NEW a \in Alps, NEW t \in QueryTime, NEW box \in Box, RangeQuery(a, t, box)
      PROVE  Answered'
  BY <1>3, QueryAnswered
<1>4. ASSUME NEW a \in Alps, NEW t \in QueryTime, ProcessRollback(a, t) PROVE Answered'
  BY <1>4, RollbackAnswered
<1>5. ASSUME NEW a \in Alps, ReceiveAnswer(a) PROVE Answered'
  BY <1>5, AnswerAnswered
<1>6. ASSUME NEW p \in Clp, Receive(p) PROVE Answered'
  BY <1>6, ReceiveAnswered
<1>7. ASSUME NEW p \in Clp, NEW t \in GvtTime, SetGvt(p, t) PROVE Answered'
  BY <1>7, GvtAnswered
<1>8. ASSUME NEW v \in Ssv, NEW t \in WriteTime,
              \/ \E q \in Position[v] : WriteWithRollback(v, t, q)
              \/ RollbackWrite(v, t)
      PROVE  Answered'
  <2>1. PICK history : IsWrite(v, t, history)
    BY <1>1, <1>8, WriteIsWrite
  <2>2. t \in Time
    BY DEF Time
  <2> QED
    BY <2>1, <2>2, WriteAnswered
<1> QED
  BY <1>2, <1>3, <1>4, <1>5, <1>6, <1>7, <1>8 DEF Next

LEMMA StartAnswered ==
    ASSUME LinksAgree, Init
    PROVE  Answered
<1>1. Types /\ net \in [Link -> Seq(MessageOf(Ids))]
  BY StartTypes DEF Types, NetTypes, AreMessages
<1>2. Ids = {}
  BY DEF Init, Ids
<1>3. ASSUME NEW l \in Link, NEW m \in ToSet(net[l]) PROVE m.type = "update"
  <2>1. m \in MessageOf(Ids)
    BY <1>1 DEF ToSet
  <2> QED
    BY <1>2, <2>1, MessageFields
<1>4. AntisOfUndone(net, retracted)
  BY <1>3 DEF AntisOfUndone
<1>5. OwnAnswers(net, queries)
  <2> SUFFICES ASSUME NEW a \in Alps, NEW m \in ToSet(net[<<AlpParent[a], a>>]), m.type = "query"
               PROVE  FALSE
    BY DEF OwnAnswers
  <2>1. PICK l \in Link : l = <<AlpParent[a], a>>
    BY AgentLink
  <2> QED
    BY <1>3, <2>1
<1>6. IsCalm(met) => \E view \in View : Sight(view)
  BY StartCovered, CalmIsClear DEF Covered
<1> QED
  BY <1>2, <1>4, <1>5, <1>6 DEF Answered

\* Answers are of the variables, unless they are to queries that were undone.
AnswersAreFound == \A id \in DOMAIN answers \ retracted : answers[id] \in Found

LEMMA AnswerIsFound ==
    ASSUME LinksAgree, Inv, Answered, NEW a \in Alps, net[<<AlpParent[a], a>>] # <<>>,
           NEW m, m = Head(net[<<AlpParent[a], a>>]), m.id \notin retracted
    PROVE  m.found \in Found
<1>1. PICK l \in Link : l = <<AlpParent[a], a>>
  BY AgentLink
<1>2. net[l] \in Seq(MessageOf(Ids)) /\ net[l] # <<>>
  BY <1>1 DEF Inv, Types, NetTypes, AreMessages
<1>3. m \in MessageOf(Ids) /\ m \in ToSet(net[l])
  <2>1. 1 \in DOMAIN net[l] /\ m = net[l][1]
    BY <1>1, <1>2
  <2> QED
    BY <1>2, <2>1 DEF ToSet
<1>4. m.type # "update"
  BY <1>1, <1>3 DEF Inv, Types, NetTypes, AreMessages
<1>5. m.type # "anti"
  BY <1>3 DEF Answered, AntisOfUndone
<1> QED
  BY <1>3, <1>4, <1>5, MessageFields

LEMMA StepFound ==
    ASSUME LinksAgree, Inv, Answered, AnswersAreFound, [Next]_vars
    PROVE  AnswersAreFound'
<1>1. ASSUME answers' = answers, retracted \subseteq retracted' PROVE AnswersAreFound'
  BY <1>1 DEF AnswersAreFound
<1>2. CASE UNCHANGED vars
  BY <1>1, <1>2 DEF vars
<1>3. ASSUME NEW a \in Alps, NEW t \in QueryTime, NEW box \in Box, RangeQuery(a, t, box)
      PROVE  AnswersAreFound'
  BY <1>1, <1>3 DEF RangeQuery
<1>4. ASSUME NEW a \in Alps, NEW t \in QueryTime, ProcessRollback(a, t) PROVE AnswersAreFound'
  BY <1>1, <1>4 DEF ProcessRollback
<1>5. ASSUME NEW a \in Alps, ReceiveAnswer(a) PROVE AnswersAreFound'
  <2>1. PICK m : m = Head(net[<<AlpParent[a], a>>])
    OBVIOUS
  <2>2. /\ net[<<AlpParent[a], a>>] # <<>> /\ retracted' = retracted
        /\ answers' = IF m.id # Max(QueriesOf(a)) THEN answers
                      ELSE [id \in DOMAIN answers \cup {m.id} |->
                              IF id = m.id THEN m.found ELSE answers[id]]
    BY <1>5, <2>1 DEF ReceiveAnswer
  <2>3. m.id \notin retracted => m.found \in Found
    BY <2>1, <2>2, AnswerIsFound
  <2>4. CASE m.id # Max(QueriesOf(a))
    BY <1>1, <2>2, <2>4
  <2>5. CASE m.id = Max(QueriesOf(a))
    <3>1. answers' = [id \in DOMAIN answers \cup {m.id} |->
                        IF id = m.id THEN m.found ELSE answers[id]]
      BY <2>2, <2>5
    <3>2. ASSUME NEW id \in DOMAIN answers' \ retracted PROVE answers'[id] \in Found
      <4>1. id = m.id \/ id \in DOMAIN answers
        BY <3>1, <3>2
      <4>2. CASE id = m.id
        BY <2>3, <3>1, <3>2, <4>2
      <4>3. CASE id # m.id
        BY <3>1, <3>2, <4>1, <4>3 DEF AnswersAreFound
      <4> QED
        BY <4>2, <4>3
    <3> QED
      BY <2>2, <3>2 DEF AnswersAreFound
  <2> QED
    BY <2>4, <2>5
<1>6. ASSUME NEW p \in Clp, Receive(p) PROVE AnswersAreFound'
  BY <1>1, <1>6 DEF Receive
<1>7. ASSUME NEW p \in Clp, NEW t \in GvtTime, SetGvt(p, t) PROVE AnswersAreFound'
  BY <1>1, <1>7 DEF SetGvt
<1>8. ASSUME NEW v \in Ssv, NEW t \in WriteTime,
              \/ \E q \in Position[v] : WriteWithRollback(v, t, q)
              \/ RollbackWrite(v, t)
      PROVE  AnswersAreFound'
  <2>1. Types
    BY DEF Inv
  <2>2. PICK history : IsWrite(v, t, history)
    BY <1>8, <2>1, WriteIsWrite
  <2> QED
    BY <1>1, <2>2, Zenon DEF IsWrite, Update
<1> QED
  BY <1>2, <1>3, <1>4, <1>5, <1>6, <1>7, <1>8 DEF Next

\* What accounts for the variable in the answer is, either way, what it now says.
LEMMA AccountsAreTrue ==
    ASSUME LinksAgree, WaysAgree, Inv, NoUpdateUnderWay, NEW view \in View, Sight(view),
           NEW id \in Ids, NEW v \in Ssv, NEW found,
           found \in Accounts(view, fRangeRoutingTable, fGVT, queries[id], id, v, home[v], positions[v])
    PROVE  found = InBox(v, ReadWithoutRecord(positions[v], queries[id].time), queries[id].box)
<1> DEFINE q == queries[id]
           r == home[v]
           value == ReadWithoutRecord(positions[v], q.time)
<1>1. /\ q.time \in Time /\ q.box \in Box /\ value \in Point /\ r \in Clp
  <2>1. AreQueries(queries) /\ AreHistories(positions) /\ home \in Placements
    BY DEF Inv, Types, HistoryTypes
  <2>2. q.time \in Time /\ q.box \in Box
    BY <2>1, QueryFields
  <2>3. value \in PointsOf(v)
    BY <2>1, <2>2, ReadIsPoint
  <2>4. value \in Point
    BY <2>3, PointsArePoints
  <2>5. r \in Clp
    BY <2>1, ConstantsAssumption
  <2> QED
    BY <2>2, <2>4, <2>5
<1>2. CASE found = InBox(v, value, q.box)
  BY <1>2
<1>3. CASE found = {} /\ Explained(view, fRangeRoutingTable, fGVT, q, id, r)
  <2>1. PICK p \in Clp \ {r} :
          ~HaveCommonPoint(view[p][GetDirectionFromRank(p, r)][q.time], q.box)
    BY <1>3 DEF Explained, KeptOut
  <2>2. PICK range : range = view[p][GetDirectionFromRank(p, r)][q.time]
    OBVIOUS
  <2>3. range \in Framed
    <3>1. GetDirectionFromRank(p, r) \in Direction
      BY <1>1, <2>1, ClpOrAlp DEF LinksAgree
    <3> QED
      BY <1>1, <2>1, <2>2, <3>1 DEF View
  <2>4. IsValueOverlapping(range, value)
    <3>1. LinksCover(view, net) /\ NoneOnlyWhere(view, home) /\ CoversHere(view, home, positions)
      BY DEF Sight, Sees
    <3>2. IsKnown(view, p, v, q.time)
      BY <1>1, <2>1, <3>1, KnownEverywhere
    <3> QED
      BY <2>2, <3>2 DEF IsKnown
  <2>5. ~HaveCommonPoint(range, q.box)
    BY <2>1, <2>2
  <2> HIDE DEF value, q
  <2>6. ~IsValueOverlapping(q.box, value)
    BY <1>1, <2>3, <2>4, <2>5, OutsideBox
  <2>7. InBox(v, value, q.box) = {}
    BY <2>6 DEF InBox
  <2> QED
    BY <1>3, <2>7 DEF value, q
<1> QED
  BY <1>2, <1>3 DEF Accounts

LEMMA AnsweredIsEnough ==
    ASSUME LinksAgree, WaysAgree, Inv, Answered, AnswersAreFound
    PROVE  StaleAnswersAreReported
<1> SUFFICES ASSUME NoUpdateUnderWay, met \subseteq {"misread"},
                    NEW id \in DOMAIN answers \ (retracted \cup told)
             PROVE  answers[id] =
                      {f \in {<<v, ReadWithoutRecord(positions[v], queries[id].time)>> : v \in Ssv} :
                         IsValueOverlapping(queries[id].box, f[2])}
  BY DEF StaleAnswersAreReported
<1> DEFINE value(v) == ReadWithoutRecord(positions[v], queries[id].time)
           box == queries[id].box
           held == {f \in {<<v, value(v)>> : v \in Ssv} : IsValueOverlapping(box, f[2])}
<1>1. PICK view \in View :
        /\ Sight(view)
        /\ \A j \in Ids \ (told \cup retracted), v \in Ssv : Known(view, j, v)
  BY DEF Answered, IsCalm
<1>2. id \in Ids /\ id \in DOMAIN answers /\ id \notin told \cup retracted
  BY DEF Inv, Types, SeenTypes
<1>3. ASSUME NEW v \in Ssv PROVE OfVar(answers[id], v) = InBox(v, value(v), box)
  <2>1. Known(view, id, v)
    BY <1>1, <1>2
  <2>2. OfVar(answers[id], v)
          \in Accounts(view, fRangeRoutingTable, fGVT, queries[id], id, v, home[v], positions[v])
    BY <1>2, <2>1 DEF Known, Carried, AnswersCarry
  <2> QED
    BY <1>1, <1>2, <2>2, AccountsAreTrue
<1>4. answers[id] \in Found
  BY <1>2 DEF AnswersAreFound
<1> HIDE DEF value, box
<1>5. ASSUME NEW f \in answers[id] PROVE f[1] \in Ssv
  BY <1>4 DEF Found
<1>6. ASSUME NEW f, NEW v \in Ssv
      PROVE  f \in InBox(v, value(v), box) <=> f = <<v, value(v)>> /\ IsValueOverlapping(box, value(v))
  BY DEF InBox
<1>7. ASSUME NEW f PROVE f \in answers[id] <=> f \in held
  <2>1. ASSUME f \in answers[id] PROVE f \in held
    <3>1. PICK v \in Ssv : f[1] = v
      BY <1>5, <2>1
    <3>2. f \in OfVar(answers[id], v)
      BY <2>1, <3>1 DEF OfVar
    <3>3. f = <<v, value(v)>> /\ IsValueOverlapping(box, value(v))
      BY <1>3, <1>6, <3>2
    <3> QED
      BY <3>3
  <2>2. ASSUME f \in held PROVE f \in answers[id]
    <3>1. PICK v \in Ssv : f = <<v, value(v)>> /\ IsValueOverlapping(box, f[2])
      BY <2>2
    <3>2. IsValueOverlapping(box, value(v))
      BY <3>1
    <3>3. f \in OfVar(answers[id], v)
      BY <1>3, <1>6, <3>1, <3>2
    <3> QED
      BY <3>3 DEF OfVar
  <2> QED
    BY <2>1, <2>2
<1>8. answers[id] = held
  BY <1>7
<1> QED
  BY <1>8 DEF value, box

\* In any tree whose tables of ranks say the same ways from all sides: as long as no
\* update is under way and none of the known weaknesses has been met, an answer that is
\* not what the variables now say at the time of its query belongs to an agent that has
\* undone the query or was told to, however queries, replies, anti-messages, updates,
\* writes and collections of the tables were interleaved (Clp::ProcessMessage of
\* RangeQueryMessage, Clp.cpp:691-850; RangePeriod.cpp:92-131).
THEOREM StaleAnswersAlwaysReported ==
    ASSUME LinksAgree, WaysAgree
    PROVE  Spec => []StaleAnswersAreReported
<1>1. Init => Inv /\ Trails /\ Answered /\ AnswersAreFound
  <2>1. Init => AnswersAreFound
    BY DEF Init, AnswersAreFound
  <2> QED
    BY <2>1, StartInv, StartTrails, StartAnswered
<1>2. Inv /\ Trails /\ Answered /\ AnswersAreFound /\ [Next]_vars
      => Inv' /\ Trails' /\ Answered' /\ AnswersAreFound'
  BY StepInv, StepTrails, StepAnswered, StepFound
<1>3. Inv /\ Answered /\ AnswersAreFound => StaleAnswersAreReported
  BY AnsweredIsEnough
<1> QED
  BY <1>1, <1>2, <1>3, PTL DEF Spec
=============================================================================
