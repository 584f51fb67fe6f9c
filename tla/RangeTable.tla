----------------------------- MODULE RangeTable -----------------------------
(***************************************************************************)
(* The ranges a CLP knows at one port (rangequery/RangeRoutingTable.cpp,   *)
(* RangePeriod.cpp, types/Range.cpp): pure operators on the list of range  *)
(* periods, which RangeQueries puts to work.                               *)
(*                                                                         *)
(* A period holds the box of all positions that lie beyond the port from   *)
(* its time on, up to the time of the next period, and an entry for each   *)
(* range query that was answered by it.                                    *)
(***************************************************************************)
EXTENDS Integers, SequencesExt

INT_MAX == 2147483647

\* A point is a pair <<x, y>>.  NULL, "nothing lies beyond the port", is what a
\* range update says for it.
NoRange == [min |-> <<INT_MAX, INT_MAX>>, max |-> <<INT_MAX, INT_MAX>>]

\* Point::Min and Point::Max over the points.
BoxOf(points) ==
    IF points = {} THEN NoRange
    ELSE [min |-> <<Min({q[1] : q \in points}), Min({q[2] : q \in points})>>,
          max |-> <<Max({q[1] : q \in points}), Max({q[2] : q \in points})>>]

\* Initialisor::preload_variable: the box of a CLP that is given one more point.  A
\* point that is beyond max changes max only.
WithPoint(box, q) ==
    LET beyond == box.max[1] < q[1] \/ box.max[2] < q[2]
        before == box.min[1] > q[1] \/ box.max[2] > q[2]
    IN  CASE box = NoRange -> BoxOf({q})
          [] box # NoRange /\ beyond -> [box EXCEPT !.max = BoxOf({@, q}).max]
          [] box # NoRange /\ ~beyond /\ before -> [box EXCEPT !.min = BoxOf({@, q}).min]
          [] OTHER -> box

\* The comparisons of Pair are not strict, whatever they look like.
IsValueOverlapping(box, q) ==
    /\ box.min[1] <= q[1] /\ q[1] <= box.max[1]
    /\ box.min[2] <= q[2] /\ q[2] <= box.max[2]

Corners(box) == {box.min[1], box.max[1]} \X {box.min[2], box.max[2]}

\* One has a corner of the other inside.
IsRangeOverlapping(r, s) == \/ \E q \in Corners(s) : IsValueOverlapping(r, q)
                            \/ \E q \in Corners(r) : IsValueOverlapping(s, q)

\* What it stands for: they have a point in common.
HaveCommonPoint(r, s) ==
    \A i \in {1, 2} : r.min[i] <= s.max[i] /\ s.min[i] <= r.max[i]

(***************************************************************************)
(* The list of periods, in the order of their times.                       *)
(***************************************************************************)
\* The place of the period that holds t, 0 if there is none.
PeriodAt(list, t) == Max({0} \cup {i \in DOMAIN list : list[i].time <= t})

HasRangePeriod(list, t) == PeriodAt(list, t) # 0

RangeAt(list, t) == IF HasRangePeriod(list, t) THEN list[PeriodAt(list, t)].range ELSE NoRange

\* The one way to count the numbers of S in their order.
InOrder(S) == {f \in [1..Cardinality(S) -> S] : \A i, j \in DOMAIN f : i < j => f[i] < f[j]}

\* The entries at these places, in their order.
Selected(info, places) ==
    LET place == CHOOSE f \in InOrder(places) : TRUE
    IN  [n \in DOMAIN place |-> info[place[n]]]

Until(info, t) == Selected(info, {n \in DOMAIN info : info[n].time <= t})
After(info, t) == Selected(info, {n \in DOMAIN info : info[n].time > t})

AddRangeQueryInfo(list, e) ==
    IF HasRangePeriod(list, e.time)
    THEN [list EXCEPT ![PeriodAt(list, e.time)].info = Append(@, e)] ELSE list

\* The first entry has some identifier that is not zero, so its status it is.
GetBlockStatus(list, t, id) ==
    LET i == PeriodAt(list, t)
    IN  IF i = 0 \/ list[i].info = <<>> THEN TRUE ELSE list[i].info[1].blocked

DeleteRangeQueryInfo(list, t, id) ==
    IF HasRangePeriod(list, t)
    THEN [list EXCEPT ![PeriodAt(list, t)].info = Selected(@, {n \in DOMAIN @ : @[n].id # id})]
    ELSE list

ClearRangePeriods(list, gvt) ==
    LET i == PeriodAt(list, gvt)
        this == list[i]
        kept == IF this.time = gvt THEN this
                ELSE [this EXCEPT !.time = gvt,
                                  !.info = Selected(@, {n \in DOMAIN @ : @[n].time >= gvt})]
    IN  IF i = 0 THEN list ELSE <<kept>> \o SubSeq(list, i + 1, Len(list))

\* Mutant: a period that starts at t is split as well.
WithRangeTwice(list, t, range) ==
    LET i == PeriodAt(list, t)
        this == list[i]
        new == [time |-> t, range |-> range, info |-> <<>>]
    IN  CASE i = 0 -> InsertAt(list, 1, new)
          [] i # 0 /\ NoRange \notin {range, this.range} /\ range # this.range ->
               InsertAt([list EXCEPT ![i].info = Until(@, t)], i + 1,
                        [new EXCEPT !.info = After(this.info, t)])
          [] OTHER -> [list EXCEPT ![i].range = range]

\* From t on, the range is the given one: the list, and what there is to announce.
\* The entries of later queries move to the new period.  Where there was nothing
\* before, or is nothing after, the whole period is changed.
WithRange(list, t, range) ==
    LET i == PeriodAt(list, t)
        this == list[i]
        new == [time |-> t, range |-> range, info |-> <<>>]
    IN  CASE i = 0 -> InsertAt(list, 1, new)
          [] i # 0 /\ NoRange \notin {range, this.range} /\ range # this.range /\ this.time # t ->
               InsertAt([list EXCEPT ![i].info = Until(@, t)], i + 1,
                        [new EXCEPT !.info = After(this.info, t)])
          [] OTHER -> [list EXCEPT ![i].range = range]

Announced(list, t, range) ==
    IF HasRangePeriod(list, t) /\ range = RangeAt(list, t) /\ range # NoRange THEN <<>>
    ELSE <<[time |-> t, range |-> range]>>

\* The entries of the period of t that are of interest to a change at t.
EntriesAt(list, t) ==
    IF HasRangePeriod(list, t) THEN ToSet(list[PeriodAt(list, t)].info) ELSE {}

\* Mutant: a query is not affected by what leaves its box.
MovesInto(e, old, new) == IsValueOverlapping(e.box, new)

\* PopulateRollbackList, for a value that changes and for a range that changes.
MovesIn(e, old, new) == IsValueOverlapping(e.box, old) \/ IsValueOverlapping(e.box, new)

RolledByValue(list, t, old, new) ==
    {e.id : e \in {f \in EntriesAt(list, t) : f.time > t /\ MovesIn(f, old, new)}}

RolledByRange(list, t, range) ==
    {e.id : e \in {f \in EntriesAt(list, t) :
                     /\ f.time > t /\ f.blocked
                     /\ range # NoRange /\ IsRangeOverlapping(range, f.box)}}

\* The periods after t that a change up to "end" reaches: all but the first.
LaterPeriods(list, t, end) ==
    {k \in PeriodAt(list, t) + 2 .. Len(list) : list[k].time < end}
=============================================================================
