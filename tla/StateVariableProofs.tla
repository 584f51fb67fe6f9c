------------------------ MODULE StateVariableProofs ------------------------
(***************************************************************************)
(* Theorems about StateVariable, for any agents, values and bounds: the    *)
(* state stays in its type, the write periods tile virtual time, every     *)
(* recorded read lies in the period that keeps it, and what GVT, writes    *)
(* that are undone and stale reads come to.                                *)
(*                                                                         *)
(* The tiling is not inductive by itself.  A write is put behind the last  *)
(* period that starts before it, and fossil collection cuts the list at    *)
(* the first period that starts at GVT: both leave a tiling only if the    *)
(* periods are in order.  WellFormed adds that, and the sections below     *)
(* show that each operation on the list keeps it.                          *)
(***************************************************************************)
EXTENDS StateVariable, ListLemmas, SequenceTheorems, FiniteSetTheorems, TLAPS

ReadsFit(p) == \A r \in p.reads : p.start <= r.time /\ r.time < p.end

Ordered(periods) ==
    \A i, j \in 1..Len(periods) : i <= j => periods[i].start <= periods[j].start

Tiled(periods) ==
    /\ \A i \in 1..Len(periods) :
         i < Len(periods) => periods[i].end = periods[i + 1].start
    /\ \A i \in 1..Len(periods) :
         i = Len(periods) => periods[i].end \in {LONG_MAX, ULONG_MAX}

WellFormed(periods) ==
    /\ periods \in Seq(WritePeriod)
    /\ Ordered(periods)
    /\ Tiled(periods)
    /\ \A i \in 1..Len(periods) : ReadsFit(periods[i])

\* The inductive invariant.  A rollback makes a sequence of the requests it
\* undoes, which has a length because the send list is finite.
IInv == /\ TypeOK
        /\ WellFormed(writePeriods)
        /\ IsFiniteSet(sendList)

-----------------------------------------------------------------------------
(***************************************************************************)
(* The write period list.                                                  *)
(***************************************************************************)
\* The fields of a period are numbers, and every start is before LONG_MAX.
LEMMA PeriodFields ==
    ASSUME NEW p \in Seq(WritePeriod), NEW i \in 1..Len(p)
    PROVE  /\ p[i] \in WritePeriod
           /\ p[i].start \in Nat /\ p[i].start < LONG_MAX
           /\ p[i].end \in Nat
           /\ p[i].reads \subseteq ReadRecord
           /\ \A r \in p[i].reads : r.time \in Nat /\ r.time < LONG_MAX
<1>1. p[i] \in WritePeriod
  BY ElementOfSeq
<1>2. MaxTime \in Nat
  BY ConstantsAssumption, MaxTimeAssumption
<1>3. /\ p[i].start \in GvtTime
      /\ p[i].end \in GvtTime \cup {LONG_MAX, ULONG_MAX}
      /\ p[i].reads \subseteq ReadRecord
  BY <1>1 DEF WritePeriod
<1>4. \A r \in p[i].reads : r.time \in GvtTime
  BY <1>3 DEF ReadRecord
<1> QED
  BY <1>1, <1>2, <1>3, <1>4 DEF GvtTime, LONG_MAX, ULONG_MAX

\* A list whose periods differ from a well-formed one only in their reads.
LEMMA SamePeriods ==
    ASSUME NEW p, WellFormed(p), NEW q \in Seq(WritePeriod), Len(q) = Len(p),
           \A i \in 1..Len(p) : q[i].start = p[i].start /\ q[i].end = p[i].end,
           \A i \in 1..Len(p) : ReadsFit(q[i])
    PROVE  WellFormed(q)
<1>1. PICK n \in Nat : n = Len(p) /\ n = Len(q)
  BY LenProperties DEF WellFormed
<1>2. Ordered(q)
  BY <1>1 DEF WellFormed, Ordered
<1>3. Tiled(q)
  BY <1>1 DEF WellFormed, Tiled
<1> QED
  BY <1>1, <1>2, <1>3 DEF WellFormed

\* The period at which the walk back stops covers the time looked for.
LEMMA StopsAtCovers ==
    ASSUME NEW p, WellFormed(p), NEW t \in GvtTime, NEW k, StopsAt(p, t, k)
    PROVE  k \in 1..Len(p) /\ p[k].start <= t /\ t < p[k].end
<1>1. PICK n \in Nat : n = Len(p)
  BY LenProperties DEF WellFormed
<1>2. MaxTime \in Nat
  BY ConstantsAssumption, MaxTimeAssumption
<1>3. CASE k = n
  BY <1>1, <1>2, <1>3 DEF StopsAt, WellFormed, Tiled, GvtTime, LONG_MAX, ULONG_MAX
<1>4. CASE k # n
  <2>1. k + 1 \in (k + 1)..Len(p) /\ k < Len(p) /\ k \in 1..Len(p)
    BY <1>1, <1>4 DEF StopsAt
  <2> QED
    BY <2>1 DEF StopsAt, WellFormed, Tiled
<1> QED
  BY <1>3, <1>4

\* A read that is recorded where the walk stops.
LEMMA WithReadWellFormed ==
    ASSUME NEW p, WellFormed(p), NEW a \in Agent, NEW t \in GvtTime,
           NEW k, StopsAt(p, t, k)
    PROVE  WellFormed(WithRead(p, k, a, t))
<1> DEFINE e == [p[k] EXCEPT !.reads = @ \cup {[agent |-> a, time |-> t]}]
           q == [p EXCEPT ![k] = e]
<1>1. WithRead(p, k, a, t) = q
  BY DEF WithRead
<1>2. /\ p \in Seq(WritePeriod) /\ k \in 1..Len(p)
      /\ p[k].start <= t /\ t < p[k].end
  BY StopsAtCovers DEF WellFormed
<1>3. /\ e \in WritePeriod /\ e.start = p[k].start /\ e.end = p[k].end
      /\ e.reads = p[k].reads \cup {[agent |-> a, time |-> t]}
  <2>1. p[k] \in WritePeriod
    BY <1>2, PeriodFields
  <2>2. [agent |-> a, time |-> t] \in ReadRecord
    BY DEF ReadRecord
  <2> QED
    BY <2>1, <2>2 DEF WritePeriod
<1> HIDE DEF e
<1>4. /\ q \in Seq(WritePeriod) /\ Len(q) = Len(p)
      /\ \A i \in 1..Len(p) : q[i] = IF i = k THEN e ELSE p[i]
  BY <1>2, <1>3, ExceptSeq
<1>5. ReadsFit(e)
  BY <1>2, <1>3 DEF ReadsFit, WellFormed
<1>6. \A i \in 1..Len(p) : q[i].start = p[i].start /\ q[i].end = p[i].end
  BY <1>3, <1>4
<1>7. \A i \in 1..Len(p) : ReadsFit(q[i])
  BY <1>4, <1>5 DEF WellFormed
<1> HIDE DEF q
<1> QED
  BY <1>1, <1>4, <1>6, <1>7, SamePeriods

\* A read that is taken out.
LEMMA WithoutReadWellFormed ==
    ASSUME NEW p, WellFormed(p), NEW a, NEW t, NEW k \in 1..Len(p)
    PROVE  WellFormed(WithoutRead(p, k, a, t))
<1> DEFINE e == [p[k] EXCEPT !.reads = @ \ {[agent |-> a, time |-> t]}]
           q == [p EXCEPT ![k] = e]
<1>1. WithoutRead(p, k, a, t) = q
  BY DEF WithoutRead
<1>2. p \in Seq(WritePeriod)
  BY DEF WellFormed
<1>3. /\ e \in WritePeriod /\ e.start = p[k].start /\ e.end = p[k].end
      /\ e.reads \subseteq p[k].reads
  BY <1>2, PeriodFields DEF WritePeriod
<1> HIDE DEF e
<1>4. /\ q \in Seq(WritePeriod) /\ Len(q) = Len(p)
      /\ \A i \in 1..Len(p) : q[i] = IF i = k THEN e ELSE p[i]
  BY <1>2, <1>3, ExceptSeq
<1>5. ReadsFit(e)
  BY <1>3 DEF ReadsFit, WellFormed
<1>6. \A i \in 1..Len(p) : q[i].start = p[i].start /\ q[i].end = p[i].end
  BY <1>3, <1>4
<1>7. \A i \in 1..Len(p) : ReadsFit(q[i])
  BY <1>4, <1>5 DEF WellFormed
<1> HIDE DEF q
<1> QED
  BY <1>1, <1>4, <1>6, <1>7, SamePeriods

\* The period that WithWrite cuts short, and the one it puts behind it.
CutShort(p, k, new) ==
    [p[k] EXCEPT !.end = new.start, !.reads = @ \ ReadsAfterInclusive(p[k], new.start)]
Placed(p, k, new) ==
    [new EXCEPT !.end = IF k = Len(p) THEN ULONG_MAX ELSE p[k + 1].start]

\* What WithWrite returns, period by period.
IsWithWrite(q, p, n, k, cut, placed) ==
    /\ q \in Seq(WritePeriod) /\ Len(q) = n + 1
    /\ \A i \in 1..(k - 1) : q[i] = p[i]
    /\ q[k] = cut /\ q[k + 1] = placed
    /\ \A i \in (k + 1)..n : q[i + 1] = p[i]

LEMMA WithWriteElements ==
    ASSUME NEW p, WellFormed(p), NEW n \in Nat, n = Len(p), NEW k \in 1..n,
           NEW new \in WritePeriod
    PROVE  IsWithWrite(WithWrite(p, k, new), p, n, k, CutShort(p, k, new), Placed(p, k, new))
<1> DEFINE c == [p[k] EXCEPT !.end = new.start,
                             !.reads = @ \ ReadsAfterInclusive(p[k], new.start)]
           end == IF k = n THEN ULONG_MAX ELSE p[k + 1].start
           e == [new EXCEPT !.end = end]
           cut == [p EXCEPT ![k] = c]
           q == InsertAt(cut, k + 1, e)
<1>0. p \in Seq(WritePeriod) /\ Len(p) = n /\ n \in Nat /\ k \in 1..n
  BY DEF WellFormed
<1>1. WithWrite(p, k, new) = q
  BY <1>0 DEF WithWrite
<1>2. c \in WritePeriod
  BY <1>0, PeriodFields DEF WritePeriod
<1>3. e \in WritePeriod
  <2>1. end \in GvtTime \cup {LONG_MAX, ULONG_MAX}
    <3>1. CASE k = n
      BY <3>1
    <3>2. CASE k # n
      <4>1. k + 1 \in 1..Len(p)
        BY <1>0, <3>2
      <4> QED
        BY <1>0, <3>2, <4>1, PeriodFields DEF WritePeriod
    <3> QED
      BY <3>1, <3>2
  <2> HIDE DEF end
  <2> QED
    BY <2>1 DEF WritePeriod
<1>4. c = CutShort(p, k, new)
  BY DEF CutShort
<1>5. e = Placed(p, k, new)
  BY <1>0 DEF Placed
<1> HIDE DEF c, end, e
<1>6. /\ cut \in Seq(WritePeriod) /\ Len(cut) = n
      /\ \A i \in 1..n : cut[i] = IF i = k THEN c ELSE p[i]
  BY <1>0, <1>2, ExceptSeq
<1> HIDE DEF cut
<1>7. /\ q \in Seq(WritePeriod) /\ Len(q) = n + 1
      /\ \A i \in 1..k : q[i] = cut[i]
      /\ q[k + 1] = e
      /\ \A i \in (k + 2)..(n + 1) : q[i] = cut[i - 1]
  <2>1. cut \in Seq(WritePeriod) /\ Len(cut) = n /\ k \in 1..n /\ e \in WritePeriod
    BY <1>0, <1>3, <1>6
  <2>2. q \in Seq(WritePeriod) /\ Len(q) = n + 1
    BY <2>1, InsertAtElements
  <2>3. \A i \in 1..k : q[i] = cut[i]
    BY <2>1, InsertAtElements
  <2>4. q[k + 1] = e
    BY <2>1, InsertAtElements
  <2>5. \A i \in (k + 2)..(n + 1) : q[i] = cut[i - 1]
    BY <2>1, InsertAtElements
  <2> QED
    BY <2>2, <2>3, <2>4, <2>5
<1> HIDE DEF q
<1>8. /\ \A i \in 1..(k - 1) : q[i] = p[i]
      /\ q[k] = c
      /\ q[k + 1] = e
      /\ \A i \in (k + 1)..n : q[i + 1] = p[i]
  <2>1. ASSUME NEW i \in 1..(k - 1) PROVE q[i] = p[i]
    <3>1. i \in 1..k /\ i \in 1..n /\ i # k
      BY <1>0
    <3> QED
      BY <1>0, <1>6, <1>7, <3>1, Zenon
  <2>2. q[k] = c
    <3>1. k \in 1..k
      BY <1>0
    <3> QED
      BY <1>0, <1>6, <1>7, <3>1, Zenon
  <2>3. ASSUME NEW i \in (k + 1)..n PROVE q[i + 1] = p[i]
    <3>1. /\ i \in 1..n /\ i # k /\ (i + 1) - 1 = i
          /\ i + 1 \in (k + 2)..(n + 1)
      BY <1>0
    <3>2. q[i + 1] = cut[(i + 1) - 1]
      BY <1>7, <3>1, Zenon
    <3> QED
      BY <1>6, <3>1, <3>2
  <2> QED
    BY <1>7, <2>1, <2>2, <2>3
<1> QED
  BY <1>0, <1>1, <1>4, <1>5, <1>7, <1>8 DEF IsWithWrite

\* A write that is put behind the period at which the walk stops: it starts
\* within that period, which is cut short and gives up its later reads.
LEMMA WithWriteWellFormed ==
    ASSUME NEW p, WellFormed(p), NEW new \in WritePeriod, new.reads = {},
           NEW k, StopsAt(p, new.start, k)
    PROVE  WellFormed(WithWrite(p, k, new))
<1>1. PICK n \in Nat : n = Len(p)
  BY LenProperties DEF WellFormed
<1>2. /\ p \in Seq(WritePeriod) /\ k \in 1..n /\ new.start \in Nat
      /\ p[k].start <= new.start /\ new.start < p[k].end
      /\ new.start < LONG_MAX /\ MaxTime \in Nat
  <2>1. new.start \in GvtTime /\ MaxTime \in Nat
    BY ConstantsAssumption, MaxTimeAssumption DEF WritePeriod
  <2>2. k \in 1..Len(p) /\ p[k].start <= new.start /\ new.start < p[k].end
    BY <2>1, StopsAtCovers
  <2> QED
    BY <1>1, <2>1, <2>2 DEF WellFormed, GvtTime, LONG_MAX
<1> DEFINE c == CutShort(p, k, new)
           e == Placed(p, k, new)
           q == WithWrite(p, k, new)
<1>4. /\ c.start = p[k].start /\ c.end = new.start
      /\ c.reads = p[k].reads \ ReadsAfterInclusive(p[k], new.start)
  BY <1>1, <1>2, PeriodFields DEF CutShort, WritePeriod
<1>5. /\ e.start = new.start /\ e.reads = {}
      /\ e.end = IF k = n THEN ULONG_MAX ELSE p[k + 1].start
  BY <1>1 DEF Placed, WritePeriod
<1>3. p \in Seq(WritePeriod) /\ n = Len(p) /\ k \in 1..n /\ new \in WritePeriod
  BY <1>1, <1>2
<1>6. IsWithWrite(q, p, n, k, c, e)
  BY <1>3, WithWriteElements
<1> HIDE DEF c, e, q
<1>7. q \in Seq(WritePeriod) /\ Len(q) = n + 1
  BY <1>6 DEF IsWithWrite
<1>8. /\ \A i \in 1..(k - 1) : q[i] = p[i]
      /\ q[k] = c
      /\ q[k + 1] = e
      /\ \A i \in (k + 2)..(n + 1) : q[i] = p[i - 1]
  <2>1. ASSUME NEW i \in (k + 2)..(n + 1) PROVE q[i] = p[i - 1]
    <3>1. i - 1 \in (k + 1)..n /\ (i - 1) + 1 = i
      BY <1>2
    <3>2. \A h \in (k + 1)..n : q[h + 1] = p[h]
      BY <1>6 DEF IsWithWrite
    <3> QED
      BY <3>1, <3>2
  <2> QED
    BY <1>6, <2>1 DEF IsWithWrite
<1>9. \A i \in 1..(n + 1) : \/ i \in 1..(k - 1) \/ i = k
                            \/ i = k + 1 \/ i \in (k + 2)..(n + 1)
  BY <1>2
<1>10. \A i \in 1..n : p[i].start \in Nat
  BY <1>1, <1>2, PeriodFields
<1>11. Ordered(q)
  <2>1. \A i, j \in 1..n : i <= j => p[i].start <= p[j].start
    BY <1>1 DEF WellFormed, Ordered
  <2>2. \A i \in (k + 1)..n : p[i].start > new.start
    BY <1>1 DEF StopsAt
  <2>3. \A i \in 1..k : q[i].start = p[i].start
    BY <1>2, <1>4, <1>8
  <2>4. q[k + 1].start = new.start
    BY <1>5, <1>8
  <2>5. \A i \in (k + 2)..(n + 1) : i - 1 \in (k + 1)..n /\ q[i].start = p[i - 1].start
    BY <1>2, <1>8
  <2>6. \A i \in 1..k : q[i].start <= new.start
    BY <1>2, <1>10, <2>1, <2>3
  <2>7. \A i \in (k + 2)..(n + 1) : q[i].start > new.start
    BY <2>2, <2>5
  <2>8. \A i \in 1..(n + 1) : q[i].start \in Nat
    <3>1. \A i \in 1..k : i \in 1..n /\ q[i].start \in Nat
      BY <1>2, <1>10, <2>3
    <3>2. \A i \in (k + 2)..(n + 1) : q[i].start \in Nat
      BY <1>2, <1>10, <2>5
    <3>3. \A i \in 1..(n + 1) : i \in 1..k \/ i = k + 1 \/ i \in (k + 2)..(n + 1)
      BY <1>2
    <3> QED
      BY <1>2, <2>4, <3>1, <3>2, <3>3
  <2>9. ASSUME NEW i \in 1..(n + 1), NEW j \in 1..(n + 1), i <= j
        PROVE  q[i].start <= q[j].start
    <3>1. CASE j <= k
      BY <1>2, <2>1, <2>3, <2>9, <3>1
    <3>2. CASE i <= k + 1 /\ k + 1 <= j
      BY <1>2, <2>4, <2>6, <2>7, <2>8, <3>2
    <3>3. CASE i > k + 1
      <4>1. /\ i - 1 \in 1..n /\ j - 1 \in 1..n /\ i - 1 <= j - 1
            /\ q[i].start = p[i - 1].start /\ q[j].start = p[j - 1].start
        BY <1>2, <2>5, <2>9, <3>3
      <4> QED
        BY <2>1, <4>1
    <3> QED
      BY <1>2, <2>9, <3>1, <3>2, <3>3
  <2> QED
    BY <1>7, <2>9 DEF Ordered
<1>12. Tiled(q)
  <2>1. /\ \A i \in 1..n : i < n => p[i].end = p[i + 1].start
        /\ p[n].end \in {LONG_MAX, ULONG_MAX}
    BY <1>1, <1>2 DEF WellFormed, Tiled
  <2>2. ASSUME NEW i \in 1..(n + 1), i < n + 1 PROVE q[i].end = q[i + 1].start
    <3>1. CASE i \in 1..(k - 1)
      <4>1. i \in 1..n /\ i < n /\ (i + 1 \in 1..(k - 1) \/ i + 1 = k)
        BY <1>2, <3>1
      <4>2. q[i + 1].start = p[i + 1].start
        BY <1>4, <1>8, <4>1
      <4> QED
        BY <1>8, <2>1, <3>1, <4>1, <4>2
    <3>2. CASE i = k
      BY <1>4, <1>5, <1>8, <3>2
    <3>3. CASE i = k + 1
      BY <1>2, <1>5, <1>8, <2>2, <3>3
    <3>4. CASE i \in (k + 2)..(n + 1)
      <4>1. /\ i - 1 \in 1..n /\ i - 1 < n /\ (i - 1) + 1 = i
            /\ i + 1 \in (k + 2)..(n + 1) /\ (i + 1) - 1 = i
        BY <1>2, <2>2, <3>4
      <4> QED
        BY <1>8, <2>1, <3>4, <4>1
    <3> QED
      BY <1>9, <3>1, <3>2, <3>3, <3>4
  <2>3. q[n + 1].end \in {LONG_MAX, ULONG_MAX}
    BY <1>2, <1>5, <1>8, <2>1
  <2> QED
    BY <1>7, <2>2, <2>3 DEF Tiled
<1>13. ASSUME NEW i \in 1..(n + 1) PROVE ReadsFit(q[i])
  <2>1. \A j \in 1..n : ReadsFit(p[j])
    BY <1>1 DEF WellFormed
  <2>2. ReadsFit(c)
    <3>1. ReadsFit(p[k])
      BY <1>2, <2>1
    <3>2. \A r \in p[k].reads : r.time \in Nat
      BY <1>1, <1>2, PeriodFields
    <3> QED
      BY <1>2, <1>4, <3>1, <3>2 DEF ReadsFit, ReadsAfterInclusive
  <2>3. ReadsFit(e)
    BY <1>5 DEF ReadsFit
  <2>4. CASE i \in 1..(k - 1)
    BY <1>2, <1>8, <2>1, <2>4
  <2>5. CASE i \in (k + 2)..(n + 1)
    <3>1. i - 1 \in 1..n /\ q[i] = p[i - 1]
      BY <1>2, <1>8, <2>5
    <3> QED
      BY <2>1, <3>1
  <2> QED
    BY <1>8, <1>9, <2>2, <2>3, <2>4, <2>5
<1> QED
  BY <1>7, <1>11, <1>12, <1>13 DEF WellFormed, q

\* The rest of a well-formed list, from some period on, is well-formed.
LEMMA SuffixWellFormed ==
    ASSUME NEW p, WellFormed(p), NEW n \in Nat, n = Len(p), NEW f \in 1..(n + 1)
    PROVE  WellFormed(SubSeq(p, f, n))
<1> DEFINE q == SubSeq(p, f, n)
<1>1. p \in Seq(WritePeriod)
  BY DEF WellFormed
<1>2. PICK m \in Nat : m = n - f + 1
  OBVIOUS
<1>3. q \in Seq(WritePeriod) /\ Len(q) = m
  BY <1>1, <1>2, SubSeqElements
<1>4. \A i \in 1..m : q[i] = p[f + i - 1]
  BY <1>1, <1>2, SubSeqElements
<1> HIDE DEF q
<1>5. \A i \in 1..m : f + i - 1 \in 1..n /\ f + (i + 1) - 1 = (f + i - 1) + 1
  BY <1>2
<1>6. Ordered(q)
  <2>1. ASSUME NEW i \in 1..m, NEW j \in 1..m, i <= j
        PROVE  q[i].start <= q[j].start
    <3>1. /\ f + i - 1 \in 1..Len(p) /\ f + j - 1 \in 1..Len(p)
          /\ f + i - 1 <= f + j - 1
      BY <1>5, <2>1
    <3> QED
      BY <1>4, <3>1 DEF WellFormed, Ordered
  <2> QED
    BY <1>3, <2>1 DEF Ordered
<1>7. Tiled(q)
  <2>1. ASSUME NEW i \in 1..m, i < m PROVE q[i].end = q[i + 1].start
    <3>1. f + i - 1 \in 1..Len(p) /\ f + i - 1 < Len(p) /\ i + 1 \in 1..m
      BY <1>2, <2>1
    <3>2. p[f + i - 1].end = p[(f + i - 1) + 1].start
      BY <3>1 DEF WellFormed, Tiled
    <3> QED
      BY <1>4, <1>5, <3>1, <3>2
  <2>2. ASSUME NEW i \in 1..m, i = m PROVE q[i].end \in {LONG_MAX, ULONG_MAX}
    <3>1. f + i - 1 \in 1..Len(p) /\ f + i - 1 = Len(p)
      BY <1>2, <2>2
    <3> QED
      BY <1>4, <3>1 DEF WellFormed, Tiled
  <2> QED
    BY <1>3, <2>1, <2>2 DEF Tiled
<1>8. \A i \in 1..m : ReadsFit(q[i])
  BY <1>4, <1>5 DEF WellFormed
<1>9. WellFormed(q)
  BY <1>3, <1>6, <1>7, <1>8 DEF WellFormed
<1> QED
  BY <1>9 DEF q

\* The period before the one that is erased, with the time it takes over.
TakingOver(p, k) ==
    [p[k - 1] EXCEPT !.end = IF k = Len(p) THEN LONG_MAX ELSE p[k].end]

\* What WithoutWrite returns, period by period.
IsWithoutWrite(q, p, n, k, before) ==
    /\ q \in Seq(WritePeriod) /\ Len(q) = n - 1
    /\ \A i \in 1..(n - 1) : i < k - 1 => q[i] = p[i]
    /\ \A i \in 1..(n - 1) : i = k - 1 => q[i] = before
    /\ \A i \in 1..(n - 1) : i >= k => q[i] = p[i + 1]

LEMMA WithoutWriteElements ==
    ASSUME NEW p, WellFormed(p), NEW n \in Nat, n = Len(p), NEW k \in 1..n
    PROVE  IsWithoutWrite(WithoutWrite(p, k), p, n, k, TakingOver(p, k))
<1>1. p \in Seq(WritePeriod) /\ Len(p) = n /\ k \in 1..n /\ n \in Nat
  BY DEF WellFormed
<1>2. CASE k = 1
  <2>1. Tail(p) \in Seq(WritePeriod) /\ Len(Tail(p)) = n - 1
    BY <1>1, <1>2, HeadTailProperties
  <2>2. \A i \in 1..(n - 1) : Tail(p)[i] = p[i + 1]
    BY <1>1, <1>2, HeadTailProperties
  <2> QED
    BY <1>2, <2>1, <2>2 DEF WithoutWrite, IsWithoutWrite
<1>3. CASE k # 1
  <2>1. PICK h \in Nat : h = k - 1
    BY <1>1, <1>3
  <2>2. h \in 1..n /\ h + 1 = k /\ h < n
    BY <1>1, <1>3, <2>1
  <2> DEFINE e == TakingOver(p, k)
             cut == [p EXCEPT ![h] = e]
             q == RemoveAt(cut, k)
  <2>3. WithoutWrite(p, k) = q
    BY <1>1, <1>3, <2>1 DEF WithoutWrite, TakingOver
  <2>4. e \in WritePeriod
    <3> DEFINE end == IF k = n THEN LONG_MAX ELSE p[k].end
    <3>1. p[h] \in WritePeriod /\ p[k] \in WritePeriod
      BY <1>1, <2>2, PeriodFields
    <3>2. end \in GvtTime \cup {LONG_MAX, ULONG_MAX}
      BY <3>1 DEF WritePeriod
    <3>3. e = [p[h] EXCEPT !.end = end]
      BY <1>1, <2>1 DEF TakingOver
    <3> HIDE DEF end, e
    <3> QED
      BY <3>1, <3>2, <3>3 DEF WritePeriod
  <2> HIDE DEF e
  <2>5. /\ cut \in Seq(WritePeriod) /\ Len(cut) = n
        /\ \A i \in 1..n : cut[i] = IF i = h THEN e ELSE p[i]
    BY <1>1, <2>2, <2>4, ExceptSeq
  <2> HIDE DEF cut
  <2>6. q \in Seq(WritePeriod) /\ Len(q) = n - 1
    BY <1>1, <2>5, RemoveAtElements
  <2>7. \A i \in 1..(k - 1) : q[i] = cut[i]
    BY <1>1, <2>5, RemoveAtElements
  <2>8. \A i \in k..(n - 1) : q[i] = cut[i + 1]
    BY <1>1, <2>5, RemoveAtElements
  <2> HIDE DEF q
  <2>9. ASSUME NEW i \in 1..(n - 1), i < h PROVE q[i] = p[i]
    <3>1. i \in 1..(k - 1) /\ i \in 1..n /\ i # h
      BY <2>2, <2>9
    <3> QED
      BY <2>5, <2>7, <3>1, Zenon
  <2>10. q[h] = e
    <3>1. h \in 1..(k - 1)
      BY <2>2
    <3> QED
      BY <2>2, <2>5, <2>7, <3>1, Zenon
  <2>11. ASSUME NEW i \in 1..(n - 1), i > h PROVE q[i] = p[i + 1]
    <3>1. i \in k..(n - 1) /\ i + 1 \in 1..n /\ i + 1 # h
      BY <2>2, <2>11
    <3> QED
      BY <2>5, <2>8, <3>1, Zenon
  <2>12. \A i \in 1..(n - 1) : (i < k - 1 <=> i < h) /\ (i >= k <=> i > h)
    BY <1>1, <2>2
  <2> QED
    BY <2>1, <2>3, <2>6, <2>9, <2>10, <2>11, <2>12 DEF IsWithoutWrite, e
<1> QED
  BY <1>2, <1>3

\* A write that is erased: the period before it takes over its time, so that
\* the reads of the period before still lie in it.
LEMMA WithoutWriteWellFormed ==
    ASSUME NEW p, WellFormed(p), NEW k \in 1..Len(p)
    PROVE  WellFormed(WithoutWrite(p, k))
<1>1. PICK n \in Nat : n = Len(p)
  BY LenProperties DEF WellFormed
<1>2. p \in Seq(WritePeriod) /\ k \in 1..n /\ MaxTime \in Nat
  BY <1>1, ConstantsAssumption, MaxTimeAssumption DEF WellFormed
<1>3. CASE k = 1
  <2>1. Tail(p) = SubSeq(p, 2, n)
    BY <1>1, <1>2, <1>3, TailIsSubSeq
  <2>2. 2 \in 1..(n + 1)
    BY <1>2
  <2>3. WellFormed(SubSeq(p, 2, n))
    BY <1>1, <2>2, SuffixWellFormed
  <2> QED
    BY <1>3, <2>1, <2>3 DEF WithoutWrite
<1>4. CASE k # 1
  <2>1. PICK h \in Nat : h = k - 1
    BY <1>2
  <2>2. h \in 1..n /\ h + 1 = k /\ h < n
    BY <1>2, <1>4, <2>1
  <2> DEFINE e == TakingOver(p, k)
             q == WithoutWrite(p, k)
  <2>3. IsWithoutWrite(q, p, n, k, e)
    BY <1>1, <1>2, WithoutWriteElements
  <2>4. /\ e.start = p[h].start /\ e.reads = p[h].reads
        /\ e.end = IF k = n THEN LONG_MAX ELSE p[k].end
    <3>1. p[h] \in WritePeriod
      BY <1>1, <1>2, <2>2, PeriodFields
    <3>2. e = [p[h] EXCEPT !.end = IF k = n THEN LONG_MAX ELSE p[k].end]
      BY <1>1, <2>1 DEF TakingOver
    <3> HIDE DEF e
    <3> QED
      BY <3>1, <3>2 DEF WritePeriod
  <2> HIDE DEF e, q
  <2>5. q \in Seq(WritePeriod) /\ Len(q) = n - 1
    BY <2>3 DEF IsWithoutWrite
  <2>7. ASSUME NEW i \in 1..(n - 1), i < h PROVE q[i] = p[i]
    BY <2>1, <2>3, <2>7 DEF IsWithoutWrite
  <2>8. q[h] = e
    BY <1>2, <2>1, <2>2, <2>3 DEF IsWithoutWrite
  <2>9. ASSUME NEW i \in 1..(n - 1), i > h PROVE q[i] = p[i + 1]
    <3>1. i >= k
      BY <1>2, <2>2, <2>9
    <3> QED
      BY <2>3, <3>1 DEF IsWithoutWrite
  <2>10. Ordered(q)
    <3>1. \A i, j \in 1..n : i <= j => p[i].start <= p[j].start
      BY <1>1 DEF WellFormed, Ordered
    <3>2. \A i \in 1..(n - 1) : i <= h => q[i].start = p[i].start
      BY <2>2, <2>4, <2>7, <2>8
    <3>3. \A i \in 1..(n - 1) : i > h => q[i].start = p[i + 1].start
      BY <2>9
    <3>4. ASSUME NEW i \in 1..(n - 1), NEW j \in 1..(n - 1), i <= j
          PROVE  q[i].start <= q[j].start
      <4>1. i \in 1..n /\ j \in 1..n /\ i + 1 \in 1..n /\ j + 1 \in 1..n
        OBVIOUS
      <4>2. CASE j <= h
        BY <2>2, <3>1, <3>2, <3>4, <4>1, <4>2
      <4>3. CASE i <= h /\ j > h
        BY <2>2, <3>1, <3>2, <3>3, <3>4, <4>1, <4>3
      <4>4. CASE i > h
        <5>1. j > h /\ i + 1 <= j + 1
          BY <2>2, <3>4, <4>4
        <5>2. q[i].start = p[i + 1].start /\ q[j].start = p[j + 1].start
          BY <3>3, <4>4, <5>1
        <5>3. p[i + 1].start <= p[j + 1].start
          BY <3>1, <4>1, <5>1
        <5> QED
          BY <5>2, <5>3
      <4> QED
        BY <2>2, <3>4, <4>2, <4>3, <4>4
    <3> QED
      BY <2>5, <3>4 DEF Ordered
  <2>11. Tiled(q)
    <3>1. /\ \A i \in 1..n : i < n => p[i].end = p[i + 1].start
          /\ p[n].end \in {LONG_MAX, ULONG_MAX}
      BY <1>1, <1>2 DEF WellFormed, Tiled
    <3>2. ASSUME NEW i \in 1..(n - 1), i < n - 1 PROVE q[i].end = q[i + 1].start
      <4>1. CASE i + 1 < h
        BY <2>2, <2>7, <3>1, <3>2, <4>1
      <4>2. CASE i + 1 = h
        <5>1. i \in 1..n /\ i < n /\ i < h
          BY <2>2, <4>2
        <5>2. q[i] = p[i] /\ p[i].end = p[h].start
          BY <2>7, <3>1, <4>2, <5>1
        <5> QED
          BY <2>4, <2>8, <4>2, <5>2
      <4>3. CASE i = h
        <5>1. k \in 1..n /\ k < n /\ i + 1 = k /\ k > h /\ i + 1 \in 1..(n - 1)
          BY <1>2, <2>2, <3>2, <4>3
        <5> QED
          BY <2>4, <2>8, <2>9, <3>1, <4>3, <5>1
      <4>4. CASE i > h
        <5>1. /\ i + 1 \in 1..n /\ i + 1 < n /\ i + 1 \in 1..(n - 1)
              /\ i + 1 > h
          BY <2>2, <3>2, <4>4
        <5> QED
          BY <2>9, <3>1, <4>4, <5>1
      <4> QED
        BY <2>2, <4>1, <4>2, <4>3, <4>4
    <3>3. q[n - 1].end \in {LONG_MAX, ULONG_MAX}
      <4>1. CASE n - 1 = h
        BY <2>2, <2>4, <2>8, <4>1
      <4>2. CASE n - 1 # h
        <5>1. n - 1 \in 1..(n - 1) /\ n - 1 > h /\ (n - 1) + 1 = n
          BY <2>2, <4>2
        <5> QED
          BY <2>9, <3>1, <5>1
      <4> QED
        BY <4>1, <4>2
    <3> QED
      BY <2>5, <3>2, <3>3 DEF Tiled
  <2>12. ASSUME NEW i \in 1..(n - 1) PROVE ReadsFit(q[i])
    <3>1. \A j \in 1..n : ReadsFit(p[j])
      BY <1>1 DEF WellFormed
    <3>2. ReadsFit(e)
      <4>1. ReadsFit(p[h]) /\ p[h].end = p[k].start
        BY <1>1, <2>2, <3>1 DEF WellFormed, Tiled
      <4>2. p[k].start < LONG_MAX /\ p[k].start \in Nat /\ LONG_MAX \in Nat
        BY <1>1, <1>2, PeriodFields DEF LONG_MAX
      <4>3. p[k].start <= e.end /\ e.end \in Nat
        <5>1. CASE k = n
          BY <2>4, <4>2, <5>1
        <5>2. CASE k # n
          <6>1. k + 1 \in 1..n /\ k < n
            BY <1>2, <5>2
          <6>2. p[k].end = p[k + 1].start /\ p[k].start <= p[k + 1].start
            BY <1>1, <1>2, <6>1 DEF WellFormed, Tiled, Ordered
          <6>3. p[k].end \in Nat
            BY <1>1, <1>2, PeriodFields
          <6> QED
            BY <2>4, <5>2, <6>2, <6>3
        <5> QED
          BY <5>1, <5>2
      <4>4. \A r \in p[h].reads : r.time \in Nat
        BY <1>1, <1>2, <2>2, PeriodFields
      <4> QED
        BY <2>4, <4>1, <4>2, <4>3, <4>4 DEF ReadsFit
    <3>3. i + 1 \in 1..n /\ i \in 1..n /\ (i < h \/ i = h \/ i > h)
      BY <2>2
    <3> QED
      BY <2>7, <2>8, <2>9, <3>1, <3>2, <3>3
  <2> QED
    BY <2>5, <2>10, <2>11, <2>12 DEF WellFormed, q
<1> QED
  BY <1>3, <1>4

\* Fossil collection: the period in force at GVT starts at GVT now, and the
\* list starts with the first period that does.  If that is an earlier one,
\* the periods are in order, so the one in force started at GVT already.
LEMMA CollectedWellFormed ==
    ASSUME NEW p, WellFormed(p), NEW gvt \in GvtTime,
           NEW k, StopsAt(p, gvt, k),
           NEW first \in 1..Len(p),
           FirstStartingAt(Collected(p, k, gvt), gvt, first)
    PROVE  WellFormed(SubSeq(Collected(p, k, gvt), first, Len(p)))
<1>1. PICK n \in Nat : n = Len(p)
  BY LenProperties DEF WellFormed
<1>2. /\ p \in Seq(WritePeriod) /\ k \in 1..n /\ gvt \in Nat
      /\ p[k].start <= gvt /\ gvt < p[k].end
  <2>1. k \in 1..Len(p) /\ p[k].start <= gvt /\ gvt < p[k].end
    BY StopsAtCovers
  <2> QED
    BY <1>1, <2>1, ConstantsAssumption, MaxTimeAssumption DEF WellFormed, GvtTime
<1> DEFINE e == [p[k] EXCEPT !.start = gvt, !.reads = {r \in @ : r.time >= gvt}]
           c == [p EXCEPT ![k] = e]
<1>3. Collected(p, k, gvt) = c
  BY DEF Collected
<1>4. /\ e \in WritePeriod /\ e.start = gvt /\ e.end = p[k].end
      /\ e.reads = {r \in p[k].reads : r.time >= gvt}
  BY <1>1, <1>2, PeriodFields DEF WritePeriod
<1> HIDE DEF e
<1>5. /\ c \in Seq(WritePeriod) /\ Len(c) = n
      /\ \A i \in 1..n : c[i] = IF i = k THEN e ELSE p[i]
  BY <1>1, <1>2, <1>4, ExceptSeq
<1> HIDE DEF c
<1>6. /\ first \in 1..n /\ c[first].start = gvt
      /\ \A i \in 1..(first - 1) : c[i].start # gvt
  BY <1>1, <1>3, <1>5 DEF FirstStartingAt
<1>7. first <= k
  BY <1>2, <1>4, <1>5, <1>6
<1>8. ReadsFit(e)
  <2>1. ReadsFit(p[k])
    BY <1>1, <1>2 DEF WellFormed
  <2>2. \A r \in p[k].reads : r.time \in Nat
    BY <1>1, <1>2, PeriodFields
  <2> QED
    BY <1>2, <1>4, <2>1, <2>2 DEF ReadsFit
<1>9. \A i \in 1..n : ReadsFit(c[i])
  BY <1>1, <1>5, <1>8 DEF WellFormed
<1>10. CASE first < k
  <2>1. p[first].start = gvt
    BY <1>5, <1>6, <1>10
  <2>2. p[k].start = gvt
    <3>1. p[first].start <= p[k].start
      BY <1>1, <1>2, <1>6, <1>10 DEF WellFormed, Ordered
    <3>2. p[k].start \in Nat
      BY <1>1, <1>2, PeriodFields
    <3> QED
      BY <1>2, <2>1, <3>1, <3>2
  <2>3. \A i \in 1..n : c[i].start = p[i].start /\ c[i].end = p[i].end
    BY <1>4, <1>5, <2>2
  <2>4. WellFormed(c)
    BY <1>1, <1>5, <1>9, <2>3, SamePeriods
  <2>5. first \in 1..(n + 1)
    BY <1>6
  <2>6. WellFormed(SubSeq(c, first, n))
    BY <1>5, <2>4, <2>5, SuffixWellFormed
  <2> QED
    BY <1>1, <1>3, <2>6
<1>11. CASE first = k
  <2> DEFINE q == SubSeq(c, k, n)
  <2>1. PICK m \in Nat : m = n - k + 1
    BY <1>2
  <2>2. q \in Seq(WritePeriod) /\ Len(q) = m
    BY <1>2, <1>5, <2>1, SubSeqElements
  <2>3. \A i \in 1..m : q[i] = c[k + i - 1]
    BY <1>2, <1>5, <2>1, SubSeqElements
  <2> HIDE DEF q
  <2>4. q[1] = e
    <3>1. 1 \in 1..m /\ k + 1 - 1 = k
      BY <1>2, <2>1
    <3>2. q[1] = c[k]
      BY <2>3, <3>1
    <3> QED
      BY <1>2, <1>5, <3>2
  <2>5. ASSUME NEW i \in 2..m
        PROVE  k + i - 1 \in (k + 1)..n /\ q[i] = p[k + i - 1]
    <3>1. k + i - 1 \in (k + 1)..n /\ k + i - 1 \in 1..n /\ k + i - 1 # k /\ i \in 1..m
      BY <1>2, <2>1
    <3> QED
      BY <1>5, <2>3, <3>1, Zenon
  <2>6. Ordered(q)
    <3>1. \A i \in (k + 1)..n : p[i].start > gvt
      BY <1>1 DEF StopsAt
    <3>2. ASSUME NEW i \in 1..m, NEW j \in 1..m, i <= j
          PROVE  q[i].start <= q[j].start
      <4>1. CASE i = 1 /\ j = 1
        BY <1>2, <1>4, <2>4, <4>1
      <4>2. CASE i = 1 /\ j # 1
        <5>1. j \in 2..m
          BY <4>2
        <5>2. q[j].start > gvt
          BY <2>5, <3>1, <5>1
        <5>3. q[j].start \in Nat
          BY <2>2, PeriodFields
        <5> QED
          BY <1>2, <1>4, <2>4, <4>2, <5>2, <5>3
      <4>3. CASE i # 1
        <5>1. /\ i \in 2..m /\ j \in 2..m
              /\ k + i - 1 \in 1..Len(p) /\ k + j - 1 \in 1..Len(p)
              /\ k + i - 1 <= k + j - 1
          BY <1>1, <1>2, <2>1, <3>2, <4>3
        <5> QED
          BY <2>5, <5>1 DEF WellFormed, Ordered
      <4> QED
        BY <4>1, <4>2, <4>3
    <3> QED
      BY <2>2, <3>2 DEF Ordered
  <2>7. Tiled(q)
    <3>1. /\ \A i \in 1..n : i < n => p[i].end = p[i + 1].start
          /\ p[n].end \in {LONG_MAX, ULONG_MAX}
      BY <1>1, <1>2 DEF WellFormed, Tiled
    <3>2. ASSUME NEW i \in 1..m, i < m PROVE q[i].end = q[i + 1].start
      <4>1. /\ i + 1 \in 2..m /\ k + (i + 1) - 1 = (k + i - 1) + 1
            /\ k + i - 1 \in 1..n /\ k + i - 1 < n
        BY <1>2, <2>1, <3>2
      <4>2. q[i].end = p[k + i - 1].end
        <5>1. CASE i = 1
          BY <1>2, <1>4, <2>4, <5>1
        <5>2. CASE i # 1
          <6>1. i \in 2..m
            BY <5>2
          <6> QED
            BY <2>5, <6>1
        <5> QED
          BY <5>1, <5>2
      <4>3. q[i + 1] = p[(k + i - 1) + 1]
        BY <2>5, <4>1
      <4> QED
        BY <3>1, <4>1, <4>2, <4>3
    <3>3. q[m].end \in {LONG_MAX, ULONG_MAX}
      <4>1. CASE m = 1
        <5>1. k = n
          BY <1>2, <2>1, <4>1
        <5>2. q[m].end = p[n].end
          BY <1>4, <2>4, <4>1, <5>1
        <5> QED
          BY <3>1, <5>2
      <4>2. CASE m # 1
        <5>1. m \in 2..m /\ k + m - 1 = n
          BY <1>2, <2>1, <4>2
        <5> QED
          BY <2>5, <3>1, <5>1
      <4> QED
        BY <4>1, <4>2
    <3> QED
      BY <2>2, <3>2, <3>3 DEF Tiled
  <2>8. \A i \in 1..m : ReadsFit(q[i])
    <3>1. \A i \in 1..m : k + i - 1 \in 1..n
      BY <1>2, <2>1
    <3> QED
      BY <1>9, <2>3, <3>1
  <2>9. WellFormed(q)
    BY <2>2, <2>6, <2>7, <2>8 DEF WellFormed
  <2> QED
    BY <1>1, <1>3, <1>11, <2>9 DEF q
<1> QED
  BY <1>2, <1>6, <1>7, <1>10, <1>11

\* The period that Collected lets start at GVT, and the list it returns.
StartingAt(p, k, gvt) ==
    [p[k] EXCEPT !.start = gvt, !.reads = {r \in @ : r.time >= gvt}]
IsCollected(q, p, n, k, first, at) ==
    /\ q \in Seq(WritePeriod) /\ first <= k /\ Len(q) = n - first + 1
    /\ \A i \in 1..(n - first + 1) :
         q[i] = IF first + i - 1 = k THEN at ELSE p[first + i - 1]

LEMMA CollectedElements ==
    ASSUME NEW p, WellFormed(p), NEW n \in Nat, n = Len(p), NEW gvt \in GvtTime,
           NEW k \in 1..n, NEW first \in 1..n,
           FirstStartingAt(Collected(p, k, gvt), gvt, first)
    PROVE  IsCollected(SubSeq(Collected(p, k, gvt), first, n), p, n, k, first,
                       StartingAt(p, k, gvt))
<1> DEFINE e == StartingAt(p, k, gvt)
           c == [p EXCEPT ![k] = e]
<1>1. p \in Seq(WritePeriod) /\ Len(p) = n /\ k \in 1..n /\ n \in Nat
  BY DEF WellFormed
<1>2. Collected(p, k, gvt) = c
  BY DEF Collected, StartingAt
<1>3. e \in WritePeriod /\ e.start = gvt
  BY <1>1, PeriodFields DEF StartingAt, WritePeriod
<1> HIDE DEF e
<1>4. /\ c \in Seq(WritePeriod) /\ Len(c) = n
      /\ \A i \in 1..n : c[i] = IF i = k THEN e ELSE p[i]
  BY <1>1, <1>3, ExceptSeq
<1> HIDE DEF c
<1>5. /\ first \in 1..n
      /\ \A i \in 1..(first - 1) : c[i].start # gvt
  BY <1>2, <1>4 DEF FirstStartingAt
<1>6. first <= k
  BY <1>1, <1>3, <1>4, <1>5
<1>7. /\ SubSeq(c, first, n) \in Seq(WritePeriod)
      /\ Len(SubSeq(c, first, n)) = n - first + 1
      /\ \A i \in 1..(n - first + 1) : SubSeq(c, first, n)[i] = c[first + i - 1]
  BY <1>1, <1>4, <1>5, SubSeqElements
<1>8. \A i \in 1..(n - first + 1) : first + i - 1 \in 1..n
  BY <1>1, <1>5
<1> QED
  BY <1>2, <1>4, <1>6, <1>7, <1>8 DEF IsCollected, e

-----------------------------------------------------------------------------
(***************************************************************************)
(* The rollback list and the send list.                                    *)
(***************************************************************************)
\* Every entry of a rollback list has an agent of the reads asked for, and the
\* earliest of the times asked for the agents that share the entry.
LEMMA EarliestIsTime ==
    ASSUME NEW calls \in SUBSET ReadRecord, NEW key \in Keys(calls), NEW a \in key
    PROVE  /\ a \in Agent /\ EarliestFor(calls, a) \in GvtTime
           /\ \E c \in calls : EarliestFor(calls, a) = c.time
           /\ \A c \in calls : c.agent = a => EarliestFor(calls, a) <= c.time
<1> DEFINE times == {c.time : c \in {d \in calls : SameKey(d.agent, a)}}
<1>1. \A c \in calls : c.agent \in Agent /\ c.time \in GvtTime
  BY DEF ReadRecord
<1>2. PICK c \in calls : c.agent = a
  BY DEF Keys
<1>3. a \in Agent /\ a.id \in Nat /\ a.rank \in Nat
  BY <1>1, <1>2, ConstantsAssumption, MaxTimeAssumption
<1>4. SameKey(a, a)
  BY <1>3 DEF SameKey, Greater
<1>5. times \subseteq GvtTime /\ times # {}
  BY <1>1, <1>2, <1>4
<1>6. times \in SUBSET Nat
  BY <1>5, ConstantsAssumption, MaxTimeAssumption DEF GvtTime
<1>7. Min(times) \in times /\ \A y \in times : Min(times) <= y
  BY <1>5, <1>6, MinInSet
<1>8. \A d \in calls : d.agent = a => d.time \in times
  BY <1>4
<1> QED
  BY <1>3, <1>5, <1>7, <1>8 DEF EarliestFor

\* SendRollbacks puts rollback messages on the queues, and nothing else.
LEMMA WithRollbacksForType ==
    ASSUME rollbacks \in [Ranks -> Seq(RollbackMessage)],
           NEW calls \in SUBSET ReadRecord, NEW key \in Keys(calls), NEW tag \in Tag
    PROVE  WithRollbacksFor(calls, key, tag) \in [Ranks -> Seq(RollbackMessage)]
<1>1. ASSUME NEW r \in Ranks, \E a \in key : a.rank = r
      PROVE  LET a == CHOOSE a \in key : a.rank = r
             IN  Append(rollbacks[r], [agent |-> a, tag |-> tag,
                                       time |-> EarliestFor(calls, a)])
                   \in Seq(RollbackMessage)
  <2> DEFINE a == CHOOSE a \in key : a.rank = r
             m == [agent |-> a, tag |-> tag, time |-> EarliestFor(calls, a)]
  <2>1. a \in key
    BY <1>1
  <2>2. a \in Agent /\ EarliestFor(calls, a) \in GvtTime
    BY <2>1, EarliestIsTime
  <2>3. m \in RollbackMessage
    BY <2>2 DEF RollbackMessage
  <2>4. rollbacks[r] \in Seq(RollbackMessage)
    OBVIOUS
  <2> HIDE DEF m, a
  <2>5. Append(rollbacks[r], m) \in Seq(RollbackMessage)
    BY <2>3, <2>4
  <2> QED
    BY <2>5 DEF m, a
<1> QED
  BY <1>1 DEF WithRollbacksFor

\* The head of a queue is a message, and the rest is a queue.
LEMMA QueueHead ==
    ASSUME NEW M, NEW queues \in [Ranks -> Seq(M)], NEW r \in Ranks,
           queues[r] # << >>
    PROVE  /\ Head(queues[r]) \in M
           /\ [queues EXCEPT ![r] = Tail(@)] \in [Ranks -> Seq(M)]
<1>1. queues[r] \in Seq(M)
  OBVIOUS
<1>2. Head(queues[r]) \in M /\ Tail(queues[r]) \in Seq(M)
  BY <1>1, HeadTailProperties
<1> QED
  BY <1>2

\* What goes on the send list.
LEMMA SentIsMessage ==
    ASSUME IsFiniteSet(sendList), NEW kind \in {"read", "write"}, NEW a \in Agent,
           NEW t \in Time, NEW v \in Value
    PROVE  /\ Sent(kind, a, t, v) \in SentMessage
           /\ Sent(kind, a, t, v).kind = kind /\ Sent(kind, a, t, v).agent = a
           /\ Sent(kind, a, t, v).time = t /\ Sent(kind, a, t, v).value = v
<1> DEFINE like == {e \in sendList : e.kind = kind /\ e.agent = a /\ e.time = t}
<1>1. Cardinality(like) \in Nat
  <2>1. like \in SUBSET sendList
    OBVIOUS
  <2> QED
    BY <2>1, FS_Subset, FS_CardinalityType
<1> QED
  BY <1>1 DEF Sent, SentMessage

\* What an answered request leaves: the send list grows by one entry at most.
LEMMA AnsweredType ==
    ASSUME TypeOK, IsFiniteSet(sendList), NEW a \in Agent, NEW t \in Time,
           NEW entry \in SUBSET SentMessage,
           entry = {} \/ \E e : entry = {e}, Answered(a, t, entry)
    PROVE  /\ agentLvt' \in [Agent -> GvtTime]
           /\ stopped' = stopped /\ tagList' = tagList
           /\ sendList' \subseteq SentMessage
           /\ IsFiniteSet(sendList')
<1>1. t + 1 \in GvtTime
  BY ConstantsAssumption, MaxTimeAssumption DEF Time, GvtTime
<1>2. IsFiniteSet(sendList \cup entry)
  BY ZenonT(30), FS_AddElement
<1> QED
  BY <1>1, <1>2 DEF Answered, TypeOK

\* The anti-messages of a rollback, in the order of the send list.
LEMMA AntisOfRollback ==
    ASSUME TypeOK, IsFiniteSet(sendList), NEW m \in RollbackMessage,
           NEW q \in InSendOrder(Undone(m))
    PROVE  [i \in DOMAIN q |-> [kind |-> q[i].kind, agent |-> m.agent,
                                time |-> q[i].time, tag |-> m.tag]]
             \in Seq(AntiMessage)
<1>1. Undone(m) \subseteq sendList
  BY DEF Undone
<1>2. PICK n \in Nat : n = Cardinality(Undone(m))
  BY <1>1, FS_Subset, FS_CardinalityType
<1>3. q \in [1..n -> Undone(m)]
  BY <1>2 DEF InSendOrder
<1>4. \A i \in 1..n : q[i].kind \in {"read", "write"} /\ q[i].time \in Time
  BY <1>1, <1>3 DEF TypeOK, SentMessage
<1>5. m.agent \in Agent /\ m.tag \in Tag
  BY DEF RollbackMessage
<1>6. \A i \in 1..n : [kind |-> q[i].kind, agent |-> m.agent,
                       time |-> q[i].time, tag |-> m.tag] \in AntiMessage
  BY <1>4, <1>5 DEF AntiMessage
<1> QED
  BY <1>3, <1>6

-----------------------------------------------------------------------------
(***************************************************************************)
(* The inductive invariant.                                                *)
(***************************************************************************)
\* The single write period of Clp::InitialSSV is well-formed.
LEMMA InitIInv == Init => IInv
<1> SUFFICES ASSUME Init PROVE IInv
  OBVIOUS
<1> DEFINE w == [start |-> 0, end |-> ULONG_MAX, value |-> InitialValue,
                 agent |-> InitialOwner, reads |-> {}]
<1>1. w \in WritePeriod
  BY ConstantsAssumption, MaxTimeAssumption DEF WritePeriod, GvtTime, LpIds
<1>2. w.start = 0 /\ w.end = ULONG_MAX /\ w.reads = {}
  OBVIOUS
<1>3. writePeriods = <<w>>
  BY DEF Init
<1> HIDE DEF w
<1>4. writePeriods \in Seq(WritePeriod) /\ Len(writePeriods) = 1 /\ writePeriods[1] = w
  BY <1>1, <1>3
<1>5. WellFormed(writePeriods)
  BY <1>2, <1>4 DEF WellFormed, Ordered, Tiled, ReadsFit
<1>6. TypeOK
  BY <1>4, ConstantsAssumption, MaxTimeAssumption DEF Init, TypeOK, GvtTime
<1>7. IsFiniteSet(sendList)
  BY FS_EmptySet DEF Init
<1> QED
  BY <1>5, <1>6, <1>7 DEF IInv

\* A request of an agent.
LEMMA RequestKeepsIInv ==
    ASSUME IInv, NEW a \in Agent, NEW t \in Time,
           \/ SingleRead(a, t) \/ SingleReadExits(a, t) \/ WriteFails(a, t)
           \/ \E v \in Value : WriteSucceeds(a, t, v)
    PROVE  IInv'
<1> USE DEF IInv
<1>1. t \in GvtTime /\ fGVT \in GvtTime
  BY ConstantsAssumption, MaxTimeAssumption DEF Time, GvtTime, TypeOK
<1>2. CASE SingleRead(a, t)
  <2> DEFINE ts == IF t < fGVT THEN fGVT ELSE t
  <2>1. ts \in GvtTime
    BY <1>1
  <2>2. PICK k \in 1..Len(writePeriods) :
          /\ StopsAt(writePeriods, ts, k)
          /\ writePeriods' = WithRead(writePeriods, k, a, ts)
          /\ Answered(a, t, {Sent("read", a, t, writePeriods[k].value)})
    BY <1>2 DEF SingleRead
  <2> HIDE DEF ts
  <2>3. WellFormed(writePeriods')
    BY <2>1, <2>2, WithReadWellFormed
  <2>4. Sent("read", a, t, writePeriods[k].value) \in SentMessage
    <3>1. writePeriods[k].value \in Value
      BY PeriodFields DEF TypeOK, WritePeriod
    <3> QED
      BY <3>1, SentIsMessage
  <2>5. /\ agentLvt' \in [Agent -> GvtTime]
        /\ stopped' = stopped /\ tagList' = tagList
        /\ sendList' \subseteq SentMessage /\ IsFiniteSet(sendList')
    BY <2>2, <2>4, AnsweredType
  <2>6. UNCHANGED <<fGVT, running, stamp, rollbacks, antis, ignored, gvtSafe>>
    BY <1>2 DEF SingleRead
  <2> QED
    BY <2>3, <2>5, <2>6 DEF TypeOK, WellFormed
<1>3. CASE SingleReadExits(a, t)
  BY <1>3 DEF SingleReadExits, TypeOK, agentVars
<1>4. CASE WriteFails(a, t)
  <2>1. /\ agentLvt' \in [Agent -> GvtTime]
        /\ stopped' = stopped /\ tagList' = tagList
        /\ sendList' \subseteq SentMessage /\ IsFiniteSet(sendList')
    BY <1>4, AnsweredType DEF WriteFails
  <2> QED
    BY <1>4, <2>1 DEF WriteFails, TypeOK
<1>5. ASSUME NEW v \in Value, WriteSucceeds(a, t, v) PROVE IInv'
  <2> DEFINE new == [start |-> t, end |-> ULONG_MAX, value |-> v, agent |-> a,
                     reads |-> {}]
             tag == [time |-> t, stamp |-> stamp + 1]
  <2>1. /\ new \in WritePeriod /\ new.start = t /\ new.end = ULONG_MAX
        /\ new.reads = {}
    BY <1>1 DEF WritePeriod, LpIds
  <2>2. Sent("write", a, t, v) \in SentMessage
    BY SentIsMessage
  <2>3. /\ agentLvt' \in [Agent -> GvtTime]
        /\ stopped' = stopped /\ tagList' = tagList
        /\ sendList' \subseteq SentMessage /\ IsFiniteSet(sendList')
    BY <1>5, <2>2, AnsweredType DEF WriteSucceeds
  <2>4. /\ WellFormed(writePeriods')
        /\ stamp' \in 0..MaxStamp
        /\ rollbacks' \in [Ranks -> Seq(RollbackMessage)]
    <3>1. CASE writePeriods' = <<new>> /\ UNCHANGED <<stamp, rollbacks>>
      <4> HIDE DEF new
      <4>1. /\ writePeriods' \in Seq(WritePeriod) /\ Len(writePeriods') = 1
            /\ writePeriods'[1] = new
        BY <2>1, <3>1
      <4>2. WellFormed(writePeriods')
        BY <1>1, <2>1, <4>1, ConstantsAssumption, MaxTimeAssumption
        DEF WellFormed, Ordered, Tiled, ReadsFit, GvtTime
      <4> QED
        BY <3>1, <4>2 DEF TypeOK
    <3>2. ASSUME NEW k \in 1..Len(writePeriods),
                 StopsAt(writePeriods, t, k),
                 writePeriods' = WithWrite(writePeriods, k, new),
                 LET calls == ReadsAfterInclusive(writePeriods[k], t)
                 IN  IF calls = {}
                     THEN UNCHANGED <<stamp, rollbacks>>
                     ELSE /\ stamp < MaxStamp
                          /\ stamp' = stamp + 1
                          /\ \E key \in Keys(calls) :
                               rollbacks' = WithRollbacksFor(calls, key, tag)
          PROVE  /\ WellFormed(writePeriods')
                 /\ stamp' \in 0..MaxStamp
                 /\ rollbacks' \in [Ranks -> Seq(RollbackMessage)]
      <4> DEFINE calls == ReadsAfterInclusive(writePeriods[k], t)
      <4>1. WellFormed(writePeriods')
        <5> HIDE DEF new
        <5> QED
          BY <2>1, <3>2, WithWriteWellFormed
      <4>2. calls \in SUBSET ReadRecord
        BY PeriodFields DEF TypeOK, ReadsAfterInclusive
      <4>3. CASE calls = {}
        BY <3>2, <4>1, <4>3 DEF TypeOK
      <4>4. CASE calls # {}
        <5>1. stamp < MaxStamp /\ stamp' = stamp + 1
          BY <3>2, <4>4
        <5>2. PICK key \in Keys(calls) : rollbacks' = WithRollbacksFor(calls, key, tag)
          BY <3>2, <4>4
        <5>3. stamp + 1 \in 1..MaxStamp /\ stamp' \in 0..MaxStamp
          BY <5>1, ConstantsAssumption, MaxTimeAssumption DEF TypeOK
        <5>4. tag \in Tag
          BY <5>3 DEF Tag
        <5> HIDE DEF calls, tag
        <5>5. rollbacks' \in [Ranks -> Seq(RollbackMessage)]
          BY <4>2, <5>2, <5>4, WithRollbacksForType DEF TypeOK
        <5> QED
          BY <4>1, <5>3, <5>5
      <4> QED
        BY <4>3, <4>4
    <3> QED
      BY <1>5, <3>1, <3>2 DEF WriteSucceeds
  <2>5. UNCHANGED <<fGVT, running, antis, ignored, gvtSafe>>
    BY <1>5 DEF WriteSucceeds
  <2> QED
    BY <2>3, <2>4, <2>5 DEF TypeOK, WellFormed
<1> QED
  BY <1>2, <1>3, <1>4, <1>5

\* An anti-message at the CLP.
LEMMA AntiMessageKeepsIInv ==
    ASSUME IInv, NEW r \in Ranks,
           \/ AntiBeforeGvt(r) \/ SingleReadAnti(r)
           \/ WriteAnti(r) \/ WriteAntiWithoutEffect(r)
    PROVE  IInv'
<1> USE DEF IInv
<1> DEFINE m == Head(antis[r])
<1>1. antis[r] # << >> /\ antis' = [antis EXCEPT ![r] = Tail(@)]
  BY DEF AntiBeforeGvt, SingleReadAnti, WriteAnti, WriteAntiWithoutEffect
<1>2. m \in AntiMessage /\ antis' \in [Ranks -> Seq(AntiMessage)]
  BY <1>1, QueueHead DEF TypeOK
<1> HIDE DEF m
<1>3. CASE AntiBeforeGvt(r)
  BY <1>2, <1>3 DEF AntiBeforeGvt, TypeOK, agentVars
<1>4. CASE SingleReadAnti(r)
  <2>1. \/ running' = FALSE /\ UNCHANGED writePeriods
        \/ \E k \in 1..Len(writePeriods) :
             /\ writePeriods' = WithoutRead(writePeriods, k, m.agent, m.time)
             /\ UNCHANGED running
    BY <1>4 DEF SingleReadAnti, m
  <2>2. WellFormed(writePeriods') /\ running' \in BOOLEAN
    BY <2>1, WithoutReadWellFormed DEF TypeOK
  <2>3. UNCHANGED <<fGVT, agentVars, stamp, rollbacks, ignored, gvtSafe>>
    BY <1>4 DEF SingleReadAnti
  <2> QED
    BY <1>2, <2>2, <2>3 DEF TypeOK, WellFormed, agentVars
<1>5. CASE WriteAnti(r)
  <2>1. PICK k \in 1..Len(writePeriods) :
          LET calls == {[rd EXCEPT !.time = m.time] : rd \in writePeriods[k].reads}
          IN  /\ writePeriods' = WithoutWrite(writePeriods, k)
              /\ \E key \in Keys(calls) :
                   rollbacks' = WithRollbacksFor(calls, key, m.tag)
    BY <1>5 DEF WriteAnti, m
  <2> DEFINE calls == {[rd EXCEPT !.time = m.time] : rd \in writePeriods[k].reads}
  <2>2. m.time \in GvtTime /\ m.tag \in Tag
    BY <1>2, ConstantsAssumption, MaxTimeAssumption DEF AntiMessage, Time, GvtTime
  <2>3. calls \in SUBSET ReadRecord
    <3>1. writePeriods[k].reads \subseteq ReadRecord
      BY PeriodFields DEF TypeOK
    <3>2. \A rd \in writePeriods[k].reads : [rd EXCEPT !.time = m.time] \in ReadRecord
      BY <2>2, <3>1 DEF ReadRecord
    <3> QED
      BY <3>2
  <2>4. PICK key \in Keys(calls) : rollbacks' = WithRollbacksFor(calls, key, m.tag)
    BY <2>1
  <2> HIDE DEF calls
  <2>5. rollbacks' \in [Ranks -> Seq(RollbackMessage)]
    BY <2>2, <2>3, <2>4, WithRollbacksForType DEF TypeOK
  <2>6. WellFormed(writePeriods')
    BY <2>1, WithoutWriteWellFormed
  <2>7. UNCHANGED <<fGVT, running, agentVars, stamp, ignored, gvtSafe>>
    BY <1>5 DEF WriteAnti
  <2> QED
    BY <1>2, <2>5, <2>6, <2>7 DEF TypeOK, WellFormed, agentVars
<1>6. CASE WriteAntiWithoutEffect(r)
  BY <1>2, <1>6 DEF WriteAntiWithoutEffect, TypeOK, agentVars
<1> QED
  BY <1>3, <1>4, <1>5, <1>6

\* A rollback at the ALP.
LEMMA RollbackKeepsIInv ==
    ASSUME IInv, NEW r \in Ranks,
           \/ ProcessRollback(r) \/ RollbackBeforeGvt(r)
           \/ RollbackNotNeeded(r) \/ RollbackIgnoredForTag(r)
    PROVE  IInv'
<1> USE DEF IInv
<1> DEFINE m == Head(rollbacks[r])
<1>1. rollbacks[r] # << >> /\ rollbacks' = [rollbacks EXCEPT ![r] = Tail(@)]
  BY DEF ProcessRollback, RollbackBeforeGvt, RollbackNotNeeded, RollbackIgnoredForTag
<1>2. m \in RollbackMessage /\ rollbacks' \in [Ranks -> Seq(RollbackMessage)]
  BY <1>1, QueueHead DEF TypeOK
<1> HIDE DEF m
<1>3. m.agent \in Agent /\ m.time \in GvtTime /\ m.tag \in Tag
  BY <1>2 DEF RollbackMessage
<1>4. IsFiniteSet(sendList \ Undone(m))
  BY FS_Difference
<1>5. CASE ProcessRollback(r)
  <2>1. PICK q \in InSendOrder(Undone(m)) :
          antis' = [antis EXCEPT ![r] = @ \o
                      [i \in DOMAIN q |-> [kind |-> q[i].kind, agent |-> m.agent,
                                           time |-> q[i].time, tag |-> m.tag]]]
    BY <1>5 DEF ProcessRollback, m
  <2> DEFINE sent == [i \in DOMAIN q |-> [kind |-> q[i].kind, agent |-> m.agent,
                                          time |-> q[i].time, tag |-> m.tag]]
  <2>2. sent \in Seq(AntiMessage)
    BY <1>2, <2>1, AntisOfRollback
  <2> HIDE DEF sent
  <2>3. antis[r] \o sent \in Seq(AntiMessage)
    BY <2>2, ConcatProperties DEF TypeOK
  <2>4. antis' \in [Ranks -> Seq(AntiMessage)]
    BY <2>1, <2>3 DEF sent, TypeOK
  <2>5. /\ tagList' = [tagList EXCEPT ![r] = @ \cup {m.tag}]
        /\ agentLvt' = [agentLvt EXCEPT ![m.agent] = m.time]
        /\ stopped' = stopped \ {m.agent}
        /\ sendList' = sendList \ Undone(m)
        /\ UNCHANGED <<writePeriods, fGVT, running, stamp, ignored, gvtSafe>>
    BY <1>5 DEF ProcessRollback, m
  <2> QED
    BY <1>2, <1>3, <1>4, <2>4, <2>5 DEF TypeOK
<1>6. CASE RollbackBeforeGvt(r)
  <2>1. /\ tagList' = [tagList EXCEPT ![r] = @ \cup {m.tag}]
        /\ agentLvt' = [agentLvt EXCEPT ![m.agent] = fGVT]
        /\ stopped' = stopped \cup {m.agent}
        /\ sendList' = sendList \ Undone(m)
        /\ UNCHANGED <<writePeriods, fGVT, running, stamp, antis, ignored, gvtSafe>>
    BY <1>6 DEF RollbackBeforeGvt, m
  <2> QED
    BY <1>2, <1>3, <1>4, <2>1 DEF TypeOK
<1>7. CASE RollbackNotNeeded(r)
  <2>1. /\ tagList' = [tagList EXCEPT ![r] = @ \cup {m.tag}]
        /\ UNCHANGED <<writePeriods, fGVT, running, agentLvt, stopped, sendList,
                       stamp, antis, ignored, gvtSafe>>
    BY <1>7 DEF RollbackNotNeeded, m
  <2> QED
    BY <1>2, <1>3, <2>1 DEF TypeOK
<1>8. CASE RollbackIgnoredForTag(r)
  <2>1. /\ ignored' = ignored \cup {m}
        /\ UNCHANGED <<writePeriods, fGVT, running, agentVars, stamp, antis, gvtSafe>>
    BY <1>8 DEF RollbackIgnoredForTag, m
  <2> QED
    BY <1>2, <2>1 DEF TypeOK, agentVars
<1> QED
  BY <1>5, <1>6, <1>7, <1>8

\* A new GVT.
LEMMA SetGvtKeepsIInv ==
    ASSUME IInv, NEW gvt \in GvtTime, SetGvt(gvt)
    PROVE  IInv'
<1> USE DEF IInv
<1>1. WellFormed(writePeriods')
  <2>1. CASE UNCHANGED writePeriods
    BY <2>1
  <2>2. ASSUME NEW k \in 1..Len(writePeriods), StopsAt(writePeriods, gvt, k),
               NEW first \in 1..Len(writePeriods),
               FirstStartingAt(Collected(writePeriods, k, gvt), gvt, first),
               writePeriods' = SubSeq(Collected(writePeriods, k, gvt),
                                      first, Len(writePeriods))
        PROVE  WellFormed(writePeriods')
    BY <2>2, CollectedWellFormed
  <2> QED
    BY <2>1, <2>2 DEF SetGvt
<1>2. sendList' \subseteq sendList /\ IsFiniteSet(sendList')
  <2>1. sendList' \subseteq sendList
    BY DEF SetGvt
  <2> QED
    BY <2>1, FS_Subset
<1>3. /\ fGVT' = gvt
      /\ tagList' = [r \in Ranks |-> {tag \in tagList[r] : tag.time >= gvt}]
      /\ gvtSafe' = (gvtSafe /\ Promised(gvt))
      /\ UNCHANGED <<running, agentLvt, stopped, stamp, rollbacks, antis, ignored>>
  BY DEF SetGvt
<1>4. gvtSafe' \in BOOLEAN
  BY <1>3
<1> HIDE DEF IInv
<1> QED
  BY <1>1, <1>2, <1>3, <1>4 DEF IInv, TypeOK, WellFormed

\* Every step keeps the inductive invariant: one step of the proof per handler.
LEMMA NextKeepsIInv == IInv /\ [Next]_vars => IInv'
<1> SUFFICES ASSUME IInv, [Next]_vars PROVE IInv'
  OBVIOUS
<1>1. CASE UNCHANGED vars
  BY <1>1 DEF vars, IInv, TypeOK, WellFormed
<1>2. ASSUME NEW a \in Agent, NEW t \in Time,
             \/ SingleRead(a, t) \/ SingleReadExits(a, t) \/ WriteFails(a, t)
             \/ \E v \in Value : WriteSucceeds(a, t, v)
      PROVE  IInv'
  BY <1>2, RequestKeepsIInv
<1>3. ASSUME NEW r \in Ranks,
             \/ AntiBeforeGvt(r) \/ SingleReadAnti(r)
             \/ WriteAnti(r) \/ WriteAntiWithoutEffect(r)
      PROVE  IInv'
  BY <1>3, AntiMessageKeepsIInv
<1>4. ASSUME NEW r \in Ranks,
             \/ ProcessRollback(r) \/ RollbackBeforeGvt(r)
             \/ RollbackNotNeeded(r) \/ RollbackIgnoredForTag(r)
      PROVE  IInv'
  BY <1>4, RollbackKeepsIInv
<1>5. ASSUME NEW gvt \in GvtTime, SetGvt(gvt) PROVE IInv'
  BY <1>5, SetGvtKeepsIInv
<1> QED
  BY <1>1, <1>2, <1>3, <1>4, <1>5 DEF Next

\* The inductive invariant holds in every reachable state.
LEMMA SpecIInv == Spec => []IInv
  BY InitIInv, NextKeepsIInv, PTL DEF Spec

-----------------------------------------------------------------------------
(***************************************************************************)
(* The theorems.                                                           *)
(***************************************************************************)
\* The state of a shared state variable, its CLP and its agents stays in its
\* type, for any agents, times and values, and whether or not GVT is a bound
\* on what is still in flight.
THEOREM TypeCorrect == Spec => []TypeOK
<1>1. IInv => TypeOK
  BY DEF IInv
<1> QED
  BY <1>1, SpecIInv, PTL

\* In whatever order writes, retractions and fossil collection reach the CLP,
\* its write periods tile virtual time (StateVariable.cpp:38-80, 121-297).
THEOREM HistoryAlwaysTiled == Spec => []HistoryIsTiled
<1>1. IInv => HistoryIsTiled
  <2> SUFFICES ASSUME IInv, NEW i \in 1..Len(writePeriods)
               PROVE  /\ writePeriods[i].start <= writePeriods[i].end
                      /\ IF i = Len(writePeriods)
                         THEN writePeriods[i].end \in {LONG_MAX, ULONG_MAX}
                         ELSE writePeriods[i].end = writePeriods[i + 1].start
    BY DEF HistoryIsTiled
  <2>1. PICK n \in Nat : n = Len(writePeriods)
    BY LenProperties DEF IInv, WellFormed
  <2>2. /\ writePeriods \in Seq(WritePeriod)
        /\ Ordered(writePeriods) /\ Tiled(writePeriods)
    BY DEF IInv, WellFormed
  <2>3. writePeriods[i].start \in Nat /\ writePeriods[i].start < LONG_MAX
    BY <2>2, PeriodFields
  <2>4. CASE i = n
    <3>1. writePeriods[i].end \in {LONG_MAX, ULONG_MAX}
      BY <2>1, <2>2, <2>4 DEF Tiled
    <3>2. MaxTime \in Nat
      BY ConstantsAssumption, MaxTimeAssumption
    <3>3. writePeriods[i].start <= writePeriods[i].end
      BY <2>3, <3>1, <3>2 DEF LONG_MAX, ULONG_MAX
    <3> QED
      BY <2>1, <2>4, <3>1, <3>3
  <2>5. CASE i # n
    <3>1. i < n /\ i + 1 \in 1..n /\ i <= i + 1 /\ i \in 1..n
      BY <2>1, <2>5
    <3>2. writePeriods[i].end = writePeriods[i + 1].start
      BY <2>1, <2>2, <3>1 DEF Tiled
    <3>3. writePeriods[i].start <= writePeriods[i + 1].start
      BY <2>1, <2>2, <3>1 DEF Ordered
    <3> QED
      BY <2>1, <2>5, <3>2, <3>3
  <2> QED
    BY <2>4, <2>5
<1> QED
  BY <1>1, SpecIInv, PTL

\* A read stays recorded in the period that covers its time, where the next
\* straggler write looks for it (WritePeriod.cpp:89-97).
THEOREM ReadsAlwaysFit == Spec => []ReadsBelongToTheirPeriod
<1>1. IInv => ReadsBelongToTheirPeriod
  BY DEF IInv, WellFormed, ReadsFit, ReadsBelongToTheirPeriod
<1> QED
  BY <1>1, SpecIInv, PTL

-----------------------------------------------------------------------------
(***************************************************************************)
(* GVT: fossil collection changes nothing that can still be read; as long  *)
(* as GVT was a lower bound on what was in flight, a read at GVT or later  *)
(* finds a write period, and the periods after GVT are the writes that     *)
(* were accepted and are not retracted; and, with one agent per ALP, every *)
(* read that became stale has been reported to its agent.                  *)
(*                                                                         *)
(* None of them is inductive.  That no anti-message erases the period GVT  *)
(* rests on needs the order of what is in flight: a write's anti-message   *)
(* is later than the LVT its agent was rolled back to, the agent waits     *)
(* behind its own anti-messages, so a GVT that is a bound on the LVT stays *)
(* before the retracted write (BoundHolds).  That a stale read has been    *)
(* reported needs to know where the others are: in the reads of the period *)
(* that is in force at their time (ReadsAreTraced).  That the history is   *)
(* the accepted writes needs their number: an agent may have several of    *)
(* one time (WritesInv).                                                   *)
(***************************************************************************)

\* Messages wait at the ALP of the agent they are about.
Addressed ==
    /\ \A r \in Ranks : \A m \in ToSet(rollbacks[r]) : m.agent.rank = r
    /\ \A r \in Ranks : \A m \in ToSet(antis[r]) : m.agent.rank = r

NothingBeforeGvt ==
    /\ \A a \in Agent : fGVT <= agentLvt[a]
    /\ \A r \in Ranks : \A m \in ToSet(rollbacks[r]) : fGVT <= m.time
    /\ \A r \in Ranks : \A m \in ToSet(antis[r]) : fGVT <= m.time

\* What an agent retracts is not before its LVT, and a write is after it.
RetractedIsAhead ==
    \A r \in Ranks : \A m \in ToSet(antis[r]) :
      /\ agentLvt[m.agent] <= m.time
      /\ m.kind = "write" => agentLvt[m.agent] < m.time

ReadsAreBehind ==
    \A e \in sendList : e.kind = "read" => e.time < agentLvt[e.agent]

BoundHolds ==
    /\ running /\ writePeriods # << >> /\ writePeriods[1].start <= fGVT
    /\ NothingBeforeGvt
    /\ RetractedIsAhead
    /\ ReadsAreBehind

GvtInv == Addressed /\ (gvtSafe => BoundHolds)

-----------------------------------------------------------------------------
(***************************************************************************)
(* The queues.                                                             *)
(***************************************************************************)
\* A queue from which the head is taken.
LEMMA Popped ==
    ASSUME NEW M, NEW queues \in [Ranks -> Seq(M)], NEW r \in Ranks,
           queues[r] # << >>, NEW x \in Ranks
    PROVE  /\ Head(queues[r]) \in ToSet(queues[r])
           /\ ToSet([queues EXCEPT ![r] = Tail(@)][x]) \subseteq ToSet(queues[x])
           /\ ToSet(queues[x]) \subseteq
                ToSet([queues EXCEPT ![r] = Tail(@)][x]) \cup {Head(queues[r])}
<1>1. queues[r] \in Seq(M)
  OBVIOUS
<1>2. /\ Head(queues[r]) \in ToSet(queues[r])
      /\ ToSet(Tail(queues[r])) \subseteq ToSet(queues[r])
      /\ ToSet(queues[r]) \subseteq ToSet(Tail(queues[r])) \cup {Head(queues[r])}
  BY <1>1, ToSetOfTail
<1>3. [queues EXCEPT ![r] = Tail(@)][x] = IF x = r THEN Tail(queues[r]) ELSE queues[x]
  OBVIOUS
<1> QED
  BY <1>2, <1>3, Zenon

\* What SendRollbacks puts on a queue: one rollback of a reader, to a time of
\* the reads asked for.
LEMMA RollbacksSent ==
    ASSUME TypeOK,
           NEW calls \in SUBSET ReadRecord, NEW key \in Keys(calls), NEW tag \in Tag,
           NEW r \in Ranks
    PROVE  /\ ToSet(rollbacks[r]) \subseteq ToSet(WithRollbacksFor(calls, key, tag)[r])
           /\ \A m \in ToSet(WithRollbacksFor(calls, key, tag)[r]) :
                \/ m \in ToSet(rollbacks[r])
                \/ m.agent.rank = r /\ \E c \in calls : m.time = c.time
<1> DEFINE a == CHOOSE a \in key : a.rank = r
           new == [agent |-> a, tag |-> tag, time |-> EarliestFor(calls, a)]
<1>1. CASE \E x \in key : x.rank = r
  <2>1. a \in key /\ a.rank = r
    BY <1>1
  <2>2. /\ a \in Agent /\ EarliestFor(calls, a) \in GvtTime
        /\ \E c \in calls : EarliestFor(calls, a) = c.time
    BY <2>1, EarliestIsTime
  <2>3. new \in RollbackMessage /\ new.agent = a /\ new.time = EarliestFor(calls, a)
    BY <2>2 DEF RollbackMessage
  <2>4. WithRollbacksFor(calls, key, tag)[r] = Append(rollbacks[r], new)
    BY <1>1 DEF WithRollbacksFor
  <2> HIDE DEF new, a
  <2>5. ToSet(Append(rollbacks[r], new)) = ToSet(rollbacks[r]) \cup {new}
    BY <2>3, ToSetOfAppend DEF TypeOK
  <2> QED
    BY <2>1, <2>2, <2>3, <2>4, <2>5
<1>2. CASE ~ \E x \in key : x.rank = r
  BY <1>2 DEF WithRollbacksFor
<1> QED
  BY <1>1, <1>2

\* The anti-messages of a rollback join the queue of its ALP.
LEMMA AntisSent ==
    ASSUME TypeOK, IsFiniteSet(sendList), NEW r \in Ranks, NEW m \in RollbackMessage,
           NEW q \in InSendOrder(Undone(m)), NEW x \in Ranks,
           NEW sent, sent = [i \in DOMAIN q |->
                               [kind |-> q[i].kind, agent |-> m.agent,
                                time |-> q[i].time, tag |-> m.tag]],
           NEW d \in ToSet([antis EXCEPT ![r] = @ \o sent][x])
    PROVE  \/ d \in ToSet(antis[x])
           \/ /\ x = r /\ d.agent = m.agent
              /\ \E e \in Undone(m) : d.kind = e.kind /\ d.time = e.time
<1>1. sent \in Seq(AntiMessage)
  BY AntisOfRollback
<1>2. antis[x] \in Seq(AntiMessage) /\ antis \in [Ranks -> Seq(AntiMessage)]
  BY DEF TypeOK
<1>3. CASE x = r
  <2>1. [antis EXCEPT ![r] = @ \o sent][x] = antis[x] \o sent
    BY <1>2, <1>3
  <2>2. d \in ToSet(antis[x]) \/ d \in ToSet(sent)
    BY <1>1, <1>2, <2>1, ToSetOfConcat
  <2>3. ASSUME d \in ToSet(sent)
        PROVE  /\ d.agent = m.agent
               /\ \E e \in Undone(m) : d.kind = e.kind /\ d.time = e.time
    <3>1. DOMAIN sent = DOMAIN q
      OBVIOUS
    <3>2. PICK i \in DOMAIN q : d = sent[i]
      BY <2>3, <3>1 DEF ToSet
    <3>3. q[i] \in Undone(m)
      BY DEF InSendOrder
    <3> QED
      BY <3>2, <3>3
  <2> QED
    BY <1>3, <2>2, <2>3
<1>4. CASE x # r
  BY <1>2, <1>4
<1> QED
  BY <1>3, <1>4

-----------------------------------------------------------------------------
(***************************************************************************)
(* GVT rests on the first write period.                                    *)
(***************************************************************************)
LEMMA InitGvtInv == Init => GvtInv
<1> SUFFICES ASSUME Init PROVE GvtInv
  OBVIOUS
<1>1. \A r \in Ranks : ToSet(rollbacks[r]) = {} /\ ToSet(antis[r]) = {}
  BY DEF Init, ToSet
<1>2. running /\ writePeriods # << >> /\ writePeriods[1].start <= fGVT
  BY DEF Init
<1>3. (\A a \in Agent : fGVT <= agentLvt[a]) /\ sendList = {}
  BY DEF Init
<1> QED
  BY <1>1, <1>2, <1>3
  DEF GvtInv, Addressed, BoundHolds, NothingBeforeGvt, RetractedIsAhead, ReadsAreBehind

\* An agent whose request is answered has nothing in flight, so its LVT can
\* move on without passing what it retracted.
LEMMA AnsweredKeepsBounds ==
    ASSUME TypeOK, Addressed, BoundHolds, NEW a \in Agent, NEW t \in Time,
           MayRequest(a, t), NEW entry, Answered(a, t, entry),
           \A e \in entry : e.agent = a /\ e.time = t,
           UNCHANGED <<fGVT, antis>>
    PROVE  /\ t >= fGVT
           /\ \A b \in Agent : fGVT' <= agentLvt'[b]
           /\ \A r \in Ranks : \A m \in ToSet(antis'[r]) : fGVT' <= m.time
           /\ RetractedIsAhead'
           /\ ReadsAreBehind'
<1>1. /\ t \in Nat /\ fGVT \in Nat /\ agentLvt \in [Agent -> GvtTime]
      /\ \A b \in Agent : agentLvt[b] \in Nat
      /\ \A r \in Ranks : antis[r] \in Seq(AntiMessage)
  BY ConstantsAssumption, MaxTimeAssumption DEF TypeOK, Time, GvtTime
<1>2. /\ t >= agentLvt[a] /\ antis[a.rank] = << >>
      /\ agentLvt' = [agentLvt EXCEPT ![a] = t + 1]
      /\ sendList' = sendList \cup entry
      /\ fGVT' = fGVT /\ antis' = antis
  BY DEF MayRequest, Answered
<1>3. \A b \in Agent : agentLvt[b] <= agentLvt'[b]
  BY <1>1, <1>2
<1>4. NothingBeforeGvt /\ RetractedIsAhead /\ ReadsAreBehind
  BY DEF BoundHolds
<1>5. \A b \in Agent : fGVT' <= agentLvt'[b]
  BY <1>1, <1>2, <1>4 DEF NothingBeforeGvt
<1>6. RetractedIsAhead'
  <2> SUFFICES ASSUME NEW r \in Ranks, NEW m \in ToSet(antis[r])
               PROVE  /\ agentLvt'[m.agent] <= m.time
                      /\ m.kind = "write" => agentLvt'[m.agent] < m.time
    BY <1>2 DEF RetractedIsAhead
  <2>1. m.agent.rank = r
    BY DEF Addressed
  <2>2. m.agent # a
    BY <1>2, <2>1 DEF ToSet
  <2>3. agentLvt'[m.agent] = agentLvt[m.agent]
    BY <1>1, <1>2, <2>2
  <2> QED
    BY <1>4, <2>3 DEF RetractedIsAhead
<1>7. ReadsAreBehind'
  <2> SUFFICES ASSUME NEW e \in sendList \cup entry, e.kind = "read"
               PROVE  e.time < agentLvt'[e.agent]
    BY <1>2 DEF ReadsAreBehind
  <2>1. CASE e \in sendList
    <3>1. e.agent \in Agent /\ e.time \in Nat
      BY <2>1, ConstantsAssumption, MaxTimeAssumption DEF TypeOK, SentMessage, Time
    <3>2. agentLvt[e.agent] \in Nat /\ agentLvt'[e.agent] \in Nat
      BY <1>1, <1>2, <3>1
    <3> QED
      BY <1>3, <1>4, <2>1, <3>1, <3>2 DEF ReadsAreBehind
  <2>2. CASE e \in entry
    BY <1>1, <1>2, <2>2
  <2> QED
    BY <2>1, <2>2
<1> QED
  BY <1>1, <1>2, <1>4, <1>5, <1>6, <1>7 DEF NothingBeforeGvt

\* A request of an agent.
LEMMA RequestKeepsGvtInv ==
    ASSUME IInv, GvtInv, NEW a \in Agent, NEW t \in Time,
           \/ SingleRead(a, t) \/ SingleReadExits(a, t) \/ WriteFails(a, t)
           \/ \E v \in Value : WriteSucceeds(a, t, v)
    PROVE  GvtInv'
<1>1. /\ TypeOK /\ WellFormed(writePeriods) /\ Addressed
      /\ writePeriods \in Seq(WritePeriod)
  BY DEF IInv, GvtInv, WellFormed
<1>2. /\ t \in Nat /\ fGVT \in Nat /\ t \in GvtTime
      /\ gvtSafe => BoundHolds
      /\ IF t < fGVT THEN fGVT \in GvtTime ELSE t \in GvtTime
  BY <1>1, ConstantsAssumption, MaxTimeAssumption DEF GvtInv, TypeOK, Time, GvtTime
<1>3. CASE SingleReadExits(a, t)
  <2>1. UNCHANGED <<writePeriods, fGVT, agentLvt, sendList, rollbacks, antis, gvtSafe>>
    BY <1>3 DEF SingleReadExits, agentVars
  <2>2. ~ gvtSafe
    <3> SUFFICES ASSUME BoundHolds PROVE FALSE
      BY <1>2
    <3>1. writePeriods # << >> /\ writePeriods[1].start <= fGVT
      BY DEF BoundHolds
    <3>2. 1 \in 1..Len(writePeriods) /\ writePeriods[1].start \in Nat
      BY <1>1, <3>1, PeriodFields
    <3>3. writePeriods[1].start > IF t < fGVT THEN fGVT ELSE t
      BY <1>3, <3>2 DEF SingleReadExits, FallsOff
    <3> QED
      BY <1>2, <3>1, <3>2, <3>3
  <2> QED
    BY <1>1, <2>1, <2>2 DEF GvtInv, Addressed
<1>4. CASE SingleRead(a, t)
  <2> DEFINE ts == IF t < fGVT THEN fGVT ELSE t
  <2>1. PICK k \in 1..Len(writePeriods) :
          /\ StopsAt(writePeriods, ts, k)
          /\ writePeriods' = WithRead(writePeriods, k, a, ts)
          /\ Answered(a, t, {Sent("read", a, t, writePeriods[k].value)})
    BY <1>4 DEF SingleRead
  <2>2. MayRequest(a, t) /\ UNCHANGED <<fGVT, running, rollbacks, antis, gvtSafe>>
    BY <1>4 DEF SingleRead
  <2>3. ASSUME BoundHolds PROVE BoundHolds'
    <3>1. /\ \A b \in Agent : fGVT' <= agentLvt'[b]
          /\ \A r \in Ranks : \A m \in ToSet(antis'[r]) : fGVT' <= m.time
          /\ RetractedIsAhead' /\ ReadsAreBehind'
      <4>1. \A e \in {Sent("read", a, t, writePeriods[k].value)} :
              e.agent = a /\ e.time = t
        BY DEF Sent
      <4> QED
        BY <1>1, <2>1, <2>2, <2>3, <4>1, AnsweredKeepsBounds
    <3>2. /\ running /\ writePeriods # << >> /\ writePeriods[1].start <= fGVT
          /\ NothingBeforeGvt
      BY <2>3 DEF BoundHolds
    <3>3. writePeriods' # << >> /\ writePeriods'[1].start = writePeriods[1].start
      BY <1>1, <2>1, <3>2, PeriodFields DEF WithRead, WritePeriod
    <3> QED
      BY <2>2, <3>1, <3>2, <3>3 DEF BoundHolds, NothingBeforeGvt
  <2> QED
    BY <1>1, <1>2, <2>2, <2>3 DEF GvtInv, Addressed
<1>5. CASE WriteFails(a, t)
  <2>1. /\ MayRequest(a, t) /\ Answered(a, t, {})
        /\ UNCHANGED <<writePeriods, fGVT, running, rollbacks, antis, gvtSafe>>
    BY <1>5 DEF WriteFails
  <2>2. ASSUME BoundHolds PROVE BoundHolds'
    <3>1. /\ \A b \in Agent : fGVT' <= agentLvt'[b]
          /\ \A r \in Ranks : \A m \in ToSet(antis'[r]) : fGVT' <= m.time
          /\ RetractedIsAhead' /\ ReadsAreBehind'
      BY <1>1, <2>1, <2>2, AnsweredKeepsBounds
    <3> QED
      BY <2>1, <2>2, <3>1 DEF BoundHolds, NothingBeforeGvt
  <2> QED
    BY <1>1, <1>2, <2>1, <2>2 DEF GvtInv, Addressed
<1>6. ASSUME NEW v \in Value, WriteSucceeds(a, t, v) PROVE GvtInv'
  <2> DEFINE new == [start |-> t, end |-> ULONG_MAX, value |-> v, agent |-> a,
                     reads |-> {}]
             tag == [time |-> t, stamp |-> stamp + 1]
  <2>1. /\ MayRequest(a, t)
        /\ Answered(a, t, {Sent("write", a, t, v)})
        /\ UNCHANGED <<fGVT, running, antis, gvtSafe>>
    BY <1>6 DEF WriteSucceeds
  <2>2. \/ writePeriods = << >> /\ rollbacks' = rollbacks
        \/ \E k \in 1..Len(writePeriods) :
             /\ writePeriods' = WithWrite(writePeriods, k, new)
             /\ \/ rollbacks' = rollbacks
                \/ /\ stamp < MaxStamp
                   /\ \E key \in Keys(ReadsAfterInclusive(writePeriods[k], t)) :
                        rollbacks' = WithRollbacksFor(
                                       ReadsAfterInclusive(writePeriods[k], t), key, tag)
    BY <1>6 DEF WriteSucceeds
  <2>3. new \in WritePeriod
    BY <1>2 DEF WritePeriod, LpIds
  <2> HIDE DEF new
  <2>4. ASSUME NEW r \in Ranks, NEW m \in ToSet(rollbacks'[r])
        PROVE  m \in ToSet(rollbacks[r]) \/ (m.agent.rank = r /\ m.time >= t)
    <3>1. CASE rollbacks' = rollbacks
      BY <2>4, <3>1
    <3>2. ASSUME NEW k \in 1..Len(writePeriods), stamp < MaxStamp,
                 NEW key \in Keys(ReadsAfterInclusive(writePeriods[k], t)),
                 rollbacks' = WithRollbacksFor(
                                ReadsAfterInclusive(writePeriods[k], t), key, tag)
          PROVE  m \in ToSet(rollbacks[r]) \/ (m.agent.rank = r /\ m.time >= t)
      <4>1. ReadsAfterInclusive(writePeriods[k], t) \in SUBSET ReadRecord
        BY <1>1, PeriodFields DEF ReadsAfterInclusive
      <4>2. tag \in Tag
        BY <1>1, <3>2, ConstantsAssumption, MaxTimeAssumption DEF TypeOK, Tag
      <4> HIDE DEF tag
      <4>3. \/ m \in ToSet(rollbacks[r])
            \/ /\ m.agent.rank = r
               /\ \E c \in ReadsAfterInclusive(writePeriods[k], t) : m.time = c.time
        BY <1>1, <2>4, <3>2, <4>1, <4>2, RollbacksSent
      <4> QED
        BY <4>3 DEF ReadsAfterInclusive
    <3> QED
      BY <2>2, <3>1, <3>2
  <2>5. Addressed'
    BY <1>1, <2>1, <2>4 DEF Addressed
  <2>6. ASSUME BoundHolds PROVE BoundHolds'
    <3>1. /\ t >= fGVT
          /\ \A b \in Agent : fGVT' <= agentLvt'[b]
          /\ \A r \in Ranks : \A m \in ToSet(antis'[r]) : fGVT' <= m.time
          /\ RetractedIsAhead' /\ ReadsAreBehind'
      <4>1. \A e \in {Sent("write", a, t, v)} : e.agent = a /\ e.time = t
        BY DEF Sent
      <4> QED
        BY <1>1, <2>1, <2>6, <4>1, AnsweredKeepsBounds
    <3>2. /\ running /\ writePeriods # << >> /\ writePeriods[1].start <= fGVT
          /\ NothingBeforeGvt
      BY <2>6 DEF BoundHolds
    <3>3. PICK k \in 1..Len(writePeriods) :
            writePeriods' = WithWrite(writePeriods, k, new)
      BY <2>2, <3>2
    <3>4. PICK n \in Nat : n = Len(writePeriods)
      BY <1>1
    <3>5. IsWithWrite(writePeriods', writePeriods, n, k, CutShort(writePeriods, k, new),
                      Placed(writePeriods, k, new))
      BY <1>1, <2>3, <3>3, <3>4, WithWriteElements
    <3>6. writePeriods' # << >> /\ writePeriods'[1].start = writePeriods[1].start
      <4>1. writePeriods' # << >>
        BY <3>4, <3>5 DEF IsWithWrite
      <4>2. CASE k = 1
        <5>1. writePeriods'[1] = CutShort(writePeriods, k, new)
          BY <3>5, <4>2 DEF IsWithWrite
        <5> QED
          BY <1>1, <4>1, <4>2, <5>1, PeriodFields DEF CutShort, WritePeriod
      <4>3. CASE k # 1
        <5>1. 1 \in 1..(k - 1)
          BY <4>3
        <5> QED
          BY <3>5, <4>1, <5>1 DEF IsWithWrite
      <4> QED
        BY <4>2, <4>3
    <3>7. \A r \in Ranks : \A m \in ToSet(rollbacks'[r]) : fGVT' <= m.time
      <4> SUFFICES ASSUME NEW r \in Ranks, NEW m \in ToSet(rollbacks'[r])
                   PROVE  fGVT <= m.time
        BY <2>1
      <4>1. CASE m \in ToSet(rollbacks[r])
        BY <3>2, <4>1 DEF NothingBeforeGvt
      <4>2. CASE m.time >= t
        <5>1. rollbacks' \in [Ranks -> Seq(RollbackMessage)]
          BY RequestKeepsIInv DEF IInv, TypeOK
        <5>2. m \in RollbackMessage
          BY <5>1 DEF ToSet
        <5> QED
          BY <1>2, <3>1, <4>2, <5>2, ConstantsAssumption, MaxTimeAssumption
          DEF RollbackMessage, GvtTime
      <4> QED
        BY <2>4, <4>1, <4>2
    <3> QED
      BY <2>1, <3>1, <3>2, <3>6, <3>7 DEF BoundHolds, NothingBeforeGvt
  <2> QED
    BY <1>2, <2>1, <2>5, <2>6 DEF GvtInv
<1> QED
  BY <1>3, <1>4, <1>5, <1>6

\* The first period keeps its start when another one is erased.
LEMMA FirstPeriodStays ==
    ASSUME NEW p, WellFormed(p), NEW k \in 1..Len(p), k # 1
    PROVE  WithoutWrite(p, k) # << >> /\ WithoutWrite(p, k)[1].start = p[1].start
<1>1. PICK n \in Nat : n = Len(p)
  BY LenProperties DEF WellFormed
<1>2. /\ p \in Seq(WritePeriod) /\ k \in 1..n /\ n >= 2
      /\ 1 \in 1..(n - 1) /\ 1 <= k - 1
  BY <1>1 DEF WellFormed
<1>3. IsWithoutWrite(WithoutWrite(p, k), p, n, k, TakingOver(p, k))
  BY <1>1, <1>2, WithoutWriteElements
<1>4. WithoutWrite(p, k) # << >>
  BY <1>2, <1>3 DEF IsWithoutWrite
<1>5. CASE k = 2
  <2>1. WithoutWrite(p, k)[1] = TakingOver(p, k)
    BY <1>2, <1>3, <1>5 DEF IsWithoutWrite
  <2>2. p[k - 1] = p[1] /\ p[1] \in WritePeriod
    BY <1>1, <1>2, <1>5, PeriodFields
  <2>3. TakingOver(p, k).start = p[1].start
    BY <2>2 DEF TakingOver, WritePeriod
  <2> QED
    BY <1>4, <2>1, <2>3
<1>6. CASE k # 2
  <2>1. 1 < k - 1
    BY <1>2, <1>6
  <2>2. WithoutWrite(p, k)[1] = p[1]
    BY <1>2, <1>3, <2>1 DEF IsWithoutWrite
  <2> QED
    BY <1>4, <2>2
<1> QED
  BY <1>5, <1>6

\* An anti-message at the CLP.  The write it erases is later than GVT, so it is
\* not the period that GVT rests on.
LEMMA AntiMessageKeepsGvtInv ==
    ASSUME IInv, GvtInv, NEW r \in Ranks,
           \/ AntiBeforeGvt(r) \/ SingleReadAnti(r)
           \/ WriteAnti(r) \/ WriteAntiWithoutEffect(r)
    PROVE  GvtInv'
<1> DEFINE m == Head(antis[r])
<1>1. /\ TypeOK /\ WellFormed(writePeriods) /\ Addressed
      /\ writePeriods \in Seq(WritePeriod)
      /\ gvtSafe => BoundHolds
  BY DEF IInv, GvtInv, WellFormed
<1>2. antis[r] # << >> /\ antis' = [antis EXCEPT ![r] = Tail(@)]
  BY DEF AntiBeforeGvt, SingleReadAnti, WriteAnti, WriteAntiWithoutEffect
<1>3. UNCHANGED <<fGVT, agentLvt, sendList, gvtSafe>>
  BY DEF AntiBeforeGvt, SingleReadAnti, WriteAnti, WriteAntiWithoutEffect, agentVars
<1>4. m \in AntiMessage /\ m \in ToSet(antis[r])
  BY <1>1, <1>2, QueueHead, Popped DEF TypeOK
<1>5. \A x \in Ranks : ToSet(antis'[x]) \subseteq ToSet(antis[x])
  BY <1>1, <1>2, Popped DEF TypeOK
<1>6. /\ m.agent \in Agent /\ m.time \in Nat /\ m.time \in GvtTime /\ m.tag \in Tag
      /\ fGVT \in Nat /\ agentLvt[m.agent] \in Nat
  BY <1>1, <1>4, ConstantsAssumption, MaxTimeAssumption
  DEF TypeOK, AntiMessage, Time, GvtTime
<1> HIDE DEF m
<1>7. ASSUME BoundHolds
      PROVE  /\ NothingBeforeGvt /\ RetractedIsAhead' /\ ReadsAreBehind'
             /\ \A x \in Ranks : \A d \in ToSet(antis'[x]) : fGVT' <= d.time
             /\ \A a \in Agent : fGVT' <= agentLvt'[a]
             /\ fGVT <= m.time
             /\ m.kind = "write" => fGVT < m.time
             /\ running /\ writePeriods # << >> /\ writePeriods[1].start <= fGVT
  <2>1. /\ NothingBeforeGvt /\ RetractedIsAhead /\ ReadsAreBehind
        /\ running /\ writePeriods # << >> /\ writePeriods[1].start <= fGVT
    BY <1>7 DEF BoundHolds
  <2>2. /\ \A x \in Ranks : \A d \in ToSet(antis'[x]) : fGVT' <= d.time
        /\ \A a \in Agent : fGVT' <= agentLvt'[a]
    BY <1>3, <1>5, <2>1 DEF NothingBeforeGvt
  <2>3. RetractedIsAhead' /\ ReadsAreBehind'
    BY <1>3, <1>5, <2>1 DEF RetractedIsAhead, ReadsAreBehind
  <2>4. fGVT <= m.time /\ fGVT <= agentLvt[m.agent]
    BY <1>4, <1>6, <2>1 DEF NothingBeforeGvt
  <2>5. m.kind = "write" => agentLvt[m.agent] < m.time
    BY <1>4, <2>1 DEF RetractedIsAhead
  <2> QED
    BY <1>6, <2>1, <2>2, <2>3, <2>4, <2>5
<1>8. CASE /\ UNCHANGED rollbacks
           /\ BoundHolds => /\ running'
                            /\ writePeriods' # << >> /\ writePeriods'[1].start <= fGVT
  <2>1. Addressed'
    BY <1>1, <1>5, <1>8 DEF Addressed
  <2>2. BoundHolds => BoundHolds'
    BY <1>3, <1>7, <1>8 DEF BoundHolds, NothingBeforeGvt
  <2> QED
    BY <1>1, <1>3, <2>1, <2>2 DEF GvtInv
<1>9. CASE AntiBeforeGvt(r) \/ WriteAntiWithoutEffect(r)
  <2>1. UNCHANGED <<rollbacks, running, writePeriods>>
    BY <1>9 DEF AntiBeforeGvt, WriteAntiWithoutEffect
  <2> QED
    BY <1>7, <1>8, <2>1
<1>10. CASE SingleReadAnti(r)
  <2>1. UNCHANGED rollbacks
    BY <1>10 DEF SingleReadAnti
  <2>2. \/ FallsOff(writePeriods, m.time)
        \/ \E k \in 1..Len(writePeriods) :
             /\ writePeriods' = WithoutRead(writePeriods, k, m.agent, m.time)
             /\ UNCHANGED running
    BY <1>10 DEF SingleReadAnti, m
  <2>3. ASSUME BoundHolds
        PROVE  /\ running'
               /\ writePeriods' # << >> /\ writePeriods'[1].start <= fGVT
    <3>1. /\ running /\ writePeriods # << >> /\ writePeriods[1].start <= fGVT
          /\ fGVT <= m.time
      BY <1>7, <2>3
    <3>2. 1 \in 1..Len(writePeriods) /\ writePeriods[1].start \in Nat
      BY <1>1, <3>1, PeriodFields
    <3>3. ~ FallsOff(writePeriods, m.time)
      BY <1>6, <3>1, <3>2 DEF FallsOff
    <3>4. PICK k \in 1..Len(writePeriods) :
            /\ writePeriods' = WithoutRead(writePeriods, k, m.agent, m.time)
            /\ UNCHANGED running
      BY <2>2, <3>3
    <3>5. writePeriods' # << >> /\ writePeriods'[1].start = writePeriods[1].start
      BY <1>1, <3>1, <3>4, PeriodFields DEF WithoutRead, WritePeriod
    <3> QED
      BY <3>1, <3>4, <3>5
  <2> QED
    BY <1>8, <2>1, <2>3
<1>11. CASE WriteAnti(r)
  <2>1. PICK k \in 1..Len(writePeriods) :
          LET calls == {[rd EXCEPT !.time = m.time] : rd \in writePeriods[k].reads}
          IN  /\ Retracts(writePeriods, m, k)
              /\ writePeriods' = WithoutWrite(writePeriods, k)
              /\ \E key \in Keys(calls) :
                   rollbacks' = WithRollbacksFor(calls, key, m.tag)
    BY <1>11 DEF WriteAnti, m
  <2>2. UNCHANGED running /\ m.kind = "write"
    BY <1>11 DEF WriteAnti, m
  <2> DEFINE calls == {[rd EXCEPT !.time = m.time] : rd \in writePeriods[k].reads}
  <2>3. calls \in SUBSET ReadRecord /\ \A c \in calls : c.time = m.time
    <3>1. writePeriods[k].reads \subseteq ReadRecord
      BY <1>1, PeriodFields
    <3> DEFINE at(rd) == [rd EXCEPT !.time = m.time]
    <3>2. \A rd \in writePeriods[k].reads : at(rd) \in ReadRecord /\ at(rd).time = m.time
      BY <1>6, <3>1 DEF ReadRecord
    <3>3. calls = {at(rd) : rd \in writePeriods[k].reads}
      OBVIOUS
    <3> HIDE DEF at, calls
    <3> QED
      BY <3>2, <3>3
  <2>4. PICK key \in Keys(calls) : rollbacks' = WithRollbacksFor(calls, key, m.tag)
    BY <2>1
  <2> HIDE DEF calls
  <2>5. ASSUME NEW x \in Ranks, NEW d \in ToSet(rollbacks'[x])
        PROVE  d \in ToSet(rollbacks[x]) \/ (d.agent.rank = x /\ d.time = m.time)
    BY <1>1, <1>6, <2>3, <2>4, <2>5, RollbacksSent
  <2>6. Addressed'
    BY <1>1, <1>5, <2>5 DEF Addressed
  <2>7. ASSUME BoundHolds PROVE BoundHolds'
    <3>1. /\ running /\ writePeriods # << >> /\ writePeriods[1].start <= fGVT
          /\ fGVT < m.time /\ NothingBeforeGvt
      BY <1>7, <2>2, <2>7
    <3>2. writePeriods[1].start \in Nat /\ writePeriods[k].start = m.time
      BY <1>1, <2>1, <3>1, PeriodFields DEF Retracts, FirstStartingAt
    <3>3. k # 1
      BY <1>6, <3>1, <3>2
    <3>4. writePeriods' # << >> /\ writePeriods'[1].start = writePeriods[1].start
      BY <1>1, <2>1, <3>3, FirstPeriodStays
    <3>5. \A x \in Ranks : \A d \in ToSet(rollbacks'[x]) : fGVT' <= d.time
      BY <1>3, <1>6, <2>5, <3>1 DEF NothingBeforeGvt
    <3>6. /\ RetractedIsAhead' /\ ReadsAreBehind'
          /\ \A x \in Ranks : \A d \in ToSet(antis'[x]) : fGVT' <= d.time
          /\ \A a \in Agent : fGVT' <= agentLvt'[a]
      BY <1>7, <2>7
    <3>7. running' /\ writePeriods'[1].start <= fGVT'
      BY <1>3, <2>2, <3>1, <3>4
    <3> QED
      BY <3>4, <3>5, <3>6, <3>7 DEF BoundHolds, NothingBeforeGvt
  <2> QED
    BY <1>1, <1>3, <2>6, <2>7 DEF GvtInv
<1> QED
  BY <1>9, <1>10, <1>11

\* A rollback at the ALP.  What it retracts is not before the time it goes back
\* to, and a write is after it.
LEMMA RollbackKeepsGvtInv ==
    ASSUME IInv, GvtInv, NEW r \in Ranks,
           \/ ProcessRollback(r) \/ RollbackBeforeGvt(r)
           \/ RollbackNotNeeded(r) \/ RollbackIgnoredForTag(r)
    PROVE  GvtInv'
<1> DEFINE m == Head(rollbacks[r])
<1>1. /\ TypeOK /\ Addressed /\ IsFiniteSet(sendList)
      /\ gvtSafe => BoundHolds
  BY DEF IInv, GvtInv
<1>2. rollbacks[r] # << >> /\ rollbacks' = [rollbacks EXCEPT ![r] = Tail(@)]
  BY DEF ProcessRollback, RollbackBeforeGvt, RollbackNotNeeded, RollbackIgnoredForTag
<1>3. UNCHANGED <<writePeriods, fGVT, running, gvtSafe>>
  BY DEF ProcessRollback, RollbackBeforeGvt, RollbackNotNeeded, RollbackIgnoredForTag
<1>4. m \in RollbackMessage /\ m \in ToSet(rollbacks[r]) /\ m.agent.rank = r
  BY ZenonT(30), <1>1, <1>2, QueueHead, Popped DEF TypeOK, Addressed
<1>5. \A x \in Ranks : ToSet(rollbacks'[x]) \subseteq ToSet(rollbacks[x])
  BY <1>1, <1>2, Popped DEF TypeOK
<1>6. /\ m.agent \in Agent /\ m.time \in Nat
      /\ fGVT \in Nat /\ agentLvt \in [Agent -> GvtTime] /\ GvtTime \subseteq Nat
      /\ \A e \in sendList : e.agent \in Agent /\ e.time \in Nat
                             /\ (e.kind = "read" \/ e.kind = "write")
      /\ \A x \in Ranks : \A d \in ToSet(antis[x]) : d.agent \in Agent /\ d.time \in Nat
  <2>1. /\ m.agent \in Agent /\ m.time \in Nat
        /\ fGVT \in Nat /\ agentLvt \in [Agent -> GvtTime] /\ GvtTime \subseteq Nat
    BY <1>1, <1>4, ConstantsAssumption, MaxTimeAssumption
    DEF TypeOK, RollbackMessage, GvtTime
  <2>2. \A e \in sendList : e.agent \in Agent /\ e.time \in Nat
                            /\ (e.kind = "read" \/ e.kind = "write")
    BY <1>1, ConstantsAssumption, MaxTimeAssumption DEF TypeOK, SentMessage, Time
  <2>3. ASSUME NEW x \in Ranks, NEW d \in ToSet(antis[x])
        PROVE  d.agent \in Agent /\ d.time \in Nat
    <3>1. antis[x] \in Seq(AntiMessage)
      BY <1>1 DEF TypeOK
    <3>2. d \in AntiMessage
      BY <2>3, <3>1 DEF ToSet
    <3> QED
      BY <3>2, ConstantsAssumption, MaxTimeAssumption DEF AntiMessage, Time
  <2> QED
    BY <2>1, <2>2, <2>3
<1>7. CASE RollbackNotNeeded(r) \/ RollbackIgnoredForTag(r)
  <2>1. UNCHANGED <<agentLvt, sendList, antis>>
    BY <1>7 DEF RollbackNotNeeded, RollbackIgnoredForTag, agentVars
  <2>2. Addressed'
    BY <1>1, <1>5, <2>1 DEF Addressed
  <2>3. BoundHolds => BoundHolds'
    BY <1>3, <1>5, <2>1
    DEF BoundHolds, NothingBeforeGvt, RetractedIsAhead, ReadsAreBehind
  <2> QED
    BY <1>1, <1>3, <2>2, <2>3 DEF GvtInv
<1>8. CASE RollbackBeforeGvt(r)
  <2>1. UNCHANGED antis
    BY <1>8 DEF RollbackBeforeGvt
  <2>2. ~ gvtSafe
    <3> SUFFICES ASSUME BoundHolds PROVE FALSE
      BY <1>1
    <3>1. fGVT <= m.time
      BY <1>4 DEF BoundHolds, NothingBeforeGvt
    <3>2. PICK e \in Undone(m) : e.time < fGVT
      BY <1>8 DEF RollbackBeforeGvt, m
    <3>3. e.time >= m.time /\ e.time \in Nat
      BY <1>6, <3>2 DEF Undone
    <3> QED
      BY <1>6, <3>1, <3>2, <3>3
  <2>3. Addressed'
    BY <1>1, <1>5, <2>1 DEF Addressed
  <2> QED
    BY <1>3, <2>2, <2>3 DEF GvtInv
<1>9. CASE ProcessRollback(r)
  <2>1. /\ m.time < agentLvt[m.agent]
        /\ agentLvt' = [agentLvt EXCEPT ![m.agent] = m.time]
        /\ sendList' = sendList \ Undone(m)
    BY <1>9 DEF ProcessRollback, m
  <2>2. PICK q \in InSendOrder(Undone(m)) :
          antis' = [antis EXCEPT ![r] = @ \o
                      [i \in DOMAIN q |-> [kind |-> q[i].kind, agent |-> m.agent,
                                           time |-> q[i].time, tag |-> m.tag]]]
    BY <1>9 DEF ProcessRollback, m
  <2> HIDE DEF m
  <2> DEFINE sent == [i \in DOMAIN q |-> [kind |-> q[i].kind, agent |-> m.agent,
                                          time |-> q[i].time, tag |-> m.tag]]
  <2>3. antis' = [antis EXCEPT ![r] = @ \o sent] /\ sent = sent
    BY <2>2
  <2>4. ASSUME NEW x \in Ranks, NEW d \in ToSet(antis'[x])
        PROVE  \/ d \in ToSet(antis[x])
               \/ /\ x = r /\ d.agent = m.agent /\ d.time \in Nat /\ d.time >= m.time
                  /\ d.kind = "write" => d.time > m.time
    <3>1. \/ d \in ToSet(antis[x])
          \/ /\ x = r /\ d.agent = m.agent
             /\ \E e \in Undone(m) : d.kind = e.kind /\ d.time = e.time
      BY SMTT(30), <1>1, <1>4, <2>3, <2>4, AntisSent
    <3>2. ASSUME NEW e \in Undone(m), d.kind = e.kind, d.time = e.time
          PROVE  /\ d.time \in Nat /\ d.time >= m.time
                 /\ d.kind = "write" => d.time > m.time
      BY <1>6, <3>2 DEF Undone
    <3> QED
      BY <3>1, <3>2
  <2> HIDE DEF sent
  <2>5. Addressed'
    BY <1>1, <1>4, <1>5, <2>4 DEF Addressed
  <2>6. ASSUME BoundHolds PROVE BoundHolds'
    <3>1. /\ NothingBeforeGvt /\ RetractedIsAhead /\ ReadsAreBehind
          /\ running /\ writePeriods # << >> /\ writePeriods[1].start <= fGVT
      BY <2>6 DEF BoundHolds
    <3>2. fGVT <= m.time
      BY <1>4, <3>1 DEF NothingBeforeGvt
    <3>3. \A a \in Agent : /\ agentLvt'[a] <= agentLvt[a]
                           /\ agentLvt'[a] \in Nat /\ agentLvt[a] \in Nat
                           /\ a # m.agent => agentLvt'[a] = agentLvt[a]
                           /\ a = m.agent => agentLvt'[a] = m.time
      <4>1. ASSUME NEW a \in Agent, a = m.agent
            PROVE  /\ agentLvt'[a] = m.time /\ m.time \in Nat
                   /\ agentLvt[a] \in Nat /\ agentLvt'[a] <= agentLvt[a]
        <5>1. m.time \in Nat /\ agentLvt[a] \in Nat
          BY <1>6
        <5>2. m.time < agentLvt[a]
          BY <2>1, <4>1
        <5>3. agentLvt \in [Agent -> GvtTime] /\ a \in Agent
          BY <1>6
        <5>4. agentLvt'[a] = m.time
          BY <2>1, <4>1, <5>3
        <5> QED
          BY <5>1, <5>2, <5>4
      <4>2. ASSUME NEW a \in Agent, a # m.agent
            PROVE  agentLvt'[a] = agentLvt[a] /\ agentLvt[a] \in Nat
        BY <1>6, <2>1, <4>2
      <4> QED
        BY <4>1, <4>2
    <3>4. NothingBeforeGvt'
      <4>1. \A a \in Agent : fGVT' <= agentLvt'[a]
        BY <1>3, <3>1, <3>2, <3>3 DEF NothingBeforeGvt
      <4>2. \A x \in Ranks : \A d \in ToSet(rollbacks'[x]) : fGVT' <= d.time
        BY <1>3, <1>5, <3>1 DEF NothingBeforeGvt
      <4>3. \A x \in Ranks : \A d \in ToSet(antis'[x]) : fGVT' <= d.time
        BY <1>3, <1>6, <2>4, <3>1, <3>2 DEF NothingBeforeGvt
      <4> QED
        BY <4>1, <4>2, <4>3 DEF NothingBeforeGvt
    <3>5. RetractedIsAhead'
      <4> SUFFICES ASSUME NEW x \in Ranks, NEW d \in ToSet(antis'[x])
                   PROVE  /\ agentLvt'[d.agent] <= d.time
                          /\ d.kind = "write" => agentLvt'[d.agent] < d.time
        BY DEF RetractedIsAhead
      <4>1. CASE d \in ToSet(antis[x])
        <5>1. /\ agentLvt[d.agent] <= d.time
              /\ d.kind = "write" => agentLvt[d.agent] < d.time
          BY <3>1, <4>1 DEF RetractedIsAhead
        <5> QED
          BY <1>6, <3>3, <4>1, <5>1
      <4>2. CASE /\ d.agent = m.agent /\ d.time \in Nat /\ d.time >= m.time
                 /\ d.kind = "write" => d.time > m.time
        BY <1>6, <3>3, <4>2
      <4> QED
        BY <2>4, <4>1, <4>2
    <3>6. ReadsAreBehind'
      <4> SUFFICES ASSUME NEW e \in sendList', e.kind = "read"
                   PROVE  e.time < agentLvt'[e.agent]
        BY DEF ReadsAreBehind
      <4>1. e \in sendList /\ e \notin Undone(m)
        BY <2>1
      <4>2. e.time < agentLvt[e.agent]
        BY <3>1, <4>1 DEF ReadsAreBehind
      <4>3. CASE e.agent = m.agent
        <5>1. ~ (e.time >= m.time)
          BY <4>1, <4>3 DEF Undone
        <5> QED
          BY <1>6, <3>3, <4>1, <4>3, <5>1
      <4>4. CASE e.agent # m.agent
        BY <1>6, <3>3, <4>1, <4>2, <4>4
      <4> QED
        BY <4>3, <4>4
    <3> QED
      BY <1>3, <3>1, <3>4, <3>5, <3>6 DEF BoundHolds
  <2> QED
    BY <1>1, <1>3, <2>5, <2>6 DEF GvtInv
<1> QED
  BY <1>7, <1>8, <1>9

\* A new GVT.  A write's anti-message is later than its agent's LVT, which is
\* not before the new GVT.
LEMMA SetGvtKeepsGvtInv ==
    ASSUME IInv, GvtInv, NEW gvt \in GvtTime, SetGvt(gvt)
    PROVE  GvtInv'
<1>1. /\ TypeOK /\ WellFormed(writePeriods) /\ Addressed
      /\ writePeriods \in Seq(WritePeriod)
      /\ gvtSafe => BoundHolds
  BY DEF IInv, GvtInv, WellFormed
<1>2. /\ running /\ gvt > fGVT /\ fGVT' = gvt
      /\ gvtSafe' => gvtSafe /\ Promised(gvt)
      /\ sendList' = {e \in sendList : e.time >= gvt}
      /\ UNCHANGED <<running, agentLvt, rollbacks, antis>>
  BY DEF SetGvt
<1>3. Addressed'
  BY <1>1, <1>2 DEF Addressed
<1>4. ASSUME BoundHolds, Promised(gvt) PROVE BoundHolds'
  <2>1. /\ RetractedIsAhead /\ ReadsAreBehind
        /\ writePeriods # << >> /\ writePeriods[1].start <= fGVT
    BY <1>4 DEF BoundHolds
  <2>2. NothingBeforeGvt'
    BY <1>2, <1>4
    DEF Promised, NothingBeforeGvt, RollbacksInFlight, AntisInFlight
  <2>3. RetractedIsAhead' /\ ReadsAreBehind'
    BY <1>2, <2>1 DEF RetractedIsAhead, ReadsAreBehind
  <2>4. writePeriods' # << >> /\ writePeriods'[1].start <= fGVT'
    <3>1. 1 \in 1..Len(writePeriods) /\ writePeriods[1].start \in Nat
      BY <1>1, <2>1, PeriodFields
    <3>2. ~ FallsOff(writePeriods, gvt)
      BY <1>1, <1>2, <2>1, <3>1, ConstantsAssumption, MaxTimeAssumption
      DEF FallsOff, TypeOK, GvtTime
    <3>3. PICK n \in Nat : n = Len(writePeriods)
      BY <1>1
    <3>4. PICK k \in 1..n : \E first \in 1..n :
            /\ FirstStartingAt(Collected(writePeriods, k, gvt), gvt, first)
            /\ writePeriods' = SubSeq(Collected(writePeriods, k, gvt), first, n)
      BY <3>2, <3>3 DEF SetGvt
    <3>5. PICK first \in 1..n :
            /\ FirstStartingAt(Collected(writePeriods, k, gvt), gvt, first)
            /\ writePeriods' = SubSeq(Collected(writePeriods, k, gvt), first, n)
      BY <3>4
    <3>6. IsCollected(writePeriods', writePeriods, n, k, first,
                      StartingAt(writePeriods, k, gvt))
      BY <1>1, <3>3, <3>5, CollectedElements
    <3>7. writePeriods' # << >> /\ 1 \in 1..(n - first + 1) /\ first + 1 - 1 = first
      BY <3>6 DEF IsCollected
    <3>8. writePeriods'[1] = IF first = k THEN StartingAt(writePeriods, k, gvt)
                                          ELSE writePeriods[first]
      BY <3>6, <3>7 DEF IsCollected
    <3>9. writePeriods'[1].start = gvt
      <4>1. CASE first = k
        <5>1. writePeriods[k] \in WritePeriod
          BY <1>1, <3>3, PeriodFields
        <5> QED
          BY <3>8, <4>1, <5>1 DEF StartingAt, WritePeriod
      <4>2. CASE first # k
        <5>1. Collected(writePeriods, k, gvt)[first].start = gvt
          BY <3>5 DEF FirstStartingAt
        <5>2. Collected(writePeriods, k, gvt)[first] = writePeriods[first]
          BY <1>1, <3>3, <4>2 DEF Collected
        <5> QED
          BY <3>8, <4>2, <5>1, <5>2
      <4> QED
        BY <4>1, <4>2
    <3> QED
      BY <1>2, <3>7, <3>9, ConstantsAssumption, MaxTimeAssumption DEF GvtTime
  <2> QED
    BY <1>2, <2>2, <2>3, <2>4 DEF BoundHolds
<1> QED
  BY <1>1, <1>2, <1>3, <1>4 DEF GvtInv

\* Every step keeps the bound.
LEMMA NextKeepsGvtInv == IInv /\ GvtInv /\ [Next]_vars => GvtInv'
<1> SUFFICES ASSUME IInv, GvtInv, [Next]_vars PROVE GvtInv'
  OBVIOUS
<1>1. CASE UNCHANGED vars
  BY <1>1 DEF vars, GvtInv, Addressed, BoundHolds, NothingBeforeGvt,
              RetractedIsAhead, ReadsAreBehind
<1>2. ASSUME NEW a \in Agent, NEW t \in Time,
             \/ SingleRead(a, t) \/ SingleReadExits(a, t) \/ WriteFails(a, t)
             \/ \E v \in Value : WriteSucceeds(a, t, v)
      PROVE  GvtInv'
  BY <1>2, RequestKeepsGvtInv
<1>3. ASSUME NEW r \in Ranks,
             \/ AntiBeforeGvt(r) \/ SingleReadAnti(r)
             \/ WriteAnti(r) \/ WriteAntiWithoutEffect(r)
      PROVE  GvtInv'
  BY <1>3, AntiMessageKeepsGvtInv
<1>4. ASSUME NEW r \in Ranks,
             \/ ProcessRollback(r) \/ RollbackBeforeGvt(r)
             \/ RollbackNotNeeded(r) \/ RollbackIgnoredForTag(r)
      PROVE  GvtInv'
  BY <1>4, RollbackKeepsGvtInv
<1>5. ASSUME NEW gvt \in GvtTime, SetGvt(gvt) PROVE GvtInv'
  BY <1>5, SetGvtKeepsGvtInv
<1> QED
  BY <1>1, <1>2, <1>3, <1>4, <1>5 DEF Next

LEMMA SpecGvtInv == Spec => []GvtInv
  BY InitGvtInv, NextKeepsGvtInv, SpecIInv, PTL DEF Spec

\* As long as every GVT was a bound on what was in flight, the history reaches
\* back to GVT: the exit(1) of StateVariable::Read and the unchecked walk of
\* PerformReadRollback are out of reach.
THEOREM HistoryAlwaysReachesGvt == Spec => []HistoryReachesGvt
<1>1. GvtInv => HistoryReachesGvt
  BY DEF GvtInv, BoundHolds, HistoryReachesGvt
<1> QED
  BY <1>1, SpecGvtInv, PTL

-----------------------------------------------------------------------------
(***************************************************************************)
(* Fossil collection is invisible.                                         *)
(***************************************************************************)
\* Where the walk back stops, for a time that is not before GVT: at the same
\* period as before, which is first - 1 places further ahead now.
LEMMA CollectedStops ==
    ASSUME NEW p, WellFormed(p), NEW n \in Nat, n = Len(p), NEW gvt \in Nat,
           NEW k \in 1..n, StopsAt(p, gvt, k),
           NEW first \in 1..n, NEW q, NEW at, at.start = gvt,
           IsCollected(q, p, n, k, first, at),
           NEW t \in Nat, t >= gvt
    PROVE  /\ \A j \in 1..n : StopsAt(p, t, j) =>
                /\ j >= k /\ j - first + 1 \in 1..(n - first + 1)
                /\ StopsAt(q, t, j - first + 1)
           /\ \A h \in 1..(n - first + 1) : StopsAt(q, t, h) =>
                first + h - 1 \in 1..n /\ StopsAt(p, t, first + h - 1)
<1>1. /\ first <= k /\ Len(q) = n - first + 1
      /\ \A i \in 1..(n - first + 1) :
           q[i] = IF first + i - 1 = k THEN at ELSE p[first + i - 1]
  BY DEF IsCollected
<1>2. /\ \A i \in 1..n : p[i].start \in Nat
      /\ p[k].start <= gvt
      /\ \A i \in (k + 1)..n : p[i].start > gvt
  BY PeriodFields DEF WellFormed, StopsAt
<1>3. ASSUME NEW j \in 1..n, StopsAt(p, t, j)
      PROVE  /\ j >= k /\ j - first + 1 \in 1..(n - first + 1)
             /\ StopsAt(q, t, j - first + 1)
  <2>1. p[j].start <= t /\ \A i \in (j + 1)..n : p[i].start > t
    BY <1>3 DEF StopsAt
  <2>2. j >= k
    <3>1. CASE j < k
      <4>1. k \in (j + 1)..n
        BY <3>1
      <4> QED
        BY <1>2, <2>1, <4>1
    <3> QED
      BY <3>1
  <2>3. PICK h \in 1..(n - first + 1) : h = j - first + 1
    BY <1>1, <2>2
  <2>4. first + h - 1 = j
    BY <2>3
  <2>5. q[h].start <= t
    BY <1>1, <2>1, <2>4
  <2>6. ASSUME NEW i \in (h + 1)..(n - first + 1) PROVE q[i].start > t
    <3>1. /\ first + i - 1 \in (j + 1)..n /\ first + i - 1 # k
          /\ i \in 1..(n - first + 1)
      BY <2>2, <2>4
    <3> QED
      BY <1>1, <2>1, <3>1
  <2> QED
    BY <1>1, <2>2, <2>3, <2>5, <2>6 DEF StopsAt
<1>4. ASSUME NEW h \in 1..(n - first + 1), StopsAt(q, t, h)
      PROVE  first + h - 1 \in 1..n /\ StopsAt(p, t, first + h - 1)
  <2>1. q[h].start <= t /\ \A i \in (h + 1)..(n - first + 1) : q[i].start > t
    BY <1>1, <1>4 DEF StopsAt
  <2>2. PICK j \in 1..n : j = first + h - 1
    OBVIOUS
  <2>3. j >= k
    <3>1. CASE j < k
      <4>1. PICK i \in (h + 1)..(n - first + 1) : first + i - 1 = k
        <5>1. k - first + 1 \in (h + 1)..(n - first + 1) /\ first + (k - first + 1) - 1 = k
          BY <2>2, <3>1
        <5> QED
          BY <5>1
      <4>2. q[i].start = gvt
        BY <1>1, <4>1
      <4>3. q[i].start > t
        BY <2>1, <4>1
      <4> QED
        BY <4>2, <4>3
    <3> QED
      BY <3>1
  <2>4. p[j].start <= t
    <3>1. CASE j = k
      BY <1>2, <3>1
    <3>2. CASE j # k
      BY <1>1, <2>1, <2>2, <3>2
    <3> QED
      BY <3>1, <3>2
  <2>5. ASSUME NEW i \in (j + 1)..n PROVE p[i].start > t
    <3>1. PICK l \in (h + 1)..(n - first + 1) : first + l - 1 = i
      <4>1. i - first + 1 \in (h + 1)..(n - first + 1) /\ first + (i - first + 1) - 1 = i
        BY <2>2
      <4> QED
        BY <4>1
    <3>2. i # k /\ l \in 1..(n - first + 1)
      BY <2>3
    <3>3. q[l] = p[i]
      BY <1>1, <3>1, <3>2
    <3> QED
      BY <2>1, <3>1, <3>3
  <2> QED
    BY <2>2, <2>4, <2>5 DEF StopsAt
<1> QED
  BY <1>3, <1>4

\* What RemoveWritePeriods makes of the list.
LEMMA CollectedList ==
    ASSUME IInv, NEW gvt \in GvtTime, SetGvt(gvt)
    PROVE  \/ writePeriods' = writePeriods
           \/ \E n \in Nat : /\ n = Len(writePeriods)
                             /\ \E k \in 1..n :
                                  /\ StopsAt(writePeriods, gvt, k)
                                  /\ \E first \in 1..n :
                                       IsCollected(writePeriods', writePeriods, n, k,
                                         first, StartingAt(writePeriods, k, gvt))
<1>1. WellFormed(writePeriods) /\ writePeriods \in Seq(WritePeriod)
  BY DEF IInv, WellFormed
<1>2. PICK n \in Nat : n = Len(writePeriods)
  BY <1>1
<1>3. \/ writePeriods' = writePeriods
      \/ \E k \in 1..n :
           /\ StopsAt(writePeriods, gvt, k)
           /\ \E first \in 1..n :
                /\ FirstStartingAt(Collected(writePeriods, k, gvt), gvt, first)
                /\ writePeriods' = SubSeq(Collected(writePeriods, k, gvt), first, n)
  BY <1>2 DEF SetGvt
<1>4. ASSUME NEW k \in 1..n, NEW first \in 1..n,
             FirstStartingAt(Collected(writePeriods, k, gvt), gvt, first),
             writePeriods' = SubSeq(Collected(writePeriods, k, gvt), first, n)
      PROVE  IsCollected(writePeriods', writePeriods, n, k, first,
                         StartingAt(writePeriods, k, gvt))
  BY <1>1, <1>2, <1>4, CollectedElements
<1> QED
  BY <1>2, <1>3, <1>4

\* A period that starts at GVT keeps its value, and its reads from GVT on.
LEMMA StartingAtFields ==
    ASSUME NEW p \in Seq(WritePeriod), NEW k \in 1..Len(p), NEW gvt
    PROVE  /\ StartingAt(p, k, gvt).start = gvt
           /\ StartingAt(p, k, gvt).value = p[k].value
           /\ StartingAt(p, k, gvt).reads = {r \in p[k].reads : r.time >= gvt}
  BY PeriodFields DEF StartingAt, WritePeriod

\* A new GVT changes the value of no time that can still be read
\* (StateVariable.cpp:38-80), whether or not it is a safe one.
THEOREM CollectionInvisible == Spec => FossilCollectionIsInvisible
<1>1. ASSUME IInv, Next, fGVT' # fGVT,
             NEW t \in fGVT'..MaxTime, NEW v \in Value
      PROVE  /\ InForce(t, v) => InForce(t, v)'
             /\ InForce(t, v)' => InForce(t, v)
  <2>1. PICK gvt \in GvtTime : SetGvt(gvt)
    BY ZenonT(30), <1>1 DEF Next, SingleRead, SingleReadExits, WriteFails, WriteSucceeds,
       AntiBeforeGvt, SingleReadAnti, WriteAnti, WriteAntiWithoutEffect,
       ProcessRollback, RollbackBeforeGvt, RollbackNotNeeded, RollbackIgnoredForTag
  <2>2. fGVT' = gvt /\ gvt \in Nat /\ t \in Nat /\ t >= gvt
    <3>1. fGVT' = gvt
      BY <2>1 DEF SetGvt
    <3> QED
      BY <3>1, ConstantsAssumption, MaxTimeAssumption DEF GvtTime
  <2>3. CASE writePeriods' = writePeriods
    BY <2>3 DEF InForce
  <2>4. ASSUME NEW n \in Nat, n = Len(writePeriods), NEW k \in 1..n,
               StopsAt(writePeriods, gvt, k), NEW first \in 1..n,
               IsCollected(writePeriods', writePeriods, n, k, first,
                           StartingAt(writePeriods, k, gvt))
        PROVE  /\ InForce(t, v) => InForce(t, v)'
               /\ InForce(t, v)' => InForce(t, v)
    <3> DEFINE at == StartingAt(writePeriods, k, gvt)
    <3>1. WellFormed(writePeriods) /\ writePeriods \in Seq(WritePeriod)
      BY <1>1 DEF IInv, WellFormed
    <3>2. at.start = gvt /\ at.value = writePeriods[k].value
      BY <2>4, <3>1, StartingAtFields
    <3>3. IsCollected(writePeriods', writePeriods, n, k, first, at)
      BY <2>4
    <3> HIDE DEF at
    <3>4. /\ Len(writePeriods') = n - first + 1
          /\ \A i \in 1..(n - first + 1) :
               writePeriods'[i] = IF first + i - 1 = k THEN at
                                                       ELSE writePeriods[first + i - 1]
      BY <3>3 DEF IsCollected
    <3>5. /\ \A j \in 1..n : StopsAt(writePeriods, t, j) =>
               /\ j >= k /\ j - first + 1 \in 1..(n - first + 1)
               /\ StopsAt(writePeriods', t, j - first + 1)
          /\ \A h \in 1..(n - first + 1) : StopsAt(writePeriods', t, h) =>
               first + h - 1 \in 1..n /\ StopsAt(writePeriods, t, first + h - 1)
      BY <2>2, <2>4, <3>1, <3>2, <3>3, CollectedStops
    <3>6. \A i \in 1..(n - first + 1) :
            writePeriods'[i].value = writePeriods[first + i - 1].value
      BY <3>2, <3>4
    <3>7. ASSUME InForce(t, v) PROVE InForce(t, v)'
      <4>1. PICK j \in 1..n : StopsAt(writePeriods, t, j) /\ writePeriods[j].value = v
        BY <2>4, <3>7 DEF InForce
      <4>2. PICK h \in 1..(n - first + 1) : h = j - first + 1
        BY <3>5, <4>1
      <4>3. first + h - 1 = j
        BY <4>2
      <4>4. StopsAt(writePeriods', t, h)
        BY <3>5, <4>1, <4>2
      <4>5. writePeriods'[h].value = v
        BY <3>6, <4>1, <4>3
      <4> QED
        BY <3>4, <4>4, <4>5 DEF InForce
    <3>8. ASSUME InForce(t, v)' PROVE InForce(t, v)
      <4>1. PICK h \in 1..(n - first + 1) :
              StopsAt(writePeriods', t, h) /\ writePeriods'[h].value = v
        BY <3>4, <3>8 DEF InForce
      <4>2. first + h - 1 \in 1..n /\ StopsAt(writePeriods, t, first + h - 1)
        BY <3>5, <4>1
      <4>3. writePeriods[first + h - 1].value = v
        BY <3>6, <4>1
      <4> QED
        BY <2>4, <4>2, <4>3 DEF InForce
    <3> QED
      BY <3>7, <3>8
  <2> QED
    BY <1>1, <2>1, <2>3, <2>4, CollectedList
<1>2. ASSUME IInv, [Next]_vars
      PROVE  [fGVT' # fGVT =>
                \A t \in fGVT'..MaxTime, v \in Value : InForce(t, v) <=> InForce(t, v)']_vars
  BY <1>1, <1>2
<1> QED
  BY <1>2, SpecIInv, PTL DEF Spec, FossilCollectionIsInvisible

-----------------------------------------------------------------------------
(***************************************************************************)
(* Every read can be traced: it is recorded in the period in force at its  *)
(* time, with the value it returned, or its agent has been sent a rollback *)
(* that reaches back to it.                                                *)
(***************************************************************************)
\* The RollbackList keeps one entry for agents that are one key: those of one
\* ALP.  With one agent per ALP every reader has an entry of its own.
OneAgentPerRank == \A a, b \in Agent : a.rank = b.rank => a = b

ReadOf(e) == [agent |-> e.agent, time |-> e.time]

Holds(p, e) ==
    \E k \in 1..Len(p) :
      /\ StopsAt(p, e.time, k)
      /\ p[k].value = e.value
      /\ ReadOf(e) \in p[k].reads

Waiting(e) ==
    \E r \in Ranks : \E m \in ToSet(rollbacks[r]) :
      m.agent = e.agent /\ m.time <= e.time

Dropped(e) == \E m \in ignored : m.agent = e.agent /\ m.time <= e.time

Traced(e) == Holds(writePeriods, e) \/ Waiting(e) \/ Dropped(e)

ReadsAreTraced ==
    \A e \in sendList : e.kind = "read" /\ e.time >= fGVT => Traced(e)

TraceInv == gvtSafe => ReadsAreTraced

\* A list that differs from another one in reads only, and has this one too.
LEMMA SameHolds ==
    ASSUME NEW p, NEW q, NEW n \in Nat, Len(p) = n, Len(q) = n,
           \A i \in 1..n : q[i].start = p[i].start /\ q[i].value = p[i].value,
           NEW e, \A i \in 1..n : ReadOf(e) \in p[i].reads => ReadOf(e) \in q[i].reads,
           Holds(p, e)
    PROVE  Holds(q, e)
<1>1. PICK k \in 1..n : /\ StopsAt(p, e.time, k) /\ p[k].value = e.value
                        /\ ReadOf(e) \in p[k].reads
  BY DEF Holds
<1>2. StopsAt(q, e.time, k)
  BY <1>1 DEF StopsAt
<1> QED
  BY <1>1, <1>2 DEF Holds

LEMMA WithReadHolds ==
    ASSUME NEW p, WellFormed(p), NEW k \in 1..Len(p), NEW a, NEW t
    PROVE  /\ \A e : Holds(p, e) => Holds(WithRead(p, k, a, t), e)
           /\ \A e : /\ StopsAt(p, t, k) /\ e.agent = a /\ e.time = t
                     /\ e.value = p[k].value
                     => Holds(WithRead(p, k, a, t), e)
<1> DEFINE q == WithRead(p, k, a, t)
<1>1. PICK n \in Nat : n = Len(p) /\ p \in Seq(WritePeriod)
  BY LenProperties DEF WellFormed
<1>2. /\ Len(q) = n
      /\ \A i \in 1..n : q[i].start = p[i].start /\ q[i].value = p[i].value
      /\ \A i \in 1..n : p[i].reads \subseteq q[i].reads
      /\ [agent |-> a, time |-> t] \in q[k].reads
  BY <1>1, PeriodFields DEF WithRead, WritePeriod
<1> HIDE DEF q
<1>3. ASSUME NEW e, Holds(p, e) PROVE Holds(q, e)
  BY <1>1, <1>2, <1>3, SameHolds
<1>4. ASSUME NEW e, StopsAt(p, t, k), e.agent = a, e.time = t, e.value = p[k].value
      PROVE  Holds(q, e)
  <2>1. StopsAt(q, t, k)
    BY <1>1, <1>2, <1>4 DEF StopsAt
  <2>2. k \in 1..Len(q) /\ q[k].value = e.value
    BY <1>1, <1>2, <1>4
  <2>3. ReadOf(e) \in q[k].reads
    BY <1>2, <1>4 DEF ReadOf
  <2> QED
    BY <1>4, <2>1, <2>2, <2>3 DEF Holds
<1> QED
  BY <1>3, <1>4 DEF q

LEMMA WithoutReadHolds ==
    ASSUME NEW p, WellFormed(p), NEW k \in 1..Len(p), NEW a, NEW t,
           NEW e, Holds(p, e), e.agent # a \/ e.time # t
    PROVE  Holds(WithoutRead(p, k, a, t), e)
<1> DEFINE q == WithoutRead(p, k, a, t)
<1>1. PICK n \in Nat : n = Len(p) /\ p \in Seq(WritePeriod)
  BY LenProperties DEF WellFormed
<1>2. /\ Len(q) = n
      /\ \A i \in 1..n : q[i].start = p[i].start /\ q[i].value = p[i].value
      /\ \A i \in 1..n : p[i].reads \ {[agent |-> a, time |-> t]} \subseteq q[i].reads
  BY <1>1, PeriodFields DEF WithoutRead, WritePeriod
<1>3. ReadOf(e) # [agent |-> a, time |-> t]
  BY DEF ReadOf
<1> HIDE DEF q
<1>4. \A i \in 1..n : ReadOf(e) \in p[i].reads => ReadOf(e) \in q[i].reads
  BY <1>2, <1>3
<1>5. Holds(q, e)
  BY <1>1, <1>2, <1>4, SameHolds
<1> QED
  BY <1>5 DEF q

\* A straggler write leaves a read where it was, or takes it out for a rollback.
LEMMA WithWriteHolds ==
    ASSUME NEW p, WellFormed(p), NEW new \in WritePeriod, NEW k \in 1..Len(p),
           StopsAt(p, new.start, k), NEW e, e.time \in Nat, Holds(p, e),
           ReadOf(e) \notin ReadsAfterInclusive(p[k], new.start)
    PROVE  Holds(WithWrite(p, k, new), e)
<1> DEFINE q == WithWrite(p, k, new)
           c == CutShort(p, k, new)
           d == Placed(p, k, new)
<1>1. PICK n \in Nat : n = Len(p) /\ p \in Seq(WritePeriod)
  BY LenProperties DEF WellFormed
<1>2. new.start \in Nat /\ \A i \in 1..n : p[i].start \in Nat
  <2>1. new.start \in Nat
    BY ConstantsAssumption, MaxTimeAssumption DEF WritePeriod, GvtTime
  <2>2. \A i \in 1..n : p[i].start \in Nat
    BY <1>1, PeriodFields
  <2> QED
    BY <2>1, <2>2
<1>3. IsWithWrite(q, p, n, k, c, d)
  BY <1>1, WithWriteElements
<1>4. /\ c.start = p[k].start /\ c.value = p[k].value
      /\ c.reads = p[k].reads \ ReadsAfterInclusive(p[k], new.start)
      /\ d.start = new.start
  BY <1>1, PeriodFields DEF CutShort, Placed, WritePeriod
<1> HIDE DEF q, c, d
<1>5. /\ Len(q) = n + 1
      /\ \A i \in 1..(k - 1) : q[i] = p[i]
      /\ q[k] = c /\ q[k + 1] = d
      /\ \A i \in (k + 1)..n : q[i + 1] = p[i]
  BY <1>3 DEF IsWithWrite
<1>6. \A i \in (k + 2)..(n + 1) : i - 1 \in (k + 1)..n /\ q[i] = p[i - 1]
  <2> SUFFICES ASSUME NEW i \in (k + 2)..(n + 1)
               PROVE  i - 1 \in (k + 1)..n /\ q[i] = p[i - 1]
    OBVIOUS
  <2>1. i - 1 \in (k + 1)..n /\ (i - 1) + 1 = i
    BY <1>1
  <2> QED
    BY <1>5, <2>1
<1>7. PICK j \in 1..n : /\ StopsAt(p, e.time, j) /\ p[j].value = e.value
                        /\ ReadOf(e) \in p[j].reads
  BY <1>1 DEF Holds
<1>8. /\ p[j].start <= e.time /\ \A i \in (j + 1)..n : p[i].start > e.time
      /\ p[k].start <= new.start /\ \A i \in (k + 1)..n : p[i].start > new.start
  BY <1>1, <1>7 DEF StopsAt
<1>9. \A i \in 1..(n + 1) : \/ i \in 1..(k - 1) \/ i = k
                            \/ i = k + 1 \/ i \in (k + 2)..(n + 1)
  BY <1>1
<1>10. ASSUME j <= k PROVE Holds(q, e)
  <2>1. new.start > e.time
    <3>1. CASE j = k
      <4>1. ~ (e.time >= new.start)
        BY <1>7, <3>1 DEF ReadsAfterInclusive, ReadOf
      <4> QED
        BY <1>2, <4>1
    <3>2. CASE j < k
      <4>1. k \in (j + 1)..n
        BY <1>1, <3>2
      <4> QED
        BY <1>1, <1>2, <1>8, <4>1
    <3> QED
      BY <1>10, <3>1, <3>2
  <2>2. /\ q[j].start = p[j].start /\ q[j].value = p[j].value
        /\ ReadOf(e) \in q[j].reads
    <3>1. CASE j = k
      BY <1>4, <1>5, <1>7, <3>1
    <3>2. CASE j < k
      <4>1. j \in 1..(k - 1)
        BY <3>2
      <4> QED
        BY <1>5, <1>7, <4>1
    <3> QED
      BY <1>10, <3>1, <3>2
  <2>3. ASSUME NEW i \in (j + 1)..(n + 1) PROVE q[i].start > e.time
    <3>1. CASE i \in 1..(k - 1)
      <4>1. i \in (j + 1)..n
        BY <1>1, <3>1
      <4> QED
        BY <1>5, <1>8, <3>1, <4>1
    <3>2. CASE i = k
      <4>1. k \in (j + 1)..n
        BY <1>1, <3>2
      <4> QED
        BY <1>4, <1>5, <1>8, <3>2, <4>1
    <3>3. CASE i = k + 1
      BY <1>4, <1>5, <2>1, <3>3
    <3>4. CASE i \in (k + 2)..(n + 1)
      <4>1. i - 1 \in (j + 1)..n
        BY <1>6, <1>10, <3>4
      <4> QED
        BY <1>6, <1>8, <3>4, <4>1
    <3> QED
      BY <1>9, <3>1, <3>2, <3>3, <3>4
  <2> QED
    BY <1>5, <1>7, <1>8, <2>2, <2>3 DEF Holds, StopsAt
<1>11. ASSUME j > k PROVE Holds(q, e)
  <2>1. /\ j \in (k + 1)..n /\ j + 1 \in 1..(n + 1)
        /\ q[j + 1] = p[j]
    BY <1>5, <1>11
  <2>2. ASSUME NEW i \in ((j + 1) + 1)..(n + 1) PROVE q[i].start > e.time
    <3>1. i \in (k + 2)..(n + 1) /\ i - 1 \in (j + 1)..n
      BY <1>11
    <3> QED
      BY <1>6, <1>8, <3>1
  <2> QED
    BY <1>5, <1>7, <1>8, <2>1, <2>2 DEF Holds, StopsAt
<1>12. Holds(q, e)
  BY <1>1, <1>10, <1>11
<1> QED
  BY <1>12 DEF q

\* A retraction leaves a read where it was, if it was not of the write erased.
LEMMA WithoutWriteHolds ==
    ASSUME NEW p, WellFormed(p), NEW k \in 1..Len(p),
           NEW e, e.time \in Nat, Holds(p, e), ReadOf(e) \notin p[k].reads
    PROVE  Holds(WithoutWrite(p, k), e)
<1> DEFINE q == WithoutWrite(p, k)
           b == TakingOver(p, k)
<1>1. PICK n \in Nat : n = Len(p) /\ p \in Seq(WritePeriod)
  BY LenProperties DEF WellFormed
<1>2. IsWithoutWrite(q, p, n, k, b)
  BY <1>1, WithoutWriteElements
<1>3. k > 1 => /\ b.start = p[k - 1].start /\ b.value = p[k - 1].value
               /\ b.reads = p[k - 1].reads
  <2> SUFFICES ASSUME k > 1
               PROVE  /\ b.start = p[k - 1].start /\ b.value = p[k - 1].value
                      /\ b.reads = p[k - 1].reads
    OBVIOUS
  <2>1. k - 1 \in 1..Len(p)
    BY <1>1
  <2>2. p[k - 1] \in WritePeriod
    BY <1>1, <2>1, PeriodFields
  <2> QED
    BY <2>2 DEF TakingOver, WritePeriod
<1> HIDE DEF q, b
<1>4. /\ Len(q) = n - 1
      /\ \A i \in 1..(n - 1) : i < k => /\ q[i].start = p[i].start
                                        /\ q[i].value = p[i].value
                                        /\ q[i].reads = p[i].reads
      /\ \A i \in 1..(n - 1) : i >= k => q[i] = p[i + 1]
  <2>1. ASSUME NEW i \in 1..(n - 1), i < k
        PROVE  /\ q[i].start = p[i].start /\ q[i].value = p[i].value
               /\ q[i].reads = p[i].reads
    <3>1. CASE i = k - 1
      BY <1>1, <1>2, <1>3, <3>1 DEF IsWithoutWrite
    <3>2. CASE i < k - 1
      BY <1>2, <3>2 DEF IsWithoutWrite
    <3> QED
      BY <1>1, <2>1, <3>1, <3>2
  <2> QED
    BY <1>2, <2>1 DEF IsWithoutWrite
<1>5. PICK j \in 1..n : /\ StopsAt(p, e.time, j) /\ p[j].value = e.value
                        /\ ReadOf(e) \in p[j].reads
  BY <1>1 DEF Holds
<1>6. /\ j # k /\ p[j].start <= e.time
      /\ \A i \in (j + 1)..n : p[i].start > e.time
  BY <1>1, <1>5 DEF StopsAt
<1>7. ASSUME j < k PROVE Holds(q, e)
  <2>1. j \in 1..(n - 1)
    BY <1>1, <1>7
  <2>2. ASSUME NEW i \in (j + 1)..(n - 1) PROVE q[i].start > e.time
    <3>1. i \in 1..(n - 1) /\ i \in (j + 1)..n /\ i + 1 \in (j + 1)..n
      BY <1>1
    <3>2. CASE i < k
      BY <1>4, <1>6, <3>1, <3>2
    <3>3. CASE i >= k
      BY <1>4, <1>6, <3>1, <3>3
    <3> QED
      BY <1>1, <3>1, <3>2, <3>3
  <2> QED
    BY <1>4, <1>5, <1>6, <1>7, <2>1, <2>2 DEF Holds, StopsAt
<1>8. ASSUME j > k PROVE Holds(q, e)
  <2>1. PICK h \in 1..(n - 1) : h + 1 = j /\ h >= k
    <3>1. j - 1 \in 1..(n - 1) /\ (j - 1) + 1 = j /\ j - 1 >= k
      BY <1>1, <1>8
    <3> QED
      BY <3>1
  <2>2. q[h] = p[j]
    BY <1>4, <2>1
  <2>3. ASSUME NEW i \in (h + 1)..(n - 1) PROVE q[i].start > e.time
    <3>1. i \in 1..(n - 1) /\ i >= k /\ i + 1 \in (j + 1)..n
      BY <1>1, <2>1
    <3> QED
      BY <1>4, <1>6, <3>1
  <2> QED
    BY <1>4, <1>5, <1>6, <2>2, <2>3 DEF Holds, StopsAt
<1>9. Holds(q, e)
  BY <1>1, <1>6, <1>7, <1>8
<1> QED
  BY <1>9 DEF q

\* Fossil collection leaves a read at GVT or later where it was.
LEMMA CollectedHolds ==
    ASSUME NEW p, WellFormed(p), NEW n \in Nat, n = Len(p), NEW gvt \in Nat,
           NEW k \in 1..n, StopsAt(p, gvt, k), NEW first \in 1..n, NEW q,
           IsCollected(q, p, n, k, first, StartingAt(p, k, gvt)),
           NEW e, e.time \in Nat, e.time >= gvt, Holds(p, e)
    PROVE  Holds(q, e)
<1> DEFINE at == StartingAt(p, k, gvt)
<1>1. p \in Seq(WritePeriod)
  BY DEF WellFormed
<1>2. /\ at.start = gvt /\ at.value = p[k].value
      /\ at.reads = {r \in p[k].reads : r.time >= gvt}
  BY <1>1, StartingAtFields
<1>3. IsCollected(q, p, n, k, first, at)
  OBVIOUS
<1> HIDE DEF at
<1>4. PICK j \in 1..n : /\ StopsAt(p, e.time, j) /\ p[j].value = e.value
                        /\ ReadOf(e) \in p[j].reads
  BY DEF Holds
<1>5. /\ j - first + 1 \in 1..(n - first + 1)
      /\ StopsAt(q, e.time, j - first + 1)
  BY <1>2, <1>3, <1>4, CollectedStops
<1>6. PICK h \in 1..(n - first + 1) : h = j - first + 1 /\ first + h - 1 = j
  BY <1>5
<1>7. /\ Len(q) = n - first + 1
      /\ q[h] = IF j = k THEN at ELSE p[j]
  BY <1>3, <1>6 DEF IsCollected
<1>8. ReadOf(e).time = e.time
  BY DEF ReadOf
<1>9. q[h].value = e.value /\ ReadOf(e) \in q[h].reads
  BY <1>2, <1>4, <1>7, <1>8
<1> QED
  BY <1>5, <1>6, <1>7, <1>9 DEF Holds

\* With one agent per ALP, each reader asked for is sent a rollback that
\* reaches back to its read.
LEMMA ReaderIsTold ==
    ASSUME OneAgentPerRank, TypeOK,
           NEW calls \in SUBSET ReadRecord, NEW key \in Keys(calls), NEW tag \in Tag,
           NEW c \in calls
    PROVE  \E r \in Ranks : \E m \in ToSet(WithRollbacksFor(calls, key, tag)[r]) :
             m.agent = c.agent /\ m.time <= c.time
<1> DEFINE r == c.agent.rank
           b == CHOOSE x \in key : x.rank = r
           new == [agent |-> b, tag |-> tag, time |-> EarliestFor(calls, b)]
<1>1. c.agent \in Agent /\ r \in Ranks
  BY DEF ReadRecord, Ranks
<1>2. key \subseteq Agent
  BY EarliestIsTime
<1>3. PICK a \in key : SameKey(a, c.agent)
  BY DEF Keys
<1>4. a.rank = r
  <2>1. a \in Agent
    BY <1>2
  <2>2. /\ a.id \in Nat /\ a.rank \in Nat
        /\ c.agent.id \in Nat /\ c.agent.rank \in Nat
    BY <1>1, <2>1, ConstantsAssumption
  <2>3. /\ a.rank < c.agent.rank => a.id < c.agent.id
        /\ c.agent.rank < a.rank => c.agent.id < a.id
    BY <1>1, <2>1, LpIdConvention
  <2> QED
    BY <1>3, <2>2, <2>3 DEF SameKey, Greater
<1>5. b \in key /\ b.rank = r
  BY <1>4
<1>6. b = c.agent
  BY <1>1, <1>2, <1>5 DEF OneAgentPerRank
<1>7. /\ EarliestFor(calls, b) <= c.time /\ EarliestFor(calls, b) \in GvtTime
      /\ b \in Agent
  BY <1>5, <1>6, EarliestIsTime
<1>8. new \in RollbackMessage /\ new.agent = c.agent /\ new.time <= c.time
  BY <1>6, <1>7 DEF RollbackMessage
<1>9. WithRollbacksFor(calls, key, tag)[r] = Append(rollbacks[r], new)
  BY <1>1, <1>5 DEF WithRollbacksFor
<1> HIDE DEF new
<1>10. new \in ToSet(Append(rollbacks[r], new))
  BY <1>1, <1>8, ToSetOfAppend DEF TypeOK
<1> HIDE DEF r
<1> QED
  BY <1>1, <1>8, <1>9, <1>10

\* What is traced by a rollback stays so while rollbacks are added.
LEMMA StaysTold ==
    ASSUME NEW e,
           \A r \in Ranks : ToSet(rollbacks[r]) \subseteq ToSet(rollbacks'[r]),
           ignored' = ignored, Waiting(e) \/ Dropped(e)
    PROVE  Waiting(e)' \/ Dropped(e)'
  BY DEF Waiting, Dropped

\* A request: a write's new period leaves the reads before it in place and has
\* the agents of the others rolled back; the agent's own read is recorded.
LEMMA RequestKeepsTraces ==
    ASSUME OneAgentPerRank, IInv, BoundHolds, ReadsAreTraced,
           NEW a \in Agent, NEW t \in Time,
           \/ SingleRead(a, t) \/ SingleReadExits(a, t) \/ WriteFails(a, t)
           \/ \E v \in Value : WriteSucceeds(a, t, v)
    PROVE  ReadsAreTraced'
<1>1. /\ TypeOK /\ WellFormed(writePeriods)
      /\ writePeriods \in Seq(WritePeriod)
  BY DEF IInv, WellFormed
<1>2. UNCHANGED <<fGVT, ignored>>
  BY DEF SingleRead, SingleReadExits, WriteFails, WriteSucceeds
<1>3. \A e \in sendList : e.kind = "read" /\ e.time >= fGVT => Traced(e)
  BY DEF ReadsAreTraced
<1>4. CASE SingleReadExits(a, t)
  <2>1. UNCHANGED <<writePeriods, sendList, rollbacks>>
    BY <1>4 DEF SingleReadExits, agentVars
  <2> QED
    BY <1>2, <1>3, <2>1 DEF ReadsAreTraced, Traced, Holds, Waiting, Dropped
<1>5. CASE WriteFails(a, t)
  <2>1. UNCHANGED <<writePeriods, rollbacks>> /\ sendList' = sendList \cup {}
    BY <1>5 DEF WriteFails, Answered
  <2> QED
    BY <1>2, <1>3, <2>1 DEF ReadsAreTraced, Traced, Holds, Waiting, Dropped
<1>6. CASE SingleRead(a, t)
  <2> DEFINE ts == IF t < fGVT THEN fGVT ELSE t
  <2>1. PICK k \in 1..Len(writePeriods) :
          /\ StopsAt(writePeriods, ts, k)
          /\ writePeriods' = WithRead(writePeriods, k, a, ts)
          /\ Answered(a, t, {Sent("read", a, t, writePeriods[k].value)})
    BY <1>6 DEF SingleRead
  <2>2. MayRequest(a, t) /\ UNCHANGED rollbacks
    BY <1>6 DEF SingleRead
  <2>3. ts = t
    <3>1. fGVT <= agentLvt[a] /\ agentLvt[a] <= t
      BY <2>2 DEF BoundHolds, NothingBeforeGvt, MayRequest
    <3>2. fGVT \in Nat /\ agentLvt[a] \in Nat /\ t \in Nat
      BY <1>1, ConstantsAssumption, MaxTimeAssumption DEF TypeOK, Time, GvtTime
    <3> QED
      BY <3>1, <3>2
  <2> HIDE DEF ts
  <2>4. PICK new : /\ sendList' = sendList \cup {new}
                   /\ new = Sent("read", a, t, writePeriods[k].value)
    BY <2>1 DEF Answered
  <2>5. new.agent = a /\ new.time = t /\ new.value = writePeriods[k].value
    BY <2>4 DEF Sent
  <2>6. Holds(writePeriods', new)
    BY <1>1, <2>1, <2>3, <2>5, WithReadHolds
  <2>7. ASSUME NEW e, Traced(e) PROVE Traced(e)'
    <3>1. Holds(writePeriods, e) => Holds(writePeriods', e)
      BY <1>1, <2>1, WithReadHolds
    <3> QED
      BY <1>2, <2>2, <2>7, <3>1 DEF Traced, Waiting, Dropped
  <2>8. Traced(new)'
    BY <2>6 DEF Traced
  <2> QED
    BY <1>2, <1>3, <2>4, <2>7, <2>8 DEF ReadsAreTraced
<1>7. ASSUME NEW v \in Value, WriteSucceeds(a, t, v) PROVE ReadsAreTraced'
  <2> DEFINE new == [start |-> t, end |-> ULONG_MAX, value |-> v, agent |-> a,
                     reads |-> {}]
             tag == [time |-> t, stamp |-> stamp + 1]
             entry == Sent("write", a, t, v)
  <2>1. sendList' = sendList \cup {entry} /\ entry.kind = "write"
    BY <1>7 DEF WriteSucceeds, Answered, Sent
  <2>2. PICK k \in 1..Len(writePeriods) :
          /\ StopsAt(writePeriods, t, k)
          /\ writePeriods' = WithWrite(writePeriods, k, new)
          /\ \/ /\ ReadsAfterInclusive(writePeriods[k], t) = {}
                /\ rollbacks' = rollbacks
             \/ /\ stamp < MaxStamp
                /\ \E key \in Keys(ReadsAfterInclusive(writePeriods[k], t)) :
                     rollbacks' = WithRollbacksFor(
                                    ReadsAfterInclusive(writePeriods[k], t), key, tag)
    <3>1. writePeriods # << >>
      BY DEF BoundHolds
    <3> QED
      BY <1>7, <3>1 DEF WriteSucceeds
  <2>3. new \in WritePeriod /\ new.start = t
    <3>1. t \in GvtTime
      BY ConstantsAssumption, MaxTimeAssumption DEF Time, GvtTime
    <3> QED
      BY <3>1 DEF WritePeriod, LpIds
  <2> HIDE DEF new, entry
  <2> DEFINE calls == ReadsAfterInclusive(writePeriods[k], t)
  <2>4. calls \in SUBSET ReadRecord
    BY <1>1, PeriodFields DEF ReadsAfterInclusive
  <2>5. \/ calls = {} /\ rollbacks' = rollbacks
        \/ tag \in Tag /\ \E key \in Keys(calls) :
                            rollbacks' = WithRollbacksFor(calls, key, tag)
    BY <1>1, <2>2, ConstantsAssumption, MaxTimeAssumption DEF TypeOK, Tag
  <2> HIDE DEF calls, tag
  <2>6. \A r \in Ranks : ToSet(rollbacks[r]) \subseteq ToSet(rollbacks'[r])
    <3>1. ASSUME NEW key \in Keys(calls), tag \in Tag, NEW r \in Ranks
          PROVE  ToSet(rollbacks[r]) \subseteq ToSet(WithRollbacksFor(calls, key, tag)[r])
      BY <1>1, <2>4, <3>1, RollbacksSent
    <3> QED
      BY <2>5, <3>1
  <2>7. ASSUME NEW e \in sendList, Traced(e) PROVE Traced(e)'
    <3>1. e.time \in Nat
      BY <1>1, ConstantsAssumption, MaxTimeAssumption DEF TypeOK, SentMessage, Time
    <3>2. CASE Waiting(e) \/ Dropped(e)
      BY <1>2, <2>6, <3>2, StaysTold DEF Traced
    <3>3. CASE Holds(writePeriods, e) /\ ReadOf(e) \notin calls
      <4>1. ReadOf(e) \notin ReadsAfterInclusive(writePeriods[k], new.start)
        BY <2>3, <3>3 DEF calls
      <4>2. Holds(WithWrite(writePeriods, k, new), e)
        BY <1>1, <2>2, <2>3, <3>1, <3>3, <4>1, WithWriteHolds
      <4> QED
        BY <2>2, <4>2 DEF Traced
    <3>4. CASE ReadOf(e) \in calls
      <4>1. PICK key \in Keys(calls) : /\ tag \in Tag
                                       /\ rollbacks' = WithRollbacksFor(calls, key, tag)
        BY <2>5, <3>4
      <4>2. \E r \in Ranks : \E m \in ToSet(rollbacks'[r]) :
              m.agent = ReadOf(e).agent /\ m.time <= ReadOf(e).time
        BY <1>1, <2>4, <3>4, <4>1, ReaderIsTold
      <4> QED
        BY <4>2 DEF Traced, Waiting, ReadOf
    <3> QED
      BY <2>7, <3>2, <3>3, <3>4 DEF Traced
  <2> QED
    BY <1>2, <1>3, <2>1, <2>7 DEF ReadsAreTraced
<1> QED
  BY <1>4, <1>5, <1>6, <1>7

\* An anti-message: a read that is taken out is behind no agent's LVT, so it is
\* on no send list, and the readers of a write that is erased are rolled back.
LEMMA AntiMessageKeepsTraces ==
    ASSUME OneAgentPerRank, IInv, BoundHolds, ReadsAreTraced, NEW r \in Ranks,
           \/ AntiBeforeGvt(r) \/ SingleReadAnti(r)
           \/ WriteAnti(r) \/ WriteAntiWithoutEffect(r)
    PROVE  ReadsAreTraced'
<1> DEFINE m == Head(antis[r])
<1>1. /\ TypeOK /\ WellFormed(writePeriods)
      /\ writePeriods \in Seq(WritePeriod)
  BY DEF IInv, WellFormed
<1>2. UNCHANGED <<fGVT, ignored, sendList>> /\ antis[r] # << >>
  BY DEF AntiBeforeGvt, SingleReadAnti, WriteAnti, WriteAntiWithoutEffect, agentVars
<1>3. \A e \in sendList : e.kind = "read" /\ e.time >= fGVT => Traced(e)
  BY DEF ReadsAreTraced
<1>4. m \in AntiMessage /\ m \in ToSet(antis[r])
  BY <1>1, <1>2, QueueHead, Popped DEF TypeOK
<1>5. /\ m.agent \in Agent /\ m.time \in Nat /\ m.time \in GvtTime /\ m.tag \in Tag
      /\ agentLvt[m.agent] \in Nat
  BY <1>1, <1>4, ConstantsAssumption, MaxTimeAssumption
  DEF TypeOK, AntiMessage, Time, GvtTime
<1> HIDE DEF m
<1>6. ASSUME NEW e \in sendList, e.kind = "read", e.agent = m.agent
      PROVE  e.time # m.time
  <2>1. e.time < agentLvt[m.agent] /\ agentLvt[m.agent] <= m.time
    BY <1>4, <1>6 DEF BoundHolds, ReadsAreBehind, RetractedIsAhead
  <2>2. e.time \in Nat
    BY <1>1, ConstantsAssumption, MaxTimeAssumption DEF TypeOK, SentMessage, Time
  <2> QED
    BY <1>5, <2>1, <2>2
<1>7. SUFFICES ASSUME NEW e \in sendList, e.kind = "read", Traced(e)
               PROVE  Traced(e)'
  BY <1>2, <1>3 DEF ReadsAreTraced
<1>8. e.time \in Nat
  BY <1>1, ConstantsAssumption, MaxTimeAssumption DEF TypeOK, SentMessage, Time
<1>9. CASE AntiBeforeGvt(r) \/ WriteAntiWithoutEffect(r)
  <2>1. UNCHANGED <<rollbacks, writePeriods>>
    BY <1>9 DEF AntiBeforeGvt, WriteAntiWithoutEffect
  <2> QED
    BY <1>2, <1>7, <2>1 DEF Traced, Holds, Waiting, Dropped
<1>10. CASE SingleReadAnti(r)
  <2>1. /\ UNCHANGED rollbacks
        /\ \/ UNCHANGED writePeriods
           \/ \E k \in 1..Len(writePeriods) :
                writePeriods' = WithoutRead(writePeriods, k, m.agent, m.time)
    BY <1>10 DEF SingleReadAnti, m
  <2>2. Holds(writePeriods, e) => Holds(writePeriods', e)
    <3>1. CASE UNCHANGED writePeriods
      BY <3>1 DEF Holds
    <3>2. ASSUME NEW k \in 1..Len(writePeriods),
                 writePeriods' = WithoutRead(writePeriods, k, m.agent, m.time),
                 Holds(writePeriods, e)
          PROVE  Holds(writePeriods', e)
      BY <1>1, <1>6, <1>7, <3>2, WithoutReadHolds
    <3> QED
      BY <2>1, <3>1, <3>2
  <2> QED
    BY <1>2, <1>7, <2>1, <2>2 DEF Traced, Waiting, Dropped
<1>11. CASE WriteAnti(r)
  <2>1. PICK k \in 1..Len(writePeriods) :
          LET calls == {[rd EXCEPT !.time = m.time] : rd \in writePeriods[k].reads}
          IN  /\ Retracts(writePeriods, m, k)
              /\ writePeriods' = WithoutWrite(writePeriods, k)
              /\ \E key \in Keys(calls) :
                   rollbacks' = WithRollbacksFor(calls, key, m.tag)
    BY <1>11 DEF WriteAnti, m
  <2> DEFINE at(rd) == [rd EXCEPT !.time = m.time]
             calls == {at(rd) : rd \in writePeriods[k].reads}
  <2>2. PICK key \in Keys(calls) : rollbacks' = WithRollbacksFor(calls, key, m.tag)
    BY <2>1
  <2>3. /\ writePeriods[k].reads \subseteq ReadRecord
        /\ writePeriods[k].start = m.time
        /\ ReadsFit(writePeriods[k])
    BY <1>1, <2>1, PeriodFields DEF Retracts, FirstStartingAt, WellFormed
  <2>4. \A rd \in writePeriods[k].reads :
          at(rd) \in ReadRecord /\ at(rd).time = m.time /\ at(rd).agent = rd.agent
    BY <1>5, <2>3 DEF ReadRecord
  <2> HIDE DEF at
  <2>5. calls \in SUBSET ReadRecord /\ \A rd \in writePeriods[k].reads : at(rd) \in calls
    BY <2>4
  <2> HIDE DEF calls
  <2>6. \A x \in Ranks : ToSet(rollbacks[x]) \subseteq ToSet(rollbacks'[x])
    BY <1>1, <1>5, <2>2, <2>5, RollbacksSent
  <2>7. CASE Waiting(e) \/ Dropped(e)
    BY <1>2, <2>6, <2>7, StaysTold DEF Traced
  <2>8. CASE Holds(writePeriods, e) /\ ReadOf(e) \notin writePeriods[k].reads
    <3>1. Holds(WithoutWrite(writePeriods, k), e)
      BY <1>1, <1>8, <2>8, WithoutWriteHolds
    <3> QED
      BY <2>1, <3>1 DEF Traced
  <2>9. CASE ReadOf(e) \in writePeriods[k].reads
    <3>1. at(ReadOf(e)) \in calls
      BY <2>5, <2>9
    <3>2. /\ at(ReadOf(e)).agent = e.agent /\ at(ReadOf(e)).time = m.time
          /\ m.time <= e.time
      BY <2>3, <2>4, <2>9 DEF ReadsFit, ReadOf
    <3>3. \E x \in Ranks : \E d \in ToSet(rollbacks'[x]) :
            d.agent = at(ReadOf(e)).agent /\ d.time <= at(ReadOf(e)).time
      BY <1>1, <1>5, <2>2, <2>5, <3>1, ReaderIsTold
    <3>4. PICK x \in Ranks : \E d \in ToSet(rollbacks'[x]) :
            d.agent = e.agent /\ d.time <= m.time
      BY <3>2, <3>3
    <3>5. PICK d \in ToSet(rollbacks'[x]) : d.agent = e.agent /\ d.time <= m.time
      BY <3>4
    <3>6. d.time \in Nat
      <4>1. rollbacks' \in [Ranks -> Seq(RollbackMessage)]
        BY AntiMessageKeepsIInv DEF IInv, TypeOK
      <4>2. d \in RollbackMessage
        BY <4>1 DEF ToSet
      <4> QED
        BY <4>2, ConstantsAssumption, MaxTimeAssumption DEF RollbackMessage, GvtTime
    <3>7. d.time <= e.time
      BY <1>5, <1>8, <3>2, <3>5, <3>6
    <3> QED
      BY <3>5, <3>7 DEF Traced, Waiting
  <2> QED
    BY <1>7, <2>7, <2>8, <2>9 DEF Traced
<1> QED
  BY <1>9, <1>10, <1>11

\* A rollback at the ALP: the one that reports a read undoes it, unless its tag
\* is known; it is always needed, because the read is before the LVT.
LEMMA RollbackKeepsTraces ==
    ASSUME IInv, BoundHolds, ReadsAreTraced, NEW r \in Ranks,
           \/ ProcessRollback(r) \/ RollbackBeforeGvt(r)
           \/ RollbackNotNeeded(r) \/ RollbackIgnoredForTag(r)
    PROVE  ReadsAreTraced'
<1> DEFINE m == Head(rollbacks[r])
<1>1. TypeOK
  BY DEF IInv
<1>2. rollbacks[r] # << >> /\ rollbacks' = [rollbacks EXCEPT ![r] = Tail(@)]
  BY DEF ProcessRollback, RollbackBeforeGvt, RollbackNotNeeded, RollbackIgnoredForTag
<1>3. UNCHANGED <<writePeriods, fGVT>> /\ sendList' \subseteq sendList
  BY DEF ProcessRollback, RollbackBeforeGvt, RollbackNotNeeded,
         RollbackIgnoredForTag, agentVars
<1>4. /\ m \in RollbackMessage
      /\ \A x \in Ranks : ToSet(rollbacks[x]) \subseteq ToSet(rollbacks'[x]) \cup {m}
  <2>1. \A x \in Ranks : x # r => rollbacks'[x] = rollbacks[x]
    BY <1>1, <1>2 DEF TypeOK
  <2>2. ToSet(rollbacks[r]) \subseteq ToSet(rollbacks'[r]) \cup {m}
    BY <1>1, <1>2, Popped DEF TypeOK
  <2> QED
    BY <1>1, <1>2, <2>1, <2>2, QueueHead DEF TypeOK
<1>5. ignored \subseteq ignored' /\ (RollbackIgnoredForTag(r) => m \in ignored')
  BY DEF ProcessRollback, RollbackBeforeGvt, RollbackNotNeeded, RollbackIgnoredForTag
<1>6. ASSUME NEW e \in sendList', e.kind = "read", m.agent = e.agent, m.time <= e.time
      PROVE  m \in ignored'
  <2>1. /\ e \in sendList /\ e.time < agentLvt[e.agent]
        /\ e.time \in Nat /\ m.time \in Nat /\ agentLvt[e.agent] \in Nat
    <3>1. e \in SentMessage /\ e \in sendList
      BY <1>1, <1>3, <1>6 DEF TypeOK
    <3>2. /\ e.agent \in Agent /\ e.time \in Nat /\ m.time \in Nat
          /\ agentLvt[e.agent] \in Nat
      BY <1>1, <1>4, <3>1, ConstantsAssumption, MaxTimeAssumption
      DEF TypeOK, SentMessage, RollbackMessage, Time, GvtTime
    <3> QED
      BY <1>6, <3>1, <3>2 DEF BoundHolds, ReadsAreBehind
  <2>2. ~ RollbackNotNeeded(r)
    BY <1>6, <2>1 DEF RollbackNotNeeded
  <2>3. e \in Undone(m)
    BY <1>6, <2>1 DEF Undone
  <2>4. ~ ProcessRollback(r) /\ ~ RollbackBeforeGvt(r)
    BY <1>6, <2>3 DEF ProcessRollback, RollbackBeforeGvt
  <2> QED
    BY <1>5, <2>2, <2>4
<1> HIDE DEF m
<1>7. ASSUME NEW e \in sendList', e.kind = "read", Traced(e) PROVE Traced(e)'
  <2>1. CASE Holds(writePeriods, e)
    BY <1>3, <2>1 DEF Traced, Holds
  <2>2. CASE Dropped(e)
    BY <1>5, <2>2 DEF Traced, Dropped
  <2>3. CASE Waiting(e)
    <3>1. PICK x \in Ranks : \E d \in ToSet(rollbacks[x]) :
            d.agent = e.agent /\ d.time <= e.time
      BY <2>3 DEF Waiting
    <3>2. PICK d \in ToSet(rollbacks[x]) : d.agent = e.agent /\ d.time <= e.time
      BY <3>1
    <3>3. CASE d = m
      BY <1>6, <1>7, <3>2, <3>3 DEF Traced, Dropped
    <3>4. CASE d \in ToSet(rollbacks'[x])
      BY <3>2, <3>4 DEF Traced, Waiting
    <3> QED
      BY <1>4, <3>3, <3>4
  <2> QED
    BY <1>7, <2>1, <2>2, <2>3 DEF Traced
<1> QED
  BY <1>3, <1>7 DEF ReadsAreTraced

LEMMA SetGvtKeepsTraces ==
    ASSUME IInv, BoundHolds, ReadsAreTraced, NEW gvt \in GvtTime, SetGvt(gvt)
    PROVE  ReadsAreTraced'
<1>1. /\ TypeOK /\ WellFormed(writePeriods) /\ gvt \in Nat /\ fGVT \in Nat
  BY ConstantsAssumption, MaxTimeAssumption DEF IInv, TypeOK, GvtTime
<1>2. /\ fGVT' = gvt /\ gvt > fGVT /\ UNCHANGED <<rollbacks, ignored>>
      /\ sendList' = {e \in sendList : e.time >= gvt}
  BY DEF SetGvt
<1>3. SUFFICES ASSUME NEW e \in sendList, e.kind = "read", e.time >= gvt
               PROVE  Traced(e)'
  BY <1>2 DEF ReadsAreTraced
<1>4. e.time \in Nat
  BY <1>1, ConstantsAssumption, MaxTimeAssumption DEF TypeOK, SentMessage, Time
<1>5. Traced(e)
  BY <1>1, <1>2, <1>3, <1>4 DEF ReadsAreTraced
<1>6. Holds(writePeriods, e) => Holds(writePeriods', e)
  <2>1. CASE writePeriods' = writePeriods
    BY <2>1
  <2>2. ASSUME NEW n \in Nat, n = Len(writePeriods), NEW k \in 1..n,
               StopsAt(writePeriods, gvt, k), NEW first \in 1..n,
               IsCollected(writePeriods', writePeriods, n, k, first,
                           StartingAt(writePeriods, k, gvt)),
               Holds(writePeriods, e)
        PROVE  Holds(writePeriods', e)
    BY <1>1, <1>3, <1>4, <2>2, CollectedHolds
  <2> QED
    BY <2>1, <2>2, CollectedList
<1> QED
  BY <1>2, <1>5, <1>6 DEF Traced, Waiting, Dropped

LEMMA NextKeepsTraces ==
    ASSUME OneAgentPerRank
    PROVE  IInv /\ GvtInv /\ TraceInv /\ [Next]_vars => TraceInv'
<1> SUFFICES ASSUME IInv, GvtInv, TraceInv, [Next]_vars, gvtSafe'
             PROVE  ReadsAreTraced'
  BY DEF TraceInv
<1>1. CASE UNCHANGED vars
  BY <1>1 DEF vars, TraceInv, ReadsAreTraced, Traced, Holds, Waiting, Dropped
<1>2. CASE Next
  <2>1. gvtSafe
    BY ZenonT(30), <1>2 DEF Next, SingleRead, SingleReadExits, WriteFails, WriteSucceeds,
       AntiBeforeGvt, SingleReadAnti, WriteAnti, WriteAntiWithoutEffect,
       ProcessRollback, RollbackBeforeGvt, RollbackNotNeeded, RollbackIgnoredForTag,
       SetGvt
  <2>2. BoundHolds /\ ReadsAreTraced
    BY <2>1 DEF GvtInv, TraceInv
  <2>3. ASSUME NEW a \in Agent, NEW t \in Time,
               \/ SingleRead(a, t) \/ SingleReadExits(a, t) \/ WriteFails(a, t)
               \/ \E v \in Value : WriteSucceeds(a, t, v)
        PROVE  ReadsAreTraced'
    BY <2>2, <2>3, RequestKeepsTraces
  <2>4. ASSUME NEW r \in Ranks,
               \/ AntiBeforeGvt(r) \/ SingleReadAnti(r)
               \/ WriteAnti(r) \/ WriteAntiWithoutEffect(r)
        PROVE  ReadsAreTraced'
    BY <2>2, <2>4, AntiMessageKeepsTraces
  <2>5. ASSUME NEW r \in Ranks,
               \/ ProcessRollback(r) \/ RollbackBeforeGvt(r)
               \/ RollbackNotNeeded(r) \/ RollbackIgnoredForTag(r)
        PROVE  ReadsAreTraced'
    BY <2>2, <2>5, RollbackKeepsTraces
  <2>6. ASSUME NEW gvt \in GvtTime, SetGvt(gvt) PROVE ReadsAreTraced'
    BY <2>2, <2>6, SetGvtKeepsTraces
  <2> QED
    BY <1>2, <2>3, <2>4, <2>5, <2>6 DEF Next
<1> QED
  BY <1>1, <1>2

\* With one agent per ALP no read becomes stale silently: whatever a straggler
\* write, a retraction or a new GVT does to the history, a read that an agent
\* relies on either returned the value now in force at its time, or its agent
\* has been sent a rollback that reaches back to it (RollbackList.cpp:17-44).
\* The hypothesis is needed: with two agents of one ALP it fails, because they
\* share an entry of the list.
THEOREM StaleReadsAlwaysReported ==
    ASSUME OneAgentPerRank
    PROVE  Spec => []StaleReadsAreReported
<1>1. Init => TraceInv
  BY DEF Init, TraceInv, ReadsAreTraced
<1>2. IInv /\ GvtInv /\ TraceInv /\ [Next]_vars => TraceInv'
  BY NextKeepsTraces
<1>3. TraceInv => StaleReadsAreReported
  <2> SUFFICES ASSUME gvtSafe, ReadsAreTraced, NEW e \in sendList,
                      e.kind = "read", e.time >= fGVT
               PROVE  InForce(e.time, e.value)
                      \/ Reported(e, RollbacksInFlight \cup ignored)
    BY DEF TraceInv, StaleReadsAreReported
  <2>1. Traced(e)
    BY DEF ReadsAreTraced
  <2>2. CASE Holds(writePeriods, e)
    BY <2>2 DEF Holds, InForce
  <2>3. CASE Waiting(e) \/ Dropped(e)
    BY <2>3 DEF Waiting, Dropped, Reported, RollbacksInFlight
  <2> QED
    BY <2>1, <2>2, <2>3 DEF Traced
<1> QED
  BY <1>1, <1>2, <1>3, SpecIInv, SpecGvtInv, PTL DEF Spec

-----------------------------------------------------------------------------
(***************************************************************************)
(* The history after GVT is the accepted writes.  An agent that is rolled  *)
(* back to the time of a write of its own keeps that write and may write   *)
(* at the time again, so a time may have several periods of one agent, and *)
(* the invariant counts: at a time that is one agent's alone there are as  *)
(* many periods as writes on the send list and write anti-messages on      *)
(* their way together.                                                     *)
(***************************************************************************)
IsWriteOf(m, a, t) == m.kind = "write" /\ m.agent = a /\ m.time = t

PeriodsOf(periods, a, t) ==
    {i \in 1..Len(periods) : periods[i].start = t /\ periods[i].agent = a}
WritesOf(queue, a, t) == {i \in 1..Len(queue) : IsWriteOf(queue[i], a, t)}
Listed(a, t) == {e \in sendList : IsWriteOf(e, a, t)}

InOwnTime ==
    /\ \A i \in 1..Len(writePeriods) :
         writePeriods[i].start > fGVT =>
           /\ writePeriods[i].agent \in Agent
           /\ writePeriods[i].start \in AgentTimes[writePeriods[i].agent]
    /\ \A e \in sendList : e.time \in AgentTimes[e.agent]
    /\ \A r \in Ranks : \A m \in ToSet(antis[r]) : m.time \in AgentTimes[m.agent]

Numbered ==
    \A a \in Agent, t \in Time : \A e \in Listed(a, t) : e.nth < Cardinality(Listed(a, t))

IsBalanced(a, t) ==
    Cardinality(PeriodsOf(writePeriods, a, t))
      = Cardinality(Listed(a, t)) + Cardinality(WritesOf(antis[a.rank], a, t))

Balanced == \A a \in Agent, t \in Uncontested : t > fGVT => IsBalanced(a, t)

WritesInv == InOwnTime /\ Numbered /\ Balanced

\* Two sets that a function pairs have equally many elements.
LEMMA PairedSets ==
    ASSUME NEW S, IsFiniteSet(S), NEW T, NEW f \in [S -> T],
           \A x, y \in S : f[x] = f[y] => x = y,
           \A z \in T : \E x \in S : f[x] = z
    PROVE  IsFiniteSet(T) /\ Cardinality(T) = Cardinality(S)
<1>1. f \in Bijection(S, T)
  BY DEF Bijection, Injection, IsInjective, Surjection
<1> QED
  BY <1>1, FS_Bijection DEF ExistsBijection

LEMMA PlacesFinite ==
    ASSUME NEW n \in Nat, NEW S \in SUBSET (1..n)
    PROVE  IsFiniteSet(S) /\ Cardinality(S) \in Nat
<1>1. IsFiniteSet(1..n)
  BY FS_Interval
<1> QED
  BY <1>1, FS_Subset, FS_CardinalityType

\* A read, recorded or taken back, leaves starts and owners alone.
IsReadChanged(p, q, k, a, ts) == q = WithRead(p, k, a, ts) \/ q = WithoutRead(p, k, a, ts)

LEMMA WithReadOwners ==
    ASSUME NEW p \in Seq(WritePeriod), NEW k \in 1..Len(p), NEW a, NEW ts, NEW q,
           IsReadChanged(p, q, k, a, ts)
    PROVE  /\ Len(q) = Len(p)
           /\ \A i \in 1..Len(p) : q[i].start = p[i].start /\ q[i].agent = p[i].agent
<1>1. Len(q) = Len(p)
  BY DEF IsReadChanged, WithRead, WithoutRead
<1>2. \A i \in 1..Len(p) : p[i] \in WritePeriod
  BY PeriodFields
<1>3. CASE q = WithRead(p, k, a, ts)
  BY <1>1, <1>2, <1>3 DEF WithRead, WritePeriod
<1>4. CASE q = WithoutRead(p, k, a, ts)
  BY <1>1, <1>2, <1>4 DEF WithoutRead, WritePeriod
<1> QED
  BY <1>3, <1>4 DEF IsReadChanged

LEMMA WithReadPlaces ==
    ASSUME NEW p \in Seq(WritePeriod), NEW k \in 1..Len(p), NEW a, NEW ts, NEW q,
           IsReadChanged(p, q, k, a, ts), NEW b, NEW t
    PROVE  PeriodsOf(q, b, t) = PeriodsOf(p, b, t)
<1>1. /\ Len(q) = Len(p)
      /\ \A i \in 1..Len(p) : q[i].start = p[i].start /\ q[i].agent = p[i].agent
  BY WithReadOwners
<1> QED
  BY <1>1 DEF PeriodsOf

\* A write adds one period, of its agent and at its time.
LEMMA WithWritePlaces ==
    ASSUME NEW p, WellFormed(p), NEW n \in Nat, n = Len(p), NEW k \in 1..n,
           NEW new \in WritePeriod, NEW a, NEW t
    PROVE  Cardinality(PeriodsOf(WithWrite(p, k, new), a, t))
             = Cardinality(PeriodsOf(p, a, t))
                 + (IF new.start = t /\ new.agent = a THEN 1 ELSE 0)
<1> DEFINE q == WithWrite(p, k, new)
           S == PeriodsOf(p, a, t)
           T == PeriodsOf(q, a, t)
           f == [i \in S |-> IF i <= k THEN i ELSE i + 1]
<1>1. IsWithWrite(q, p, n, k, CutShort(p, k, new), Placed(p, k, new))
  BY WithWriteElements
<1>2. p \in Seq(WritePeriod) /\ p[k] \in WritePeriod
  BY PeriodFields DEF WellFormed
<1>3. /\ CutShort(p, k, new).start = p[k].start /\ CutShort(p, k, new).agent = p[k].agent
      /\ Placed(p, k, new).start = new.start /\ Placed(p, k, new).agent = new.agent
  BY <1>2 DEF CutShort, Placed, WritePeriod
<1> HIDE DEF q
<1>4. /\ Len(q) = n + 1
      /\ \A i \in 1..k : q[i].start = p[i].start /\ q[i].agent = p[i].agent
      /\ q[k + 1].start = new.start /\ q[k + 1].agent = new.agent
      /\ \A i \in (k + 1)..n : q[i + 1].start = p[i].start /\ q[i + 1].agent = p[i].agent
  <2> DEFINE cut == CutShort(p, k, new)
             late == Placed(p, k, new)
  <2> HIDE DEF cut, late
  <2>1. IsWithWrite(q, p, n, k, cut, late)
    BY <1>1 DEF cut, late
  <2>2. /\ cut.start = p[k].start /\ cut.agent = p[k].agent
        /\ late.start = new.start /\ late.agent = new.agent
    BY <1>3 DEF cut, late
  <2> QED
    BY <2>1, <2>2 DEF IsWithWrite
<1>5. S \in SUBSET (1..n) /\ T \in SUBSET (1..(n + 1)) /\ n + 1 \in Nat
  BY <1>4 DEF PeriodsOf
<1>6. \A i \in 1..n : i \in S <=> p[i].start = t /\ p[i].agent = a
  BY DEF PeriodsOf
<1>7. \A i \in 1..(n + 1) : i \in T <=> q[i].start = t /\ q[i].agent = a
  BY <1>4 DEF PeriodsOf
<1>8. k + 1 \in T <=> new.start = t /\ new.agent = a
  BY <1>4, <1>7
<1> HIDE DEF S, T
<1>9. f \in [S -> T \ {k + 1}]
  <2> SUFFICES ASSUME NEW i \in S PROVE (IF i <= k THEN i ELSE i + 1) \in T \ {k + 1}
    OBVIOUS
  <2>1. CASE i <= k
    BY <1>4, <1>5, <1>6, <1>7, <2>1
  <2>2. CASE i > k
    <3>1. i \in (k + 1)..n /\ i \in 1..n /\ i + 1 \in 1..(n + 1) /\ i + 1 # k + 1
      BY <1>5, <2>2
    <3> QED
      BY <1>4, <1>6, <1>7, <2>2, <3>1
  <2> QED
    BY <1>5, <2>1, <2>2
<1>10. \A x, y \in S : f[x] = f[y] => x = y
  BY <1>5
<1>11. ASSUME NEW z \in T \ {k + 1} PROVE \E x \in S : f[x] = z
  <2>1. CASE z <= k
    <3>1. z \in 1..n /\ z \in 1..k
      BY <1>5, <2>1
    <3>2. z \in S
      BY <1>4, <1>6, <1>7, <1>11, <3>1
    <3> QED
      BY <2>1, <3>2
  <2>2. CASE z > k
    <3>1. z - 1 \in (k + 1)..n /\ z - 1 \in 1..n /\ (z - 1) + 1 = z /\ ~(z - 1 <= k)
      BY <1>5, <1>11, <2>2
    <3>2. z - 1 \in S
      BY <1>4, <1>6, <1>7, <1>11, <3>1
    <3> QED
      BY <3>1, <3>2
  <2> QED
    BY <1>5, <2>1, <2>2
<1>12. IsFiniteSet(S) /\ Cardinality(S) \in Nat
  BY <1>5, PlacesFinite
<1> HIDE DEF f
<1>13. Cardinality(T \ {k + 1}) = Cardinality(S)
  BY <1>9, <1>10, <1>11, <1>12, PairedSets
<1>14. IsFiniteSet(T) /\ Cardinality(T) \in Nat
  BY <1>5, PlacesFinite
<1>15. Cardinality(T \ {k + 1}) = IF k + 1 \in T THEN Cardinality(T) - 1 ELSE Cardinality(T)
  BY <1>14, FS_RemoveElement
<1>16. Cardinality(T) = Cardinality(S) + (IF new.start = t /\ new.agent = a THEN 1 ELSE 0)
  BY <1>8, <1>12, <1>13, <1>14, <1>15
<1> QED
  BY <1>16 DEF S, T, q

\* A retraction takes one period away.
LEMMA WithoutWritePlaces ==
    ASSUME NEW p, WellFormed(p), NEW n \in Nat, n = Len(p), NEW k \in 1..n,
           NEW a, NEW t
    PROVE  Cardinality(PeriodsOf(p, a, t))
             = Cardinality(PeriodsOf(WithoutWrite(p, k), a, t))
                 + (IF p[k].start = t /\ p[k].agent = a THEN 1 ELSE 0)
<1> DEFINE q == WithoutWrite(p, k)
           S == PeriodsOf(q, a, t)
           T == PeriodsOf(p, a, t)
           f == [i \in S |-> IF i < k THEN i ELSE i + 1]
<1>1. IsWithoutWrite(q, p, n, k, TakingOver(p, k))
  BY WithoutWriteElements
<1>2. p \in Seq(WritePeriod) /\ \A i \in 1..n : p[i] \in WritePeriod
  BY PeriodFields DEF WellFormed
<1>3. \A i \in 1..(n - 1) : i = k - 1 =>
        TakingOver(p, k).start = p[i].start /\ TakingOver(p, k).agent = p[i].agent
  BY <1>2 DEF TakingOver, WritePeriod
<1> HIDE DEF q
<1>4. /\ Len(q) = n - 1
      /\ \A i \in 1..(n - 1) :
           i < k => q[i].start = p[i].start /\ q[i].agent = p[i].agent
      /\ \A i \in 1..(n - 1) :
           i >= k => q[i].start = p[i + 1].start /\ q[i].agent = p[i + 1].agent
  <2>1. ASSUME NEW i \in 1..(n - 1), i < k
        PROVE  q[i].start = p[i].start /\ q[i].agent = p[i].agent
    <3>1. CASE i < k - 1
      BY <1>1, <3>1 DEF IsWithoutWrite
    <3>2. CASE i = k - 1
      BY <1>1, <1>3, <3>2 DEF IsWithoutWrite
    <3> QED
      BY <2>1, <3>1, <3>2
  <2> QED
    BY <1>1, <2>1 DEF IsWithoutWrite
<1>5. S \in SUBSET (1..(n - 1)) /\ T \in SUBSET (1..n) /\ n - 1 \in Nat
  BY <1>4 DEF PeriodsOf
<1>6. \A i \in 1..(n - 1) : i \in S <=> q[i].start = t /\ q[i].agent = a
  BY <1>4 DEF PeriodsOf
<1>7. \A i \in 1..n : i \in T <=> p[i].start = t /\ p[i].agent = a
  BY DEF PeriodsOf
<1> HIDE DEF S, T
<1>8. f \in [S -> T \ {k}]
  <2> SUFFICES ASSUME NEW i \in S PROVE (IF i < k THEN i ELSE i + 1) \in T \ {k}
    OBVIOUS
  <2>1. i \in 1..(n - 1) /\ i \in 1..n /\ i + 1 \in 1..n
    BY <1>5
  <2>2. CASE i < k
    BY <1>4, <1>6, <1>7, <2>1, <2>2
  <2>3. CASE i >= k
    BY <1>4, <1>6, <1>7, <2>1, <2>3
  <2> QED
    BY <2>1, <2>2, <2>3
<1>9. \A x, y \in S : f[x] = f[y] => x = y
  BY <1>5
<1>10. ASSUME NEW z \in T \ {k} PROVE \E x \in S : f[x] = z
  <2>1. CASE z < k
    <3>1. z \in 1..(n - 1) /\ z \in 1..n
      BY <1>5, <2>1
    <3>2. z \in S
      BY <1>4, <1>6, <1>7, <1>10, <2>1, <3>1
    <3> QED
      BY <2>1, <3>2
  <2>2. CASE z > k
    <3>1. z - 1 \in 1..(n - 1) /\ z - 1 >= k /\ (z - 1) + 1 = z /\ z \in 1..n
      BY <1>5, <1>10, <2>2
    <3>2. z - 1 \in S
      BY <1>4, <1>6, <1>7, <1>10, <3>1
    <3> QED
      BY <3>1, <3>2
  <2> QED
    BY <1>5, <1>10, <2>1, <2>2
<1>11. IsFiniteSet(S) /\ Cardinality(S) \in Nat
  BY <1>5, PlacesFinite
<1> HIDE DEF f
<1>12. Cardinality(T \ {k}) = Cardinality(S)
  BY <1>8, <1>9, <1>10, <1>11, PairedSets
<1>13. IsFiniteSet(T) /\ Cardinality(T) \in Nat
  BY <1>5, PlacesFinite
<1>14. Cardinality(T \ {k}) = IF k \in T THEN Cardinality(T) - 1 ELSE Cardinality(T)
  BY <1>13, FS_RemoveElement
<1>15. k \in T <=> p[k].start = t /\ p[k].agent = a
  BY <1>7
<1>16. Cardinality(T) = Cardinality(S) + (IF p[k].start = t /\ p[k].agent = a THEN 1 ELSE 0)
  BY <1>11, <1>12, <1>13, <1>14, <1>15
<1> QED
  BY <1>16 DEF S, T, q

\* Fossil collection keeps the periods that start after the new GVT.
LEMMA CollectedPlaces ==
    ASSUME NEW p, WellFormed(p), NEW n \in Nat, n = Len(p), NEW gvt \in Nat,
           NEW k \in 1..n, StopsAt(p, gvt, k), NEW first \in 1..n, NEW q,
           IsCollected(q, p, n, k, first, StartingAt(p, k, gvt)),
           NEW a, NEW t \in Nat, t > gvt
    PROVE  Cardinality(PeriodsOf(q, a, t)) = Cardinality(PeriodsOf(p, a, t))
<1> DEFINE S == PeriodsOf(q, a, t)
           T == PeriodsOf(p, a, t)
           f == [i \in S |-> first + i - 1]
<1>1. p \in Seq(WritePeriod) /\ \A i \in 1..n : p[i].start \in Nat
  BY PeriodFields DEF WellFormed
<1>2. /\ p[k].start <= gvt /\ StartingAt(p, k, gvt).start = gvt
      /\ \A i \in 1..n : i <= k => p[i].start <= gvt
  <2>1. p[k].start <= gvt /\ StartingAt(p, k, gvt).start = gvt
    BY <1>1, StartingAtFields DEF StopsAt
  <2>2. ASSUME NEW i \in 1..n, i <= k PROVE p[i].start <= gvt
    <3>1. p[i].start <= p[k].start
      BY <2>2 DEF WellFormed, Ordered
    <3> QED
      BY <1>1, <2>1, <3>1
  <2> QED
    BY <2>1, <2>2
<1>3. /\ first <= k /\ Len(q) = n - first + 1
      /\ \A i \in 1..(n - first + 1) :
           q[i] = IF first + i - 1 = k THEN StartingAt(p, k, gvt) ELSE p[first + i - 1]
  BY DEF IsCollected
<1>4. S \in SUBSET (1..(n - first + 1)) /\ T \in SUBSET (1..n) /\ n - first + 1 \in Nat
  BY <1>3 DEF PeriodsOf
<1>5. \A i \in 1..(n - first + 1) : i \in S <=> q[i].start = t /\ q[i].agent = a
  BY <1>3 DEF PeriodsOf
<1>6. \A i \in 1..n : i \in T <=> p[i].start = t /\ p[i].agent = a
  BY DEF PeriodsOf
<1>7. \A i \in T : i > k /\ i \in 1..n
  BY <1>1, <1>2, <1>4, <1>6
<1> HIDE DEF S, T
<1>8. f \in [S -> T]
  <2> SUFFICES ASSUME NEW i \in S PROVE first + i - 1 \in T
    OBVIOUS
  <2>1. i \in 1..(n - first + 1) /\ first + i - 1 \in 1..n
    BY <1>4
  <2>2. first + i - 1 # k
    BY <1>2, <1>3, <1>5, <2>1
  <2> QED
    BY <1>3, <1>5, <1>6, <2>1, <2>2
<1>9. \A x, y \in S : f[x] = f[y] => x = y
  BY <1>4
<1>10. ASSUME NEW z \in T PROVE \E x \in S : f[x] = z
  <2>0. z \in 1..n /\ z > k /\ first <= k
    BY <1>3, <1>7
  <2>1. /\ z - first + 1 \in 1..(n - first + 1) /\ z # k
        /\ first + (z - first + 1) - 1 = z /\ z \in 1..n
    BY <2>0
  <2>2. z - first + 1 \in S
    BY <1>3, <1>5, <1>6, <2>1
  <2> QED
    BY <2>1, <2>2
<1>11. IsFiniteSet(S)
  BY <1>4, PlacesFinite
<1> HIDE DEF f
<1> QED
  BY <1>8, <1>9, <1>10, <1>11, PairedSets DEF S, T

\* What leaves a queue at its head.
LEMMA HeadLeaves ==
    ASSUME NEW M, NEW queue \in Seq(M), queue # << >>, NEW a, NEW t
    PROVE  /\ Cardinality(WritesOf(queue, a, t))
                = Cardinality(WritesOf(Tail(queue), a, t))
                    + (IF IsWriteOf(Head(queue), a, t) THEN 1 ELSE 0)
           /\ Cardinality(WritesOf(Tail(queue), a, t)) \in Nat
<1> DEFINE S == WritesOf(Tail(queue), a, t)
           T == WritesOf(queue, a, t)
           f == [i \in S |-> i + 1]
<1>1. PICK n \in Nat : n = Len(queue)
  OBVIOUS
<1>2. /\ n >= 1 /\ n - 1 \in Nat /\ Len(Tail(queue)) = n - 1 /\ Head(queue) = queue[1]
      /\ \A i \in 1..(n - 1) : Tail(queue)[i] = queue[i + 1]
  BY <1>1
<1>3. S \in SUBSET (1..(n - 1)) /\ T \in SUBSET (1..n)
  BY <1>1, <1>2 DEF WritesOf
<1>4. \A i \in 1..(n - 1) : i \in S <=> IsWriteOf(queue[i + 1], a, t)
  BY <1>2 DEF WritesOf
<1>5. \A i \in 1..n : i \in T <=> IsWriteOf(queue[i], a, t)
  BY <1>1 DEF WritesOf
<1> HIDE DEF S, T
<1>6. f \in [S -> T \ {1}]
  BY <1>2, <1>3, <1>4, <1>5
<1>7. \A x, y \in S : f[x] = f[y] => x = y
  BY <1>3
<1>8. ASSUME NEW z \in T \ {1} PROVE \E x \in S : f[x] = z
  <2>1. z \in 1..n /\ z - 1 \in 1..(n - 1) /\ (z - 1) + 1 = z
    BY <1>2, <1>3
  <2> QED
    BY <1>4, <1>5, <2>1
<1>9. IsFiniteSet(S) /\ Cardinality(S) \in Nat
  BY <1>2, <1>3, PlacesFinite
<1> HIDE DEF f
<1>10. Cardinality(T \ {1}) = Cardinality(S)
  BY <1>6, <1>7, <1>8, <1>9, PairedSets
<1>11. IsFiniteSet(T) /\ Cardinality(T) \in Nat
  BY <1>3, PlacesFinite
<1>12. Cardinality(T \ {1}) = IF 1 \in T THEN Cardinality(T) - 1 ELSE Cardinality(T)
  BY <1>11, FS_RemoveElement
<1>13. 1 \in T <=> IsWriteOf(Head(queue), a, t)
  BY <1>2, <1>5
<1>14. Cardinality(T) = Cardinality(S) + (IF IsWriteOf(Head(queue), a, t) THEN 1 ELSE 0)
  BY <1>9, <1>10, <1>11, <1>12, <1>13
<1> QED
  BY <1>9, <1>14 DEF S, T

\* What joins a queue at its end.
LEMMA OthersJoin ==
    ASSUME NEW M, NEW queue \in Seq(M), NEW others \in Seq(M), NEW a, NEW t
    PROVE  Cardinality(WritesOf(queue \o others, a, t))
             = Cardinality(WritesOf(queue, a, t)) + Cardinality(WritesOf(others, a, t))
<1> DEFINE S == WritesOf(queue, a, t)
           R == WritesOf(others, a, t)
           T == WritesOf(queue \o others, a, t)
<1>1. PICK n \in Nat : n = Len(queue)
  OBVIOUS
<1>2. PICK k \in Nat : k = Len(others)
  OBVIOUS
<1> DEFINE f == [i \in R |-> n + i]
           moved == {i \in T : i > n}
<1>3. /\ Len(queue \o others) = n + k /\ n + k \in Nat
      /\ \A i \in 1..n : (queue \o others)[i] = queue[i]
      /\ \A i \in 1..k : (queue \o others)[n + i] = others[i]
  BY <1>1, <1>2
<1>4. S \in SUBSET (1..n) /\ R \in SUBSET (1..k) /\ T \in SUBSET (1..(n + k))
  BY <1>1, <1>2, <1>3 DEF WritesOf
<1>5. \A i \in 1..n : i \in S <=> i \in T
  BY <1>1, <1>3 DEF WritesOf
<1>6. \A i \in 1..k : i \in R <=> n + i \in T
  BY <1>2, <1>3 DEF WritesOf
<1> HIDE DEF S, R, T
<1>7. T = S \cup moved /\ S \cap moved = {}
  <2>1. \A z \in T : z \in 1..n \/ z > n
    BY <1>4
  <2>2. \A z \in S : z \in 1..n /\ ~(z > n)
    BY <1>4
  <2> QED
    BY <1>5, <2>1, <2>2
<1>8. f \in [R -> moved]
  BY <1>4, <1>6
<1>9. \A x, y \in R : f[x] = f[y] => x = y
  BY <1>4
<1>10. ASSUME NEW z \in moved PROVE \E x \in R : f[x] = z
  <2>1. z - n \in 1..k /\ n + (z - n) = z /\ z \in T
    BY <1>4
  <2> QED
    BY <1>6, <2>1
<1>11. IsFiniteSet(S) /\ IsFiniteSet(R) /\ Cardinality(S) \in Nat /\ Cardinality(R) \in Nat
  BY <1>4, PlacesFinite
<1> HIDE DEF f, moved
<1>12. IsFiniteSet(moved) /\ Cardinality(moved) = Cardinality(R)
  BY <1>8, <1>9, <1>10, <1>11, PairedSets
<1>13. Cardinality(T) = Cardinality(S) + Cardinality(moved) - Cardinality(S \cap moved)
  BY <1>7, <1>11, <1>12, FS_Union
<1>14. Cardinality(T) = Cardinality(S) + Cardinality(R)
  <2>1. Cardinality(S \cap moved) = 0
    BY <1>7, FS_EmptySet
  <2> QED
    BY <1>11, <1>12, <1>13, <2>1
<1> QED
  BY <1>14 DEF S, R, T

\* A rollback sends one anti-message for every entry it takes off the send list.
LEMMA OneAntiEach ==
    ASSUME IsFiniteSet(sendList), NEW m, NEW q \in InSendOrder(Undone(m)), NEW sent,
           sent = [i \in DOMAIN q |-> [kind |-> q[i].kind, agent |-> m.agent,
                                       time |-> q[i].time, tag |-> m.tag]],
           NEW a, NEW t
    PROVE  Cardinality(WritesOf(sent, a, t))
             = Cardinality({e \in Undone(m) : IsWriteOf(e, a, t)})
<1> DEFINE U == Undone(m)
           S == WritesOf(sent, a, t)
           T == {e \in U : IsWriteOf(e, a, t)}
           f == [i \in S |-> q[i]]
<1>1. U \in SUBSET sendList /\ \A e \in U : e.agent = m.agent
  BY DEF Undone
<1>2. IsFiniteSet(U) /\ Cardinality(U) \in Nat
  BY <1>1, FS_Subset, FS_CardinalityType
<1> HIDE DEF U
<1>3. q \in [1..Cardinality(U) -> U] /\ ToSet(q) = U
  BY DEF InSendOrder, U
<1>4. PICK n \in Nat : n = Cardinality(U)
  BY <1>2
<1>5. \A e \in U : \E i \in 1..n : q[i] = e
  BY <1>3, <1>4 DEF ToSet
<1>6. \A x, y \in 1..n : q[x] = q[y] => x = y
  <2>1. q \in Surjection(1..n, U)
    BY <1>3, <1>4, <1>5 DEF Surjection
  <2>2. IsFiniteSet(1..n) /\ Cardinality(1..n) = n
    BY FS_Interval
  <2>3. q \in Injection(1..n, U)
    BY <1>4, <2>1, <2>2, FS_SurjSameCardinalityImpliesInj
  <2> QED
    BY <2>3 DEF Injection, IsInjective
<1>7. DOMAIN sent = 1..n /\ Len(sent) = n
  BY <1>3, <1>4
<1>8. \A i \in 1..n : IsWriteOf(sent[i], a, t) <=> IsWriteOf(q[i], a, t)
  BY <1>1, <1>3, <1>4 DEF IsWriteOf
<1>9. S \in SUBSET (1..n) /\ \A i \in 1..n : i \in S <=> q[i] \in T
  BY <1>3, <1>4, <1>7, <1>8 DEF WritesOf
<1>10. \A z \in T : \E x \in S : q[x] = z
  BY <1>5, <1>9
<1> HIDE DEF S
<1>11. /\ f \in [S -> T]
       /\ \A x, y \in S : f[x] = f[y] => x = y
       /\ \A z \in T : \E x \in S : f[x] = z
  BY <1>6, <1>9, <1>10
<1>12. IsFiniteSet(S)
  BY <1>9, PlacesFinite
<1> HIDE DEF f, T
<1>13. Cardinality(T) = Cardinality(S)
  BY <1>11, <1>12, PairedSets
<1> QED
  BY <1>13 DEF S, T, U

\* A write that goes on the send list, of which there may be others of its time.
LEMMA ListedGrows ==
    ASSUME IsFiniteSet(sendList), sendList \subseteq SentMessage,
           NEW b \in Agent, NEW u \in Time, NEW v,
           \A e \in Listed(b, u) : e.nth < Cardinality(Listed(b, u)),
           NEW a \in Agent, NEW t \in Time,
           NEW after, after = {e \in sendList \cup {Sent("write", b, u, v)} :
                                 IsWriteOf(e, a, t)}
    PROVE  /\ Cardinality(after)
                = Cardinality(Listed(a, t)) + (IF b = a /\ u = t THEN 1 ELSE 0)
           /\ (\A e \in Listed(a, t) : e.nth < Cardinality(Listed(a, t)))
                => \A e \in after : e.nth < Cardinality(after)
<1> DEFINE e == Sent("write", b, u, v)
           L == Listed(a, t)
<1>1. IsFiniteSet(L) /\ Cardinality(L) \in Nat
  <2>1. L \in SUBSET sendList
    BY DEF Listed
  <2> QED
    BY <2>1, FS_Subset, FS_CardinalityType
<1>2. IsWriteOf(e, a, t) <=> b = a /\ u = t
  BY DEF Sent, IsWriteOf
<1>3. e.nth = Cardinality(Listed(b, u))
  BY DEF Sent, Listed, IsWriteOf
<1>4. after = IF b = a /\ u = t THEN L \cup {e} ELSE L
  <2>1. after = L \cup {x \in {e} : IsWriteOf(x, a, t)}
    BY DEF Listed
  <2> HIDE DEF e
  <2> QED
    BY <1>2, <2>1
<1> HIDE DEF e
<1>5. CASE b = a /\ u = t
  <2>0. \A x \in L : x.nth \in Nat
    BY DEF Listed, SentMessage
  <2>1. e.nth = Cardinality(L) /\ \A x \in L : x.nth < Cardinality(L)
    BY <1>3, <1>5
  <2>2. e \notin L
    BY <1>1, <2>1
  <2> HIDE DEF L
  <2>3. Cardinality(L \cup {e}) = Cardinality(L) + 1
    BY <1>1, <2>2, FS_AddElement
  <2>4. \A x \in L \cup {e} : x.nth < Cardinality(L) + 1
    <3> SUFFICES ASSUME NEW x \in L PROVE x.nth < Cardinality(L) + 1
      BY <1>1, <2>1
    <3> QED
      BY <1>1, <2>0, <2>1
  <2> QED
    BY <1>4, <1>5, <2>3, <2>4 DEF L
<1>6. CASE ~ (b = a /\ u = t)
  <2>1. after = Listed(a, t) /\ (IF b = a /\ u = t THEN 1 ELSE 0) = 0
    BY <1>4, <1>6
  <2>2. Cardinality(after) = Cardinality(Listed(a, t)) + 0
    <3>1. Cardinality(after) = Cardinality(Listed(a, t))
      BY <2>1, Zenon
    <3>2. Cardinality(Listed(a, t)) \in Nat
      BY <1>1
    <3> QED
      BY <3>1, <3>2
  <2>3. (\A x \in Listed(a, t) : x.nth < Cardinality(Listed(a, t)))
          => \A x \in after : x.nth < Cardinality(after)
    BY <2>1, Zenon
  <2> QED
    BY <2>1, <2>2, <2>3
<1> QED
  BY <1>5, <1>6

\* No period has another start and owner than one had before, or the new one has.
LEMMA OwnersAfterWrite ==
    ASSUME NEW p, WellFormed(p), NEW n \in Nat, n = Len(p), NEW k \in 1..n,
           NEW new \in WritePeriod, NEW i \in 1..Len(WithWrite(p, k, new))
    PROVE  LET q == WithWrite(p, k, new)
           IN  \/ q[i].start = new.start /\ q[i].agent = new.agent
               \/ \E j \in 1..n : q[i].start = p[j].start /\ q[i].agent = p[j].agent
<1> DEFINE q == WithWrite(p, k, new)
<1>1. IsWithWrite(q, p, n, k, CutShort(p, k, new), Placed(p, k, new))
  BY WithWriteElements
<1>2. p \in Seq(WritePeriod) /\ p[k] \in WritePeriod
  BY PeriodFields DEF WellFormed
<1>3. /\ CutShort(p, k, new).start = p[k].start /\ CutShort(p, k, new).agent = p[k].agent
      /\ Placed(p, k, new).start = new.start /\ Placed(p, k, new).agent = new.agent
  BY <1>2 DEF CutShort, Placed, WritePeriod
<1> HIDE DEF q
<1>4. i \in 1..(n + 1)
  BY <1>1 DEF q, IsWithWrite
<1>5. CASE i < k
  <2>1. i \in 1..(k - 1) /\ i \in 1..n
    BY <1>4, <1>5
  <2>2. q[i] = p[i]
    BY <1>1, <2>1 DEF IsWithWrite
  <2> QED
    BY <2>1, <2>2 DEF q
<1>6. CASE i = k
  BY <1>1, <1>3, <1>6 DEF IsWithWrite, q
<1>7. CASE i = k + 1
  BY <1>1, <1>3, <1>7 DEF IsWithWrite, q
<1>8. CASE i > k + 1
  <2>1. i - 1 \in (k + 1)..n /\ (i - 1) + 1 = i /\ i - 1 \in 1..n
    BY <1>4, <1>8
  <2>2. q[i] = p[i - 1]
    BY <1>1, <2>1 DEF IsWithWrite
  <2> QED
    BY <2>1, <2>2 DEF q
<1> QED
  BY <1>4, <1>5, <1>6, <1>7, <1>8

LEMMA OwnersAfterRetraction ==
    ASSUME NEW p, WellFormed(p), NEW n \in Nat, n = Len(p), NEW k \in 1..n,
           NEW i \in 1..Len(WithoutWrite(p, k))
    PROVE  \E j \in 1..n : /\ WithoutWrite(p, k)[i].start = p[j].start
                           /\ WithoutWrite(p, k)[i].agent = p[j].agent
<1> DEFINE q == WithoutWrite(p, k)
<1>1. IsWithoutWrite(q, p, n, k, TakingOver(p, k))
  BY WithoutWriteElements
<1>2. p \in Seq(WritePeriod) /\ \A j \in 1..n : p[j] \in WritePeriod
  BY PeriodFields DEF WellFormed
<1> HIDE DEF q
<1>3. i \in 1..(n - 1) /\ i \in 1..n /\ i + 1 \in 1..n
  BY <1>1 DEF q, IsWithoutWrite
<1>4. CASE i < k - 1
  BY <1>1, <1>3, <1>4 DEF IsWithoutWrite, q
<1>5. CASE i = k - 1
  <2>1. q[i] = TakingOver(p, k)
    BY <1>1, <1>3, <1>5 DEF IsWithoutWrite
  <2>2. TakingOver(p, k).start = p[i].start /\ TakingOver(p, k).agent = p[i].agent
    BY <1>2, <1>3, <1>5 DEF TakingOver, WritePeriod
  <2> QED
    BY <1>3, <2>1, <2>2 DEF q
<1>6. CASE i >= k
  BY <1>1, <1>3, <1>6 DEF IsWithoutWrite, q
<1> QED
  BY <1>3, <1>4, <1>5, <1>6

LEMMA OwnersAfterCollection ==
    ASSUME NEW p \in Seq(WritePeriod), NEW n \in Nat, n = Len(p), NEW gvt \in Nat,
           NEW k \in 1..n, NEW first \in 1..n, NEW q,
           IsCollected(q, p, n, k, first, StartingAt(p, k, gvt)),
           NEW i \in 1..Len(q), q[i].start > gvt
    PROVE  \E j \in 1..n : q[i].start = p[j].start /\ q[i].agent = p[j].agent
<1>1. i \in 1..(n - first + 1) /\ first + i - 1 \in 1..n
  BY DEF IsCollected
<1>2. q[i] = IF first + i - 1 = k THEN StartingAt(p, k, gvt) ELSE p[first + i - 1]
  BY <1>1 DEF IsCollected
<1>3. StartingAt(p, k, gvt).start = gvt
  BY StartingAtFields
<1>4. first + i - 1 # k
  BY <1>2, <1>3
<1> QED
  BY <1>1, <1>2, <1>4

LEMMA CountsAreNatural ==
    ASSUME IInv, NEW a \in Agent, NEW t
    PROVE  /\ Cardinality(PeriodsOf(writePeriods, a, t)) \in Nat
           /\ Cardinality(Listed(a, t)) \in Nat
           /\ IsFiniteSet(Listed(a, t))
           /\ Cardinality(WritesOf(antis[a.rank], a, t)) \in Nat
           /\ a.rank \in Ranks /\ antis[a.rank] \in Seq(AntiMessage)
<1>1. a.rank \in Ranks
  BY DEF Ranks
<1>2. writePeriods \in Seq(WritePeriod) /\ antis[a.rank] \in Seq(AntiMessage)
  BY <1>1 DEF IInv, TypeOK
<1>3. /\ PeriodsOf(writePeriods, a, t) \in SUBSET (1..Len(writePeriods))
      /\ WritesOf(antis[a.rank], a, t) \in SUBSET (1..Len(antis[a.rank]))
      /\ Len(writePeriods) \in Nat /\ Len(antis[a.rank]) \in Nat
  BY <1>2 DEF PeriodsOf, WritesOf
<1>4. Listed(a, t) \in SUBSET sendList /\ IsFiniteSet(sendList)
  BY DEF Listed, IInv
<1>5. IsFiniteSet(Listed(a, t)) /\ Cardinality(Listed(a, t)) \in Nat
  BY <1>4, FS_Subset, FS_CardinalityType
<1> QED
  BY <1>1, <1>2, <1>3, <1>5, PlacesFinite

LEMMA InitWritesInv == Init => WritesInv
<1> SUFFICES ASSUME Init PROVE WritesInv
  OBVIOUS
<1>1. Len(writePeriods) = 1 /\ writePeriods[1].start = 0 /\ fGVT = 0 /\ sendList = {}
  BY DEF Init
<1>2. \A r \in Ranks : antis[r] = << >> /\ ToSet(antis[r]) = {}
  BY DEF Init, ToSet
<1>3. InOwnTime
  BY <1>1, <1>2 DEF InOwnTime
<1>4. \A a, t : Listed(a, t) = {}
  BY <1>1 DEF Listed
<1>5. Balanced
  <2> SUFFICES ASSUME NEW a \in Agent, NEW t \in Uncontested, t > fGVT
               PROVE  IsBalanced(a, t)
    BY DEF Balanced
  <2>1. a.rank \in Ranks
    BY DEF Ranks
  <2>2. WritesOf(antis[a.rank], a, t) = {}
    BY <1>2, <2>1 DEF WritesOf
  <2>3. t \in Nat
    BY MaxTimeAssumption DEF Uncontested, Time
  <2>4. PeriodsOf(writePeriods, a, t) = {}
    BY <1>1, <2>3 DEF PeriodsOf
  <2> QED
    BY <1>4, <2>2, <2>4, FS_EmptySet DEF IsBalanced
<1> QED
  BY <1>3, <1>4, <1>5 DEF WritesInv, Numbered

\* A request: an accepted write adds a period and an entry of the send list.
LEMMA RequestKeepsWrites ==
    ASSUME IInv, BoundHolds, WritesInv, NEW b \in Agent, NEW u \in Time,
           \/ SingleRead(b, u) \/ SingleReadExits(b, u) \/ WriteFails(b, u)
           \/ \E v \in Value : WriteSucceeds(b, u, v)
    PROVE  WritesInv'
<1>1. /\ TypeOK /\ WellFormed(writePeriods) /\ IsFiniteSet(sendList)
      /\ writePeriods \in Seq(WritePeriod) /\ sendList \subseteq SentMessage
  BY DEF IInv, WellFormed, TypeOK
<1>2. UNCHANGED <<fGVT, antis>>
  BY DEF SingleRead, SingleReadExits, WriteFails, WriteSucceeds
<1>3. InOwnTime /\ Numbered /\ Balanced
  BY DEF WritesInv
<1>4. CASE SingleReadExits(b, u) \/ WriteFails(b, u)
  <2>1. UNCHANGED <<writePeriods, sendList>>
    BY <1>4 DEF SingleReadExits, WriteFails, Answered, agentVars
  <2> QED
    BY <1>2, <1>3, <2>1
    DEF WritesInv, InOwnTime, Numbered, Balanced, IsBalanced, Listed
<1>5. CASE SingleRead(b, u)
  <2> DEFINE ts == IF u < fGVT THEN fGVT ELSE u
  <2>1. PICK k \in 1..Len(writePeriods) :
          /\ writePeriods' = WithRead(writePeriods, k, b, ts)
          /\ Answered(b, u, {Sent("read", b, u, writePeriods[k].value)})
    BY <1>5 DEF SingleRead
  <2>2. MayRequest(b, u)
    BY <1>5 DEF SingleRead
  <2> HIDE DEF ts
  <2>3. PICK new : /\ sendList' = sendList \cup {new}
                   /\ new = Sent("read", b, u, writePeriods[k].value)
    BY <2>1 DEF Answered
  <2>4. new.kind = "read" /\ new.agent = b /\ new.time = u
    BY <2>3 DEF Sent
  <2>5. \A a, t : Listed(a, t)' = Listed(a, t)
    BY <2>3, <2>4 DEF Listed, IsWriteOf
  <2>9. IsReadChanged(writePeriods, writePeriods', k, b, ts)
    BY <2>1 DEF IsReadChanged
  <2>6. \A a, t : PeriodsOf(writePeriods', a, t) = PeriodsOf(writePeriods, a, t)
    BY <1>1, <2>9, WithReadPlaces
  <2>7. InOwnTime'
    <3>1. /\ Len(writePeriods') = Len(writePeriods)
          /\ \A i \in 1..Len(writePeriods) :
               /\ writePeriods'[i].start = writePeriods[i].start
               /\ writePeriods'[i].agent = writePeriods[i].agent
      BY <1>1, <2>9, WithReadOwners
    <3>2. u \in AgentTimes[b]
      BY <2>2 DEF MayRequest
    <3> QED
      BY <1>2, <1>3, <2>3, <2>4, <3>1, <3>2 DEF InOwnTime
  <2>8. Numbered' /\ Balanced'
    BY <1>2, <1>3, <2>5, <2>6 DEF Numbered, Balanced, IsBalanced
  <2> QED
    BY <2>7, <2>8 DEF WritesInv
<1>6. ASSUME NEW v \in Value, WriteSucceeds(b, u, v) PROVE WritesInv'
  <2> DEFINE new == [start |-> u, end |-> ULONG_MAX, value |-> v, agent |-> b,
                     reads |-> {}]
             entry == Sent("write", b, u, v)
  <2>1. sendList' = sendList \cup {entry} /\ u \in AgentTimes[b]
    BY <1>6 DEF WriteSucceeds, Answered, MayRequest
  <2>2. PICK n \in Nat : n = Len(writePeriods)
    BY <1>1
  <2>3. PICK k \in 1..n : writePeriods' = WithWrite(writePeriods, k, new)
    <3>1. writePeriods # << >>
      BY DEF BoundHolds
    <3> QED
      BY <1>6, <2>2, <3>1 DEF WriteSucceeds
  <2>4. new \in WritePeriod /\ new.start = u /\ new.agent = b
    <3>1. u \in GvtTime
      BY ConstantsAssumption, MaxTimeAssumption DEF Time, GvtTime
    <3> QED
      BY <3>1 DEF WritePeriod, LpIds
  <2> HIDE DEF new
  <2>5. InOwnTime'
    <3>1. ASSUME NEW i \in 1..Len(writePeriods'), writePeriods'[i].start > fGVT
          PROVE  /\ writePeriods'[i].agent \in Agent
                 /\ writePeriods'[i].start \in AgentTimes[writePeriods'[i].agent]
      <4>1. \/ writePeriods'[i].start = u /\ writePeriods'[i].agent = b
            \/ \E j \in 1..n : /\ writePeriods'[i].start = writePeriods[j].start
                               /\ writePeriods'[i].agent = writePeriods[j].agent
        BY <1>1, <2>2, <2>3, <2>4, <3>1, OwnersAfterWrite
      <4> QED
        BY <1>3, <2>1, <2>2, <3>1, <4>1 DEF InOwnTime
    <3>2. entry.agent = b /\ entry.time = u
      BY DEF Sent
    <3> HIDE DEF entry
    <3>3. \A e \in sendList' : e.time \in AgentTimes[e.agent]
      BY <1>3, <2>1, <3>2 DEF InOwnTime
    <3> QED
      BY <1>2, <1>3, <3>1, <3>3 DEF InOwnTime
  <2>6. ASSUME NEW a \in Agent, NEW t \in Time
        PROVE  /\ Cardinality(Listed(a, t)')
                    = Cardinality(Listed(a, t)) + (IF b = a /\ u = t THEN 1 ELSE 0)
               /\ \A e \in Listed(a, t)' : e.nth < Cardinality(Listed(a, t)')
    <3> DEFINE after == {e \in sendList \cup {Sent("write", b, u, v)} : IsWriteOf(e, a, t)}
    <3>1. Listed(a, t)' = after
      BY <2>1 DEF Listed, IsWriteOf
    <3>2. /\ \A e \in Listed(b, u) : e.nth < Cardinality(Listed(b, u))
          /\ \A e \in Listed(a, t) : e.nth < Cardinality(Listed(a, t))
      BY <1>3 DEF Numbered
    <3> HIDE DEF after
    <3>3. PICK A : /\ A = after
                   /\ A = {e \in sendList \cup {Sent("write", b, u, v)} : IsWriteOf(e, a, t)}
      BY DEF after
    <3>4. /\ Cardinality(A)
               = Cardinality(Listed(a, t)) + (IF b = a /\ u = t THEN 1 ELSE 0)
          /\ \A e \in A : e.nth < Cardinality(A)
      BY <1>1, <3>2, <3>3, ListedGrows
    <3> QED
      BY <3>1, <3>3, <3>4
  <2>7. Numbered'
    BY <2>6 DEF Numbered
  <2>8. Balanced'
    <3> SUFFICES ASSUME NEW a \in Agent, NEW t \in Uncontested, t > fGVT'
                 PROVE  IsBalanced(a, t)'
      BY DEF Balanced, Uncontested
    <3>1. t \in Time /\ IsBalanced(a, t)
      BY <1>2, <1>3 DEF Balanced, Uncontested
    <3>2. Cardinality(PeriodsOf(writePeriods', a, t))
            = Cardinality(PeriodsOf(writePeriods, a, t)) + (IF u = t /\ b = a THEN 1 ELSE 0)
      BY <1>1, <2>2, <2>3, <2>4, WithWritePlaces
    <3>3. Cardinality(Listed(a, t)')
            = Cardinality(Listed(a, t)) + (IF b = a /\ u = t THEN 1 ELSE 0)
      BY <2>6, <3>1
    <3>4. Cardinality(PeriodsOf(writePeriods', a, t))
            = Cardinality(Listed(a, t)') + Cardinality(WritesOf(antis[a.rank], a, t))
      BY <3>1, <3>2, <3>3, CountsAreNatural DEF IsBalanced
    <3> QED
      BY <1>2, <3>4 DEF IsBalanced
  <2> QED
    BY <2>5, <2>7, <2>8 DEF WritesInv
<1> QED
  BY <1>4, <1>5, <1>6

\* The anti-message at the head of a queue is counted no more.
LEMMA AntiLeaves ==
    ASSUME TypeOK, Addressed, NEW r \in Ranks, antis[r] # << >>,
           NEW queues, queues = [antis EXCEPT ![r] = Tail(@)], NEW a \in Agent, NEW t
    PROVE  /\ Cardinality(WritesOf(antis[a.rank], a, t))
                = Cardinality(WritesOf(queues[a.rank], a, t))
                    + (IF IsWriteOf(Head(antis[r]), a, t) THEN 1 ELSE 0)
           /\ Cardinality(WritesOf(queues[a.rank], a, t)) \in Nat
<1>1. a.rank \in Ranks
  BY DEF Ranks
<1>2. antis[r] \in Seq(AntiMessage) /\ antis[a.rank] \in Seq(AntiMessage)
  BY <1>1 DEF TypeOK
<1>3. queues[a.rank] = IF a.rank = r THEN Tail(antis[r]) ELSE antis[a.rank]
  BY <1>1 DEF TypeOK
<1>4. CASE a.rank = r
  <2>1. queues[a.rank] = Tail(antis[r]) /\ antis[a.rank] = antis[r]
    BY <1>3, <1>4
  <2>2. /\ Cardinality(WritesOf(antis[r], a, t))
             = Cardinality(WritesOf(Tail(antis[r]), a, t))
                 + (IF IsWriteOf(Head(antis[r]), a, t) THEN 1 ELSE 0)
        /\ Cardinality(WritesOf(Tail(antis[r]), a, t)) \in Nat
    BY <1>2, HeadLeaves
  <2> QED
    BY <2>1, <2>2
<1>5. CASE a.rank # r
  <2>1. Head(antis[r]) \in ToSet(antis[r])
    BY <1>2, Popped DEF TypeOK
  <2>2. ~ IsWriteOf(Head(antis[r]), a, t)
    BY <1>5, <2>1 DEF Addressed, IsWriteOf
  <2>3. queues[a.rank] = antis[a.rank]
    BY <1>3, <1>5
  <2>4. Cardinality(WritesOf(antis[a.rank], a, t)) \in Nat
    <3>1. /\ WritesOf(antis[a.rank], a, t) \in SUBSET (1..Len(antis[a.rank]))
          /\ Len(antis[a.rank]) \in Nat
      BY <1>2 DEF WritesOf
    <3> QED
      BY <3>1, PlacesFinite
  <2> QED
    BY <2>2, <2>3, <2>4
<1> QED
  BY <1>4, <1>5

\* An anti-message at the CLP.  A write's erases one period, and at a time that is
\* one agent's alone that period is the agent's.
LEMMA AntiMessageKeepsWrites ==
    ASSUME IInv, Addressed, WritesInv, NEW r \in Ranks,
           \/ AntiBeforeGvt(r) \/ SingleReadAnti(r)
           \/ WriteAnti(r) \/ WriteAntiWithoutEffect(r)
    PROVE  WritesInv'
<1> DEFINE m == Head(antis[r])
<1>1. /\ TypeOK /\ WellFormed(writePeriods) /\ writePeriods \in Seq(WritePeriod)
      /\ InOwnTime /\ Numbered /\ Balanced
  BY DEF IInv, WellFormed, WritesInv
<1>2. antis[r] # << >> /\ antis' = [antis EXCEPT ![r] = Tail(@)]
  BY DEF AntiBeforeGvt, SingleReadAnti, WriteAnti, WriteAntiWithoutEffect
<1>3. UNCHANGED <<fGVT, sendList>>
  BY DEF AntiBeforeGvt, SingleReadAnti, WriteAnti, WriteAntiWithoutEffect, agentVars
<1>4. /\ m \in AntiMessage /\ m \in ToSet(antis[r])
      /\ \A x \in Ranks : ToSet(antis'[x]) \subseteq ToSet(antis[x])
  BY <1>1, <1>2, QueueHead, Popped DEF TypeOK
<1>5. m.agent \in Agent /\ m.time \in Time /\ m.time \in AgentTimes[m.agent]
  BY <1>1, <1>4 DEF AntiMessage, InOwnTime
<1>6. PICK n \in Nat : n = Len(writePeriods)
  BY <1>1
<1>7. ASSUME NEW a \in Agent, NEW t
      PROVE  /\ Cardinality(WritesOf(antis[a.rank], a, t))
                  = Cardinality(WritesOf(antis'[a.rank], a, t))
                      + (IF IsWriteOf(m, a, t) THEN 1 ELSE 0)
             /\ Cardinality(WritesOf(antis'[a.rank], a, t)) \in Nat
  BY <1>1, <1>2, AntiLeaves
<1> HIDE DEF m
\* At an uncontested time after GVT the agent of a period is the agent of the time.
<1>8. ASSUME NEW i \in 1..n, writePeriods[i].start = m.time, m.time \in Uncontested,
             m.time > fGVT
      PROVE  writePeriods[i].agent = m.agent
  <2>1. /\ writePeriods[i].agent \in Agent
        /\ m.time \in AgentTimes[writePeriods[i].agent]
    BY <1>1, <1>6, <1>8 DEF InOwnTime
  <2> QED
    BY <1>5, <1>8, <2>1 DEF Uncontested
\* What is left to show: owners and starts, and the periods that are gone.
<1>9. SUFFICES
        /\ \A i \in 1..Len(writePeriods') : writePeriods'[i].start > fGVT =>
             \E j \in 1..n : /\ writePeriods'[i].start = writePeriods[j].start
                             /\ writePeriods'[i].agent = writePeriods[j].agent
        /\ \A a \in Agent, t \in Uncontested : t > fGVT =>
             Cardinality(PeriodsOf(writePeriods, a, t))
               = Cardinality(PeriodsOf(writePeriods', a, t))
                   + (IF IsWriteOf(m, a, t) THEN 1 ELSE 0)
             /\ Cardinality(PeriodsOf(writePeriods', a, t)) \in Nat
  <2> SUFFICES
        ASSUME \A i \in 1..Len(writePeriods') : writePeriods'[i].start > fGVT =>
                 \E j \in 1..n : /\ writePeriods'[i].start = writePeriods[j].start
                                 /\ writePeriods'[i].agent = writePeriods[j].agent,
               \A a \in Agent, t \in Uncontested : t > fGVT =>
                 Cardinality(PeriodsOf(writePeriods, a, t))
                   = Cardinality(PeriodsOf(writePeriods', a, t))
                       + (IF IsWriteOf(m, a, t) THEN 1 ELSE 0)
                 /\ Cardinality(PeriodsOf(writePeriods', a, t)) \in Nat
        PROVE  WritesInv'
    OBVIOUS
  <2>1. InOwnTime'
    <3>1. ASSUME NEW i \in 1..Len(writePeriods'), writePeriods'[i].start > fGVT
          PROVE  /\ writePeriods'[i].agent \in Agent
                 /\ writePeriods'[i].start \in AgentTimes[writePeriods'[i].agent]
      <4>1. PICK j \in 1..n : /\ writePeriods'[i].start = writePeriods[j].start
                              /\ writePeriods'[i].agent = writePeriods[j].agent
        BY <3>1
      <4> QED
        BY <1>1, <1>6, <3>1, <4>1 DEF InOwnTime
    <3>2. \A x \in Ranks : \A d \in ToSet(antis'[x]) : d.time \in AgentTimes[d.agent]
      BY <1>1, <1>4 DEF InOwnTime
    <3>3. \A e \in sendList' : e.time \in AgentTimes[e.agent]
      BY <1>1, <1>3 DEF InOwnTime
    <3> QED
      BY <1>3, <3>1, <3>2, <3>3 DEF InOwnTime
  <2>2. Numbered'
    BY <1>1, <1>3 DEF Numbered, Listed
  <2>3. Balanced'
    <3> SUFFICES ASSUME NEW a \in Agent, NEW t \in Uncontested, t > fGVT'
                 PROVE  IsBalanced(a, t)'
      BY DEF Balanced, Uncontested
    <3>1. IsBalanced(a, t)
      BY <1>1, <1>3 DEF Balanced
    <3>2. Listed(a, t)' = Listed(a, t)
      BY <1>3 DEF Listed, IsWriteOf
    <3>3. Cardinality(Listed(a, t)) \in Nat
      BY CountsAreNatural
    <3>4. /\ Cardinality(PeriodsOf(writePeriods, a, t))
               = Cardinality(PeriodsOf(writePeriods', a, t))
                   + (IF IsWriteOf(m, a, t) THEN 1 ELSE 0)
          /\ Cardinality(PeriodsOf(writePeriods', a, t)) \in Nat
      BY <1>3
    <3>5. Cardinality(PeriodsOf(writePeriods', a, t))
            = Cardinality(Listed(a, t)) + Cardinality(WritesOf(antis'[a.rank], a, t))
      BY <1>7, <3>1, <3>3, <3>4 DEF IsBalanced
    <3> QED
      BY <3>2, <3>5 DEF IsBalanced
  <2> QED
    BY <2>1, <2>2, <2>3 DEF WritesInv
<1>10. \A a \in Agent : \A t : Cardinality(PeriodsOf(writePeriods, a, t)) \in Nat
  BY CountsAreNatural
<1>11. CASE AntiBeforeGvt(r)
  <2>1. UNCHANGED writePeriods /\ fGVT > m.time
    BY <1>11 DEF AntiBeforeGvt, m
  <2>2. \A a \in Agent, t \in Uncontested : t > fGVT => ~ IsWriteOf(m, a, t)
    <3>1. fGVT \in Int /\ m.time \in Int /\ Uncontested \subseteq Int
      BY <1>1, <1>5, MaxTimeAssumption DEF TypeOK, GvtTime, Time, Uncontested
    <3> QED
      BY <2>1, <3>1 DEF IsWriteOf
  <2> QED
    BY <1>6, <1>10, <2>1, <2>2
<1>12. CASE SingleReadAnti(r)
  <2>1. m.kind = "read"
    BY <1>12 DEF SingleReadAnti, m
  <2>2. \A a, t : ~ IsWriteOf(m, a, t)
    BY <2>1 DEF IsWriteOf
  <2>3. \/ UNCHANGED writePeriods
        \/ \E k \in 1..Len(writePeriods) :
             writePeriods' = WithoutRead(writePeriods, k, m.agent, m.time)
    BY <1>12 DEF SingleReadAnti, m
  <2>4. CASE UNCHANGED writePeriods
    BY <1>6, <1>10, <2>2, <2>4
  <2>5. ASSUME NEW k \in 1..Len(writePeriods), NEW q, q = writePeriods',
               q = WithoutRead(writePeriods, k, m.agent, m.time)
        PROVE  /\ \A i \in 1..Len(q) : q[i].start > fGVT =>
                    \E j \in 1..n : /\ q[i].start = writePeriods[j].start
                                    /\ q[i].agent = writePeriods[j].agent
               /\ \A a \in Agent : \A t :
                    Cardinality(PeriodsOf(writePeriods, a, t)) = Cardinality(PeriodsOf(q, a, t))
    <3>0. IsReadChanged(writePeriods, q, k, m.agent, m.time)
      BY <2>5 DEF IsReadChanged
    <3>1. /\ Len(q) = Len(writePeriods)
          /\ \A i \in 1..Len(writePeriods) : /\ q[i].start = writePeriods[i].start
                                             /\ q[i].agent = writePeriods[i].agent
      BY <1>1, <3>0, WithReadOwners
    <3>2. \A a, t : PeriodsOf(q, a, t) = PeriodsOf(writePeriods, a, t)
      BY <1>1, <3>0, WithReadPlaces
    <3> QED
      BY <1>6, <3>1, <3>2
  <2> QED
    BY <1>10, <2>2, <2>3, <2>4, <2>5
<1>13. CASE WriteAnti(r)
  <2>1. m.kind = "write"
    BY <1>13 DEF WriteAnti, m
  <2>2. PICK k \in 1..n : /\ Retracts(writePeriods, m, k)
                          /\ writePeriods' = WithoutWrite(writePeriods, k)
    BY <1>6, <1>13 DEF WriteAnti, m
  <2>3. writePeriods[k].start = m.time
    BY <2>2 DEF Retracts, FirstStartingAt
  <2>4. ASSUME NEW i \in 1..Len(writePeriods')
        PROVE  \E j \in 1..n : /\ writePeriods'[i].start = writePeriods[j].start
                               /\ writePeriods'[i].agent = writePeriods[j].agent
    <3>1. PICK q : q = writePeriods'
      OBVIOUS
    <3>2. q = WithoutWrite(writePeriods, k) /\ i \in 1..Len(WithoutWrite(writePeriods, k))
      BY <2>2, <2>4, <3>1
    <3>3. \E j \in 1..n : /\ WithoutWrite(writePeriods, k)[i].start = writePeriods[j].start
                          /\ WithoutWrite(writePeriods, k)[i].agent = writePeriods[j].agent
      BY <1>1, <1>6, <2>2, <3>2, OwnersAfterRetraction
    <3> QED
      BY <3>1, <3>2, <3>3
  <2>5. ASSUME NEW a \in Agent, NEW t \in Uncontested, t > fGVT
        PROVE  /\ Cardinality(PeriodsOf(writePeriods, a, t))
                    = Cardinality(PeriodsOf(writePeriods', a, t))
                        + (IF IsWriteOf(m, a, t) THEN 1 ELSE 0)
               /\ Cardinality(PeriodsOf(writePeriods', a, t)) \in Nat
    <3>1. Cardinality(PeriodsOf(writePeriods, a, t))
            = Cardinality(PeriodsOf(writePeriods', a, t))
                + (IF writePeriods[k].start = t /\ writePeriods[k].agent = a THEN 1 ELSE 0)
      BY <1>1, <1>6, <2>2, WithoutWritePlaces
    <3>2. (writePeriods[k].start = t /\ writePeriods[k].agent = a) <=> IsWriteOf(m, a, t)
      BY <1>8, <2>1, <2>3, <2>5 DEF IsWriteOf
    <3>3. /\ PeriodsOf(writePeriods', a, t) \in SUBSET (1..Len(writePeriods'))
          /\ Len(writePeriods') \in Nat
      <4>1. IsWithoutWrite(WithoutWrite(writePeriods, k), writePeriods, n, k,
                           TakingOver(writePeriods, k))
        BY <1>1, <1>6, WithoutWriteElements
      <4>2. Len(writePeriods') = n - 1
        BY <2>2, <4>1 DEF IsWithoutWrite
      <4> QED
        BY <4>2 DEF PeriodsOf
    <3>4. Cardinality(PeriodsOf(writePeriods', a, t)) \in Nat
      BY <3>3, PlacesFinite
    <3> QED
      BY <3>1, <3>2, <3>4
  <2> QED
    BY <2>4, <2>5
<1>14. CASE WriteAntiWithoutEffect(r)
  <2>1. /\ UNCHANGED writePeriods /\ m.kind = "write"
        /\ ~ \E k \in 1..n : Retracts(writePeriods, m, k)
    BY <1>6, <1>14 DEF WriteAntiWithoutEffect, m
  <2>2. ASSUME NEW a \in Agent, NEW t \in Uncontested, t > fGVT, IsWriteOf(m, a, t)
        PROVE  FALSE
    <3> DEFINE starts == {i \in 1..n : writePeriods[i].start = t}
    <3>1. m.agent = a /\ m.time = t
      BY <2>2 DEF IsWriteOf
    <3>2. Cardinality(PeriodsOf(writePeriods, a, t)) # 0
      <4>1. IsBalanced(a, t)
        BY <1>1, <2>2 DEF Balanced
      <4>2. Cardinality(Listed(a, t)) \in Nat
        BY CountsAreNatural
      <4> QED
        BY <1>7, <2>2, <4>1, <4>2 DEF IsBalanced
    <3>3. PeriodsOf(writePeriods, a, t) # {}
      BY <3>2, FS_EmptySet
    <3>4. starts # {} /\ starts \in SUBSET Nat
      BY <1>6, <3>3 DEF PeriodsOf
    <3>5. PICK k : k \in starts /\ \A y \in starts : k <= y
      BY <3>4, MinInSet
    <3>6. FirstStartingAt(writePeriods, m.time, k)
      BY <1>6, <3>1, <3>5 DEF FirstStartingAt
    <3>7. writePeriods[k].agent = m.agent
      BY <1>8, <2>2, <3>1, <3>5
    <3> QED
      BY <2>1, <3>5, <3>6, <3>7 DEF Retracts, Differs
  <2> QED
    BY <1>6, <1>10, <2>1, <2>2
<1> QED
  BY <1>11, <1>12, <1>13, <1>14

\* A rollback at the ALP.  Of the writes of one agent at one time it undoes all or
\* none, and it sends an anti-message for each that it undoes.
LEMMA RollbackKeepsWrites ==
    ASSUME IInv, Addressed, BoundHolds, WritesInv, NEW r \in Ranks,
           \/ ProcessRollback(r) \/ RollbackBeforeGvt(r)
           \/ RollbackNotNeeded(r) \/ RollbackIgnoredForTag(r)
    PROVE  WritesInv'
<1> DEFINE m == Head(rollbacks[r])
<1>1. /\ TypeOK /\ InOwnTime /\ Numbered /\ Balanced /\ IsFiniteSet(sendList)
      /\ sendList \subseteq SentMessage
  BY DEF IInv, WritesInv, TypeOK
<1>2. rollbacks[r] # << >>
  BY DEF ProcessRollback, RollbackBeforeGvt, RollbackNotNeeded, RollbackIgnoredForTag
<1>3. UNCHANGED <<writePeriods, fGVT>>
  BY DEF ProcessRollback, RollbackBeforeGvt, RollbackNotNeeded, RollbackIgnoredForTag
<1>4. m \in RollbackMessage /\ m \in ToSet(rollbacks[r]) /\ m.agent.rank = r
  BY ZenonT(30), <1>1, <1>2, QueueHead, Popped DEF TypeOK, Addressed
<1>5. m.agent \in Agent /\ m.time \in Nat /\ fGVT \in Nat /\ Time \subseteq Nat
  BY <1>1, <1>4, ConstantsAssumption, MaxTimeAssumption
  DEF TypeOK, RollbackMessage, GvtTime, Time
<1> HIDE DEF m
<1>6. CASE RollbackNotNeeded(r) \/ RollbackIgnoredForTag(r)
  <2>1. UNCHANGED <<sendList, antis>>
    BY <1>6 DEF RollbackNotNeeded, RollbackIgnoredForTag, agentVars
  <2> QED
    BY <1>1, <1>3, <2>1
    DEF WritesInv, InOwnTime, Numbered, Balanced, IsBalanced, Listed
<1>7. CASE RollbackBeforeGvt(r)
  <2>1. fGVT <= m.time
    BY <1>4 DEF BoundHolds, NothingBeforeGvt
  <2>2. PICK e \in Undone(m) : e.time < fGVT
    BY <1>7 DEF RollbackBeforeGvt, m
  <2>3. e \in sendList
    BY <2>2 DEF Undone
  <2>4. e.time \in Nat /\ (e.kind = "read" \/ e.kind = "write")
    BY <1>1, <1>5, <2>3 DEF SentMessage
  <2>5. e.time >= m.time
    BY <1>5, <2>2, <2>4 DEF Undone
  <2> QED
    BY <1>5, <2>1, <2>2, <2>4, <2>5
<1>8. CASE ProcessRollback(r)
  <2>1. sendList' = sendList \ Undone(m)
    BY <1>8 DEF ProcessRollback, m
  <2>2. PICK q \in InSendOrder(Undone(m)) :
          antis' = [antis EXCEPT ![r] = @ \o
                      [i \in DOMAIN q |-> [kind |-> q[i].kind, agent |-> m.agent,
                                           time |-> q[i].time, tag |-> m.tag]]]
    BY <1>8 DEF ProcessRollback, m
  <2>3. PICK sent : /\ sent = [i \in DOMAIN q |->
                                 [kind |-> q[i].kind, agent |-> m.agent,
                                  time |-> q[i].time, tag |-> m.tag]]
                    /\ antis' = [antis EXCEPT ![r] = @ \o sent]
    BY <2>2
  <2> DEFINE Gone(a, t) == {e \in Undone(m) : IsWriteOf(e, a, t)}
  <2>4. ASSUME NEW a \in Agent, NEW t \in Time
        PROVE  \/ Listed(a, t)' = {} /\ Gone(a, t) = Listed(a, t) /\ a.rank = r
               \/ Listed(a, t)' = Listed(a, t) /\ Gone(a, t) = {}
    <3>1. CASE a = m.agent /\ t > m.time
      BY <1>4, <2>1, <3>1 DEF Listed, IsWriteOf, Undone
    <3>2. CASE ~ (a = m.agent /\ t > m.time)
      BY <2>1, <3>2 DEF Listed, IsWriteOf, Undone
    <3> QED
      BY <3>1, <3>2
  <2>5. ASSUME NEW a \in Agent, NEW t, a.rank = r
        PROVE  Cardinality(WritesOf(antis'[a.rank], a, t))
                 = Cardinality(WritesOf(antis[a.rank], a, t)) + Cardinality(Gone(a, t))
    <3>1. antis[r] \in Seq(AntiMessage) /\ antis'[r] = antis[r] \o sent
      BY <1>1, <2>3 DEF TypeOK
    <3>2. sent \in Seq(AntiMessage)
      BY <1>1, <1>4, <2>3, AntisOfRollback
    <3>3. Cardinality(WritesOf(antis[r] \o sent, a, t))
            = Cardinality(WritesOf(antis[r], a, t)) + Cardinality(WritesOf(sent, a, t))
      BY <3>1, <3>2, OthersJoin
    <3>4. Cardinality(WritesOf(sent, a, t)) = Cardinality(Gone(a, t))
      BY <1>1, <2>3, OneAntiEach
    <3> HIDE DEF Gone
    <3> QED
      BY <2>5, <3>1, <3>3, <3>4
  <2>6. \A a \in Agent : a.rank # r => antis'[a.rank] = antis[a.rank]
    BY <1>1, <2>3 DEF TypeOK, Ranks
  <2> HIDE DEF Gone
  <2>7. InOwnTime'
    <3>1. ASSUME NEW x \in Ranks, NEW d \in ToSet(antis'[x])
          PROVE  d.time \in AgentTimes[d.agent]
      <4>1. \/ d \in ToSet(antis[x])
            \/ /\ x = r /\ d.agent = m.agent
               /\ \E e \in Undone(m) : d.kind = e.kind /\ d.time = e.time
        BY SMTT(30), <1>1, <1>4, <2>3, <3>1, AntisSent
      <4>2. \A e \in Undone(m) : e.time \in AgentTimes[m.agent]
        BY <1>1 DEF InOwnTime, Undone
      <4> QED
        BY <1>1, <4>1, <4>2 DEF InOwnTime
    <3>2. \A e \in sendList' : e.time \in AgentTimes[e.agent]
      BY <1>1, <2>1 DEF InOwnTime
    <3> QED
      BY <1>1, <1>3, <3>1, <3>2 DEF InOwnTime
  <2>8. Numbered'
    <3> SUFFICES ASSUME NEW a \in Agent, NEW t \in Time, NEW e \in Listed(a, t)'
                 PROVE  e.nth < Cardinality(Listed(a, t)')
      BY DEF Numbered
    <3>1. Listed(a, t)' = Listed(a, t)
      BY <2>4
    <3>2. e \in Listed(a, t) /\ e.nth < Cardinality(Listed(a, t))
      BY <1>1, <3>1 DEF Numbered
    <3> QED
      BY <3>1, <3>2, Zenon
  <2>9. Balanced'
    <3> SUFFICES ASSUME NEW a \in Agent, NEW t \in Uncontested, t > fGVT'
                 PROVE  IsBalanced(a, t)'
      BY DEF Balanced, Uncontested
    <3>1. t \in Time /\ IsBalanced(a, t)
      BY <1>1, <1>3 DEF Balanced, Uncontested
    <3>2. /\ Cardinality(Listed(a, t)) \in Nat
          /\ Cardinality(WritesOf(antis[a.rank], a, t)) \in Nat
      BY CountsAreNatural
    <3>3. Cardinality({}) = 0
      BY FS_EmptySet
    <3>4. Cardinality(Listed(a, t)') + Cardinality(WritesOf(antis'[a.rank], a, t))
            = Cardinality(Listed(a, t)) + Cardinality(WritesOf(antis[a.rank], a, t))
      <4>1. CASE Listed(a, t)' = {} /\ Gone(a, t) = Listed(a, t) /\ a.rank = r
        <5>1. Cardinality(Listed(a, t)') = 0
          BY <3>3, <4>1, Zenon
        <5>2. Cardinality(Gone(a, t)) = Cardinality(Listed(a, t))
          BY <4>1, Zenon
        <5> QED
          BY <2>5, <3>2, <4>1, <5>1, <5>2
      <4>2. CASE Listed(a, t)' = Listed(a, t) /\ Gone(a, t) = {}
        <5>1. Cardinality(Listed(a, t)') = Cardinality(Listed(a, t))
          BY <4>2, Zenon
        <5>2. Cardinality(Gone(a, t)) = 0
          BY <3>3, <4>2, Zenon
        <5>3. Cardinality(WritesOf(antis'[a.rank], a, t))
                = Cardinality(WritesOf(antis[a.rank], a, t))
          <6>1. CASE a.rank = r
            BY <2>5, <3>2, <5>2, <6>1
          <6>2. CASE a.rank # r
            BY <2>6, <6>2
          <6> QED
            BY <6>1, <6>2
        <5> QED
          BY <5>1, <5>3
      <4> QED
        BY <2>4, <3>1, <4>1, <4>2
    <3> QED
      BY <1>3, <3>1, <3>4 DEF IsBalanced
  <2> QED
    BY <2>7, <2>8, <2>9 DEF WritesInv
<1> QED
  BY <1>6, <1>7, <1>8

\* A new GVT.  Periods and requests after it stay.
LEMMA SetGvtKeepsWrites ==
    ASSUME IInv, WritesInv, NEW gvt \in GvtTime, SetGvt(gvt)
    PROVE  WritesInv'
<1>1. /\ TypeOK /\ WellFormed(writePeriods) /\ writePeriods \in Seq(WritePeriod)
      /\ InOwnTime /\ Numbered /\ Balanced
      /\ gvt \in Nat /\ fGVT \in Nat /\ Time \subseteq Nat
  BY ConstantsAssumption, MaxTimeAssumption
  DEF IInv, TypeOK, WellFormed, WritesInv, GvtTime, Time
<1>2. /\ fGVT' = gvt /\ gvt > fGVT /\ UNCHANGED antis
      /\ sendList' = {e \in sendList : e.time >= gvt}
  BY DEF SetGvt
<1>3. ASSUME NEW a, NEW t \in Time
      PROVE  Listed(a, t)' = IF t >= gvt THEN Listed(a, t) ELSE {}
  BY <1>2 DEF Listed, IsWriteOf
<1>4. ASSUME NEW n \in Nat, n = Len(writePeriods), NEW k \in 1..n,
             StopsAt(writePeriods, gvt, k), NEW first \in 1..n,
             IsCollected(writePeriods', writePeriods, n, k, first,
                         StartingAt(writePeriods, k, gvt))
      PROVE  /\ \A i \in 1..Len(writePeriods') : writePeriods'[i].start > gvt =>
                  \E j \in 1..n : /\ writePeriods'[i].start = writePeriods[j].start
                                  /\ writePeriods'[i].agent = writePeriods[j].agent
             /\ \A a \in Agent, t \in Nat : t > gvt =>
                  Cardinality(PeriodsOf(writePeriods', a, t))
                    = Cardinality(PeriodsOf(writePeriods, a, t))
  <2>1. ASSUME NEW i \in 1..Len(writePeriods'), writePeriods'[i].start > gvt
        PROVE  \E j \in 1..n : /\ writePeriods'[i].start = writePeriods[j].start
                               /\ writePeriods'[i].agent = writePeriods[j].agent
    BY <1>1, <1>4, <2>1, OwnersAfterCollection
  <2>2. ASSUME NEW a \in Agent, NEW t \in Nat, t > gvt
        PROVE  Cardinality(PeriodsOf(writePeriods', a, t))
                 = Cardinality(PeriodsOf(writePeriods, a, t))
    BY <1>1, <1>4, <2>2, CollectedPlaces
  <2> QED
    BY <2>1, <2>2
<1>5. /\ \A i \in 1..Len(writePeriods') : writePeriods'[i].start > gvt =>
           \E j \in 1..Len(writePeriods) :
             /\ writePeriods'[i].start = writePeriods[j].start
             /\ writePeriods'[i].agent = writePeriods[j].agent
      /\ \A a \in Agent, t \in Nat : t > gvt =>
           Cardinality(PeriodsOf(writePeriods', a, t))
             = Cardinality(PeriodsOf(writePeriods, a, t))
  <2>1. CASE writePeriods' = writePeriods
    BY <2>1
  <2>2. CASE writePeriods' # writePeriods
    <3>1. PICK n \in Nat : /\ n = Len(writePeriods)
                           /\ \E k \in 1..n :
                                /\ StopsAt(writePeriods, gvt, k)
                                /\ \E first \in 1..n :
                                     IsCollected(writePeriods', writePeriods, n, k,
                                       first, StartingAt(writePeriods, k, gvt))
      BY <2>2, CollectedList
    <3> QED
      BY <1>4, <3>1
  <2> QED
    BY <2>1, <2>2
<1>6. InOwnTime'
  <2>1. ASSUME NEW i \in 1..Len(writePeriods'), writePeriods'[i].start > gvt
        PROVE  /\ writePeriods'[i].agent \in Agent
               /\ writePeriods'[i].start \in AgentTimes[writePeriods'[i].agent]
    <3>1. PICK j \in 1..Len(writePeriods) :
            /\ writePeriods'[i].start = writePeriods[j].start
            /\ writePeriods'[i].agent = writePeriods[j].agent
      BY <1>5, <2>1
    <3>2. writePeriods[j].start \in Nat /\ writePeriods[j].start > gvt
      BY <1>1, <2>1, <3>1, PeriodFields
    <3>3. writePeriods[j].start > fGVT
      BY <1>1, <1>2, <3>2
    <3> QED
      BY <1>1, <3>1, <3>3 DEF InOwnTime
  <2>2. \A e \in sendList' : e.time \in AgentTimes[e.agent]
    BY <1>1, <1>2 DEF InOwnTime
  <2> QED
    BY <1>1, <1>2, <2>1, <2>2 DEF InOwnTime
<1>7. Numbered'
  <2> SUFFICES ASSUME NEW a \in Agent, NEW t \in Time, NEW e \in Listed(a, t)'
               PROVE  e.nth < Cardinality(Listed(a, t)')
    BY DEF Numbered
  <2>1. Listed(a, t)' = Listed(a, t)
    BY <1>3
  <2>2. e \in Listed(a, t) /\ e.nth < Cardinality(Listed(a, t))
    BY <1>1, <2>1 DEF Numbered
  <2> QED
    BY <2>1, <2>2, Zenon
<1>8. Balanced'
  <2> SUFFICES ASSUME NEW a \in Agent, NEW t \in Uncontested, t > gvt
               PROVE  IsBalanced(a, t)'
    BY <1>2 DEF Balanced, Uncontested
  <2>1. t \in Time /\ t \in Nat
    BY <1>1 DEF Uncontested
  <2>2. t > fGVT /\ t >= gvt
    BY <1>1, <1>2, <2>1
  <2>3. IsBalanced(a, t)
    BY <1>1, <2>2 DEF Balanced
  <2>4. Listed(a, t)' = Listed(a, t)
    BY <1>3, <2>1, <2>2
  <2>5. Cardinality(PeriodsOf(writePeriods', a, t)) = Cardinality(PeriodsOf(writePeriods, a, t))
    BY <1>5, <2>1
  <2> QED
    BY <1>2, <2>3, <2>4, <2>5 DEF IsBalanced
<1> QED
  BY <1>6, <1>7, <1>8 DEF WritesInv

LEMMA NextKeepsWrites ==
    IInv /\ GvtInv /\ (gvtSafe => WritesInv) /\ [Next]_vars => (gvtSafe => WritesInv)'
<1> SUFFICES ASSUME IInv, GvtInv, gvtSafe => WritesInv, [Next]_vars, gvtSafe'
             PROVE  WritesInv'
  OBVIOUS
<1>1. CASE UNCHANGED vars
  BY <1>1 DEF vars, WritesInv, InOwnTime, Numbered, Balanced, IsBalanced, Listed
<1>2. CASE Next
  <2>1. gvtSafe
    BY ZenonT(30), <1>2 DEF Next, SingleRead, SingleReadExits, WriteFails, WriteSucceeds,
       AntiBeforeGvt, SingleReadAnti, WriteAnti, WriteAntiWithoutEffect,
       ProcessRollback, RollbackBeforeGvt, RollbackNotNeeded, RollbackIgnoredForTag,
       SetGvt
  <2>2. BoundHolds /\ Addressed /\ WritesInv
    BY <2>1 DEF GvtInv
  <2>3. ASSUME NEW a \in Agent, NEW t \in Time,
               \/ SingleRead(a, t) \/ SingleReadExits(a, t) \/ WriteFails(a, t)
               \/ \E v \in Value : WriteSucceeds(a, t, v)
        PROVE  WritesInv'
    BY <2>2, <2>3, RequestKeepsWrites
  <2>4. ASSUME NEW r \in Ranks,
               \/ AntiBeforeGvt(r) \/ SingleReadAnti(r)
               \/ WriteAnti(r) \/ WriteAntiWithoutEffect(r)
        PROVE  WritesInv'
    BY <2>2, <2>4, AntiMessageKeepsWrites
  <2>5. ASSUME NEW r \in Ranks,
               \/ ProcessRollback(r) \/ RollbackBeforeGvt(r)
               \/ RollbackNotNeeded(r) \/ RollbackIgnoredForTag(r)
        PROVE  WritesInv'
    BY <2>2, <2>5, RollbackKeepsWrites
  <2>6. ASSUME NEW gvt \in GvtTime, SetGvt(gvt) PROVE WritesInv'
    BY <2>2, <2>6, SetGvtKeepsWrites
  <2> QED
    BY <1>2, <2>3, <2>4, <2>5, <2>6 DEF Next
<1> QED
  BY <1>1, <1>2

\* A period that is counted is there, and so is its write.
LEMMA CountedIsThere ==
    ASSUME IInv, Addressed, NEW a \in Agent, NEW t, IsBalanced(a, t)
    PROVE  (\E p \in ToSet(writePeriods) : p.start = t /\ p.agent = a)
             <=> \E e \in sendList \cup AntisInFlight : IsWriteOf(e, a, t)
<1> DEFINE P == PeriodsOf(writePeriods, a, t)
           L == Listed(a, t)
           Q == WritesOf(antis[a.rank], a, t)
<1>1. /\ Cardinality(P) \in Nat /\ Cardinality(L) \in Nat /\ Cardinality(Q) \in Nat
      /\ IsFiniteSet(L) /\ a.rank \in Ranks /\ antis[a.rank] \in Seq(AntiMessage)
  BY CountsAreNatural
<1>2. IsFiniteSet(P) /\ IsFiniteSet(Q)
  <2>1. writePeriods \in Seq(WritePeriod)
    BY DEF IInv, TypeOK
  <2>2. /\ Len(writePeriods) \in Nat /\ P \in SUBSET (1..Len(writePeriods))
        /\ Len(antis[a.rank]) \in Nat /\ Q \in SUBSET (1..Len(antis[a.rank]))
    BY <1>1, <2>1 DEF PeriodsOf, WritesOf
  <2> QED
    BY <2>2, PlacesFinite
<1>3. P # {} <=> \E p \in ToSet(writePeriods) : p.start = t /\ p.agent = a
  <2>1. DOMAIN writePeriods = 1..Len(writePeriods)
    BY DEF IInv, TypeOK
  <2> QED
    BY <2>1 DEF ToSet, PeriodsOf
<1>4. L # {} <=> \E e \in sendList : IsWriteOf(e, a, t)
  BY DEF Listed
<1>5. Q # {} <=> \E e \in AntisInFlight : IsWriteOf(e, a, t)
  <2>1. DOMAIN antis[a.rank] = 1..Len(antis[a.rank])
    BY <1>1
  <2>2. Q # {} <=> \E e \in ToSet(antis[a.rank]) : IsWriteOf(e, a, t)
    BY <2>1 DEF ToSet, WritesOf
  <2>3. \A r \in Ranks : \A e \in ToSet(antis[r]) : IsWriteOf(e, a, t) => r = a.rank
    BY DEF Addressed, IsWriteOf
  <2> QED
    BY <1>1, <2>2, <2>3 DEF AntisInFlight
<1>6. Cardinality(P) = Cardinality(L) + Cardinality(Q)
  BY DEF IsBalanced
<1> HIDE DEF P, L, Q
<1>7. /\ P = {} <=> Cardinality(P) = 0
      /\ L = {} <=> Cardinality(L) = 0
      /\ Q = {} <=> Cardinality(Q) = 0
  BY <1>1, <1>2, FS_EmptySet
<1>8. P # {} <=> L # {} \/ Q # {}
  BY <1>1, <1>6, <1>7
<1> QED
  BY <1>3, <1>4, <1>5, <1>8

\* At every time that is one agent's alone the history after GVT is exactly what was
\* accepted and is not retracted yet: the periods after GVT are the writes on the
\* send lists and the write anti-messages on their way (StateVariable.cpp:121-297,
\* HasSendList.cpp:25-100).
THEOREM HistoryAlwaysAcceptedWrites == Spec => []HistoryIsAcceptedWrites
<1>1. Init => (gvtSafe => WritesInv)
  BY InitWritesInv
<1>2. IInv /\ GvtInv /\ (gvtSafe => WritesInv) /\ [Next]_vars => (gvtSafe => WritesInv)'
  BY NextKeepsWrites
<1>3. IInv /\ GvtInv /\ (gvtSafe => WritesInv) => HistoryIsAcceptedWrites
  <2> SUFFICES ASSUME IInv, Addressed, WritesInv
               PROVE  {w \in PeriodsAfterGvt : w.time \in Uncontested}
                        = {w \in WritesAfterGvt : w.time \in Uncontested}
    BY DEF GvtInv, HistoryIsAcceptedWrites
  <2>1. ASSUME NEW a \in Agent, NEW t \in Uncontested, t > fGVT
        PROVE  (\E p \in ToSet(writePeriods) : p.start = t /\ p.agent = a)
                 <=> \E e \in sendList \cup AntisInFlight : IsWriteOf(e, a, t)
    BY <2>1, CountedIsThere DEF WritesInv, Balanced
  <2>2. \A p \in ToSet(writePeriods) : p.start > fGVT => p.agent \in Agent
    <3>1. DOMAIN writePeriods = 1..Len(writePeriods)
      BY DEF IInv, TypeOK
    <3> QED
      BY <3>1 DEF ToSet, WritesInv, InOwnTime
  <2>3. \A e \in sendList \cup AntisInFlight : e.agent \in Agent
    <3>1. \A e \in sendList : e.agent \in Agent
      BY DEF IInv, TypeOK, SentMessage
    <3>2. ASSUME NEW r \in Ranks, NEW e \in ToSet(antis[r]) PROVE e.agent \in Agent
      <4>1. antis[r] \in Seq(AntiMessage)
        BY DEF IInv, TypeOK
      <4>2. e \in AntiMessage
        BY <4>1 DEF ToSet
      <4> QED
        BY <4>2 DEF AntiMessage
    <3> QED
      BY <3>1, <3>2 DEF AntisInFlight
  <2>4. ASSUME NEW w \in PeriodsAfterGvt, w.time \in Uncontested
        PROVE  w \in WritesAfterGvt
    <3>1. PICK p \in ToSet(writePeriods) :
            p.start > fGVT /\ w = [agent |-> p.agent, time |-> p.start]
      BY DEF PeriodsAfterGvt
    <3>2. PICK e \in sendList \cup AntisInFlight : IsWriteOf(e, p.agent, p.start)
      BY <2>1, <2>2, <2>4, <3>1
    <3> QED
      BY <3>1, <3>2 DEF WritesAfterGvt, IsWriteOf
  <2>5. ASSUME NEW w \in WritesAfterGvt, w.time \in Uncontested
        PROVE  w \in PeriodsAfterGvt
    <3>1. PICK e \in sendList \cup AntisInFlight :
            /\ e.kind = "write" /\ e.time > fGVT
            /\ w = [agent |-> e.agent, time |-> e.time]
      BY DEF WritesAfterGvt
    <3>2. PICK p \in ToSet(writePeriods) : p.start = e.time /\ p.agent = e.agent
      BY <2>1, <2>3, <2>5, <3>1 DEF IsWriteOf
    <3> QED
      BY <3>1, <3>2 DEF PeriodsAfterGvt
  <2> QED
    BY <2>4, <2>5
<1> QED
  BY <1>1, <1>2, <1>3, SpecIInv, SpecGvtInv, PTL DEF Spec
=============================================================================
