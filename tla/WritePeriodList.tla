-------------------------- MODULE WritePeriodList --------------------------
(***************************************************************************)
(* The history of a shared state variable as data: the list of write       *)
(* periods (state/StateVariable.cpp, state/WritePeriod.cpp), what a read,  *)
(* a write, an anti-message and fossil collection make of it, and the      *)
(* RollbackList that gathers the readers they invalidate.  StateVariable   *)
(* puts these operators to work at one CLP, SsvMigration at several.       *)
(***************************************************************************)
EXTENDS Integers, FiniteSetsExt, SequencesExt

CONSTANT MaxTime  \* bound: last timestamp of a request

ASSUME MaxTimeAssumption == MaxTime \in Nat

Time == 0..MaxTime
GvtTime == 0..(MaxTime + 1)
LONG_MAX == MaxTime + 2     \* both are later than every time of a run
ULONG_MAX == MaxTime + 3

(***************************************************************************)
(* LpId: == compares both fields; !=, < and > hold only when both fields   *)
(* differ, are less, are greater.  Two keys of a map that are neither less *)
(* nor greater are one key: agents of the same rank.                       *)
(***************************************************************************)
Differs(a, b) == a.id # b.id /\ a.rank # b.rank
Greater(a, b) == a.id > b.id /\ a.rank > b.rank
SameKey(a, b) == ~Greater(a, b) /\ ~Greater(b, a)

(***************************************************************************)
(* The write period list.                                                  *)
(***************************************************************************)
\* The walk back from the end of the list stops at k: the last period that
\* starts at t or before.  No k satisfies it when the walk falls off the list.
StopsAt(periods, t, k) ==
    /\ k \in 1..Len(periods)
    /\ periods[k].start <= t
    /\ \A i \in (k + 1)..Len(periods) : periods[i].start > t

FallsOff(periods, t) == \A i \in 1..Len(periods) : periods[i].start > t

\* Mutant: the walk goes one period too far.
FirstStartingAfter(periods, t, k) ==
    /\ k \in 1..Len(periods)
    /\ periods[k].start > t
    /\ \A i \in 1..(k - 1) : periods[i].start <= t

\* The walk forward from the beginning stops at the first period that starts
\* at t.
FirstStartingAt(periods, t, k) ==
    /\ k \in 1..Len(periods)
    /\ periods[k].start = t
    /\ \A i \in 1..(k - 1) : periods[i].start # t

\* WritePeriod::Read: the reader is recorded in the period it read.
WithRead(periods, k, a, t) ==
    [periods EXCEPT ![k].reads = @ \cup {[agent |-> a, time |-> t]}]

\* Mutant: a read at the time of the write is not invalidated.
ReadsAfterExclusive(period, t) == {r \in period.reads : r.time > t}

ReadsAfterInclusive(period, t) == {r \in period.reads : r.time >= t}

\* The write is rejected: the period found starts at the same time and its
\* owner is greater.
TieBreakRejects(period, a, t) == period.start = t /\ Greater(period.agent, a)

\* Mutant: the reads of the period that is cut short stay where they are.
WithWriteKeepingReads(periods, k, new) ==
    LET cut == [periods EXCEPT ![k].end = new.start]
        end == IF k = Len(periods) THEN ULONG_MAX ELSE periods[k + 1].start
    IN  InsertAt(cut, k + 1, [new EXCEPT !.end = end])

\* A period new is put behind period k, which it cuts short.
WithWrite(periods, k, new) ==
    LET cut == [periods EXCEPT
                  ![k].end = new.start,
                  ![k].reads = @ \ ReadsAfterInclusive(periods[k], new.start)]
        end == IF k = Len(periods) THEN ULONG_MAX ELSE periods[k + 1].start
    IN  InsertAt(cut, k + 1, [new EXCEPT !.end = end])

\* Mutant: the period before keeps its end.
WithoutWriteKeepingEnd(periods, k) == RemoveAt(periods, k)

\* Period k is erased; the one before it, if there is one, takes over its time.
WithoutWrite(periods, k) ==
    LET end == IF k = Len(periods) THEN LONG_MAX ELSE periods[k].end
    IN  IF k = 1 THEN Tail(periods)
                 ELSE RemoveAt([periods EXCEPT ![k - 1].end = end], k)

\* RemoveWritePeriods: period k is in force at gvt; it starts at gvt now, and
\* the periods before the first one that starts at gvt are erased.
Collected(periods, k, gvt) ==
    [periods EXCEPT ![k].start = gvt,
                    ![k].reads = {r \in @ : r.time >= gvt}]

\* RemoveReadsByAgent compares with ==, agent and time.
WithoutRead(periods, k, a, t) ==
    [periods EXCEPT ![k].reads = @ \ {[agent |-> a, time |-> t]}]

\* Mutant: the ownership test is the wrong way round.
RetractsOthers(periods, m, k) ==
    /\ FirstStartingAt(periods, m.time, k)
    /\ Differs(periods[k].agent, m.agent)

\* The period a write's anti-message asks to be erased.
Retracts(periods, m, k) ==
    /\ FirstStartingAt(periods, m.time, k)
    /\ ~Differs(periods[k].agent, m.agent)

(***************************************************************************)
(* What a CLP makes of a request m at GVT gvt: the histories that may      *)
(* result, and whether a write was accepted.  None means exit(1).          *)
(***************************************************************************)
Stops(periods, t) == {k \in 1..Len(periods) : StopsAt(periods, t, k)}

Effect(periods, accepted) == [periods |-> periods, accepted |-> accepted]

\* Clp::ProcessMessage(SingleReadMessage).  A read before GVT reads at GVT.
ReadEffects(periods, m, gvt) ==
    LET ts == IF m.time < gvt THEN gvt ELSE m.time
    IN  {Effect(WithRead(periods, k, m.agent, ts), TRUE) : k \in Stops(periods, ts)}

\* StateVariable::WriteWithRollback, without its rollbacks.
WriteEffects(periods, m) ==
    LET new == [start |-> m.time, end |-> ULONG_MAX, value |-> m.value,
                agent |-> m.agent, reads |-> {}]
        accepting == {k \in Stops(periods, m.time) :
                        ~TieBreakRejects(periods[k], m.agent, m.time)}
    IN  CASE periods = << >> -> {Effect(<<new>>, TRUE)}
          [] periods # << >> /\ accepting = {} -> {Effect(periods, FALSE)}
          [] OTHER -> {Effect(WithWrite(periods, k, new), TRUE) : k \in accepting}

\* Clp::ProcessMessage(SingleReadAntiMessage).
ReadAntiEffects(periods, m, gvt) ==
    IF gvt > m.time
    THEN {Effect(periods, TRUE)}
    ELSE {Effect(WithoutRead(periods, k, m.agent, m.time), TRUE) :
            k \in Stops(periods, m.time)}

\* Clp::ProcessMessage(WriteAntiMessage), without its rollbacks.
WriteAntiEffects(periods, m, gvt) ==
    LET found == {k \in 1..Len(periods) : Retracts(periods, m, k)}
    IN  IF gvt > m.time \/ found = {}
        THEN {Effect(periods, TRUE)}
        ELSE {Effect(WithoutWrite(periods, k), TRUE) : k \in found}

Effects(periods, m, gvt) ==
    CASE m.type = "read" -> ReadEffects(periods, m, gvt)
      [] m.type = "write" -> WriteEffects(periods, m)
      [] m.type = "readAnti" -> ReadAntiEffects(periods, m, gvt)
      [] m.type = "writeAnti" -> WriteAntiEffects(periods, m, gvt)

\* StateVariable::RemoveWritePeriods.
CollectEffects(periods, gvt) ==
    IF FallsOff(periods, gvt)
    THEN {periods}
    ELSE UNION {{SubSeq(Collected(periods, k, gvt), first, Len(periods)) :
                   first \in {i \in 1..Len(periods) :
                                FirstStartingAt(Collected(periods, k, gvt), gvt, i)}} :
                 k \in Stops(periods, gvt)}

\* SharedState::Insert writes the periods of a copy one after the other.
Inserted(periods) ==
    LET Write(list, p) == (CHOOSE e \in WriteEffects(list, [time |-> p.start,
                             value |-> p.value, agent |-> p.agent]) : TRUE).periods
    IN  FoldLeft(Write, << >>, periods)

(***************************************************************************)
(* RollbackList: a map from LpId to the earliest time asked for.  calls is *)
(* the set of AddLp calls.  Agents that are one key share one entry, kept  *)
(* under the agent that came first; the order of the reads is not kept, so *)
(* any of them may be it.                                                  *)
(***************************************************************************)
Keys(calls) == {key \in SUBSET {c.agent : c \in calls} :
                  /\ \A c \in calls : \E a \in key : SameKey(a, c.agent)
                  /\ \A a, b \in key : SameKey(a, b) => a = b}

EarliestFor(calls, a) == Min({c.time : c \in {d \in calls : SameKey(d.agent, a)}})
=============================================================================
