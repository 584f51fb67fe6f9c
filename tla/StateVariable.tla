--------------------------- MODULE StateVariable ---------------------------
(***************************************************************************)
(* One shared state variable (SSV) of PDES-MAS, hosted by one CLP, and the *)
(* agents that read and write it optimistically.                           *)
(*                                                                         *)
(* The CLP keeps the variable's history as a list of write periods         *)
(* (state/StateVariable.cpp, state/WritePeriod.cpp), each with the agents  *)
(* that read it.  A write that arrives after a later read invalidates that *)
(* read: the read is taken out of the history and its agent is put on a    *)
(* RollbackList (lp/RollbackList.cpp), which the CLP turns into rollback   *)
(* messages.  The ALP answers a rollback with anti-messages for what the   *)
(* agent did after it.  Every SSV has a list of its own, so one variable   *)
(* is enough for what the list promises.                                   *)
(*                                                                         *)
(* Environment.  Messages between the CLP and one ALP arrive in the order  *)
(* they were sent.  An agent waits for every answer, so a request and its  *)
(* answer are one step here, taken when none of the ALP's anti-messages is *)
(* still in flight ahead of it.  Rollbacks are delivered at any later      *)
(* time.  SetGvt stands for the GVT round that GvtCalculator runs.         *)
(***************************************************************************)
EXTENDS WritePeriodList

CONSTANTS
    Agent,        \* LpId of the agents: a set of records [id, rank]
    Value,        \* the values written to the variable
    InitialValue, \* the value Clp::InitialSSV gives it
    AgentTimes,   \* [Agent -> SET of times] at which an agent may act
    MaxStamp,     \* bound: number of straggler writes that cause rollbacks
    SafeGvt       \* TRUE: GVT never passes an agent or a message in flight

\* The owner of the first write period (Clp::InitialSSV, LpId(0, 0)).
InitialOwner == [id |-> 0, rank |-> 0]
LpIds == Agent \cup {InitialOwner}

ASSUME ConstantsAssumption ==
    /\ MaxStamp \in Nat
    /\ IsFiniteSet(Agent)
    /\ Agent \subseteq [id: Nat \ {0}, rank: Nat \ {0}]
    /\ AgentTimes \in [Agent -> SUBSET Time]
    /\ InitialValue \in Value
    /\ SafeGvt \in BOOLEAN

\* Agent numbers are handed out rank by rank (rank * 100 + 1 + i).
ASSUME LpIdConvention ==
    \A a, b \in Agent : a.rank < b.rank => a.id < b.id

ReadRecord == [agent: Agent, time: GvtTime]
WritePeriod == [start: GvtTime, end: GvtTime \cup {LONG_MAX, ULONG_MAX},
                value: Value, agent: LpIds, reads: SUBSET ReadRecord]
Tag == [time: Time, stamp: 1..MaxStamp]
RollbackMessage == [agent: Agent, time: GvtTime, tag: Tag]
SentMessage == [kind: {"read", "write"}, agent: Agent, time: Time,
                value: Value, nth: Nat]
AntiMessage == [kind: {"read", "write"}, agent: Agent, time: Time, tag: Tag]

VARIABLES
    writePeriods,    \* StateVariable::fWritePeriodList
    fGVT,            \* the CLP's GVT
    running,         \* FALSE once the CLP process is gone (exit, undefined)
    agentLvt,        \* Alp::agent_lvt_map_
    stopped,         \* agents whose thread was aborted and not restarted
    sendList,        \* Alp's send list, each entry with the value it carried
    tagList,         \* Alp's rollback tag list, per rank
    stamp,           \* real-time stamps given to rollback tags so far
    rollbacks,       \* rollback messages in flight to each ALP, in order
    antis,           \* anti-messages in flight from each ALP, in order
    ignored,         \* history: rollbacks the ALP dropped for their tag
    gvtSafe          \* history: every GVT so far was one Promised allows

vars == <<writePeriods, fGVT, running, agentLvt, stopped, sendList, tagList, stamp,
          rollbacks, antis, ignored, gvtSafe>>
agentVars == <<agentLvt, stopped, sendList, tagList>>

Ranks == {a.rank : a \in Agent}

RollbacksInFlight == UNION {ToSet(rollbacks[r]) : r \in Ranks}
AntisInFlight == UNION {ToSet(antis[r]) : r \in Ranks}

TypeOK ==
    /\ writePeriods \in Seq(WritePeriod)
    /\ fGVT \in GvtTime
    /\ running \in BOOLEAN
    /\ agentLvt \in [Agent -> GvtTime]
    /\ stopped \subseteq Agent
    /\ sendList \subseteq SentMessage
    /\ tagList \in [Ranks -> SUBSET Tag]
    /\ stamp \in 0..MaxStamp
    /\ rollbacks \in [Ranks -> Seq(RollbackMessage)]
    /\ antis \in [Ranks -> Seq(AntiMessage)]
    /\ ignored \subseteq RollbackMessage
    /\ gvtSafe \in BOOLEAN

\* SendRollbacks: one message for each entry of the list.
WithRollbacksFor(calls, key, tag) ==
    [r \in Ranks |->
       IF \E a \in key : a.rank = r
       THEN LET a == CHOOSE a \in key : a.rank = r
            IN  Append(rollbacks[r], [agent |-> a, tag |-> tag,
                                      time |-> EarliestFor(calls, a)])
       ELSE rollbacks[r]]

-----------------------------------------------------------------------------
Init ==
    /\ writePeriods = << [start |-> 0, end |-> ULONG_MAX, value |-> InitialValue,
                          agent |-> InitialOwner, reads |-> {}] >>
    /\ fGVT = 0
    /\ running = TRUE
    /\ agentLvt = [a \in Agent |-> 0]
    /\ stopped = {}
    /\ sendList = {}
    /\ tagList = [r \in Ranks |-> {}]
    /\ stamp = 0
    /\ rollbacks = [r \in Ranks |-> << >>]
    /\ antis = [r \in Ranks |-> << >>]
    /\ ignored = {}
    /\ gvtSafe = TRUE

\* The agent may issue a request with timestamp t: Agent::Read*/Write* assert
\* that t is not before the LVT; its earlier anti-messages are ahead of it.
MayRequest(a, t) ==
    /\ running
    /\ a \notin stopped
    /\ t \in AgentTimes[a]
    /\ t >= agentLvt[a]
    /\ antis[a.rank] = << >>

\* What AddToSendList puts on the list.  An agent that is rolled back to the time
\* of a write of its own keeps that write (HasSendList.cpp:37) and may write at the
\* time again: the list then has both.
Sent(kind, a, t, v) ==
    [kind |-> kind, agent |-> a, time |-> t, value |-> v,
     nth |-> Cardinality({e \in sendList : e.kind = kind /\ e.agent = a /\ e.time = t})]

\* Mutant: the LVT skips a time.
AnsweredLate(a, t, entry) ==
    /\ agentLvt' = [agentLvt EXCEPT ![a] = t + 2]
    /\ sendList' = sendList \cup entry
    /\ UNCHANGED <<stopped, tagList>>

\* The answer is in: the request is on the send list and the LVT has moved on.
Answered(a, t, entry) ==
    /\ agentLvt' = [agentLvt EXCEPT ![a] = t + 1]
    /\ sendList' = sendList \cup entry
    /\ UNCHANGED <<stopped, tagList>>

\* Clp::ProcessMessage(SingleReadMessage).  A read before GVT reads at GVT.
SingleRead(a, t) ==
    LET ts == IF t < fGVT THEN fGVT ELSE t IN
    /\ MayRequest(a, t)
    /\ \E k \in 1..Len(writePeriods) :
         /\ StopsAt(writePeriods, ts, k)
         /\ writePeriods' = WithRead(writePeriods, k, a, ts)
         /\ Answered(a, t, {Sent("read", a, t, writePeriods[k].value)})
    /\ UNCHANGED <<fGVT, running, stamp, rollbacks, antis, ignored, gvtSafe>>

\* StateVariable::Read finds no period and calls exit(1).
SingleReadExits(a, t) ==
    /\ MayRequest(a, t)
    /\ FallsOff(writePeriods, IF t < fGVT THEN fGVT ELSE t)
    /\ running' = FALSE
    /\ UNCHANGED <<writePeriods, fGVT, agentVars, stamp, rollbacks, antis, ignored, gvtSafe>>

\* Clp::ProcessMessage(WriteMessage) with status writeSUCCESS: the rollbacks
\* for the reads it invalidates carry a new tag.
WriteSucceeds(a, t, v) ==
    LET new == [start |-> t, end |-> ULONG_MAX, value |-> v, agent |-> a,
                reads |-> {}] IN
    /\ MayRequest(a, t)
    /\ \/ /\ writePeriods = << >>
          /\ writePeriods' = << new >>
          /\ UNCHANGED <<stamp, rollbacks>>
       \/ \E k \in 1..Len(writePeriods) :
            LET calls == ReadsAfterInclusive(writePeriods[k], t)
                tag == [time |-> t, stamp |-> stamp + 1]
            IN
            /\ StopsAt(writePeriods, t, k)
            /\ ~TieBreakRejects(writePeriods[k], a, t)
            /\ writePeriods' = WithWrite(writePeriods, k, new)
            /\ IF calls = {}
               THEN UNCHANGED <<stamp, rollbacks>>
               ELSE /\ stamp < MaxStamp
                    /\ stamp' = stamp + 1
                    /\ \E key \in Keys(calls) :
                         rollbacks' = WithRollbacksFor(calls, key, tag)
    /\ Answered(a, t, {Sent("write", a, t, v)})
    /\ UNCHANGED <<fGVT, running, antis, ignored, gvtSafe>>

\* ... with status writeFAILURE: the ALP takes the write off its send list.
WriteFails(a, t) ==
    /\ MayRequest(a, t)
    /\ writePeriods # << >>
    /\ \/ FallsOff(writePeriods, t)
       \/ \E k \in 1..Len(writePeriods) :
            /\ StopsAt(writePeriods, t, k)
            /\ TieBreakRejects(writePeriods[k], a, t)
    /\ Answered(a, t, {})
    /\ UNCHANGED <<writePeriods, fGVT, running, stamp, rollbacks, antis, ignored, gvtSafe>>

\* An anti-message from before GVT is dropped.
AntiBeforeGvt(r) == LET m == Head(antis[r]) IN
    /\ running /\ antis[r] # << >>
    /\ fGVT > m.time
    /\ antis' = [antis EXCEPT ![r] = Tail(@)]
    /\ UNCHANGED <<writePeriods, fGVT, running, agentVars, stamp, rollbacks, ignored, gvtSafe>>

\* Clp::ProcessMessage(SingleReadAntiMessage).  PerformReadRollback has no
\* check for a walk that falls off the list: what follows is undefined.
SingleReadAnti(r) == LET m == Head(antis[r]) IN
    /\ running /\ antis[r] # << >>
    /\ m.kind = "read"
    /\ fGVT <= m.time
    /\ antis' = [antis EXCEPT ![r] = Tail(@)]
    /\ \/ /\ FallsOff(writePeriods, m.time)
          /\ running' = FALSE
          /\ UNCHANGED writePeriods
       \/ \E k \in 1..Len(writePeriods) :
            /\ StopsAt(writePeriods, m.time, k)
            /\ writePeriods' = WithoutRead(writePeriods, k, m.agent, m.time)
            /\ UNCHANGED running
    /\ UNCHANGED <<fGVT, agentVars, stamp, rollbacks, ignored, gvtSafe>>

\* Clp::ProcessMessage(WriteAntiMessage): the write is erased and its readers
\* are rolled back to its time, under the anti-message's own tag.
WriteAnti(r) == LET m == Head(antis[r]) IN
    /\ running /\ antis[r] # << >>
    /\ m.kind = "write"
    /\ fGVT <= m.time
    /\ antis' = [antis EXCEPT ![r] = Tail(@)]
    /\ \E k \in 1..Len(writePeriods) :
         LET calls == {[rd EXCEPT !.time = m.time] : rd \in writePeriods[k].reads}
         IN
         /\ Retracts(writePeriods, m, k)
         /\ writePeriods' = WithoutWrite(writePeriods, k)
         /\ \E key \in Keys(calls) :
              rollbacks' = WithRollbacksFor(calls, key, m.tag)
    /\ UNCHANGED <<fGVT, running, agentVars, stamp, ignored, gvtSafe>>

\* PerformWriteRollback finds no period that starts then, or one of another
\* owner: a warning, and nothing changes.
WriteAntiWithoutEffect(r) == LET m == Head(antis[r]) IN
    /\ running /\ antis[r] # << >>
    /\ m.kind = "write"
    /\ fGVT <= m.time
    /\ ~ \E k \in 1..Len(writePeriods) : Retracts(writePeriods, m, k)
    /\ antis' = [antis EXCEPT ![r] = Tail(@)]
    /\ UNCHANGED <<writePeriods, fGVT, running, agentVars, stamp, rollbacks, ignored, gvtSafe>>

(***************************************************************************)
(* Alp::ProcessRollback.  A tag that is on the list already stops the      *)
(* rollback, and so does a time that is not before the LVT; the tag is put *)
(* on the list in either case.                                             *)
(***************************************************************************)
\* Mutant: writes at the time of the rollback are undone too.
UndoneInclusive(m) == {e \in sendList : e.agent = m.agent /\ e.time >= m.time}

Undone(m) == {e \in sendList : /\ e.agent = m.agent
                               /\ \/ e.kind = "read" /\ e.time >= m.time
                                  \/ e.kind = "write" /\ e.time > m.time}

\* The send list is walked in the order the entries were sent.
InSendOrder(S) ==
    {q \in [1..Cardinality(S) -> S] :
       ToSet(q) = S /\ \A i, j \in DOMAIN q : i < j => q[i].time <= q[j].time}

ProcessRollback(r) == LET m == Head(rollbacks[r]) IN
    /\ rollbacks[r] # << >>
    /\ m.tag \notin tagList[r]
    /\ m.time < agentLvt[m.agent]
    /\ \A e \in Undone(m) : e.time >= fGVT
    /\ rollbacks' = [rollbacks EXCEPT ![r] = Tail(@)]
    /\ tagList' = [tagList EXCEPT ![r] = @ \cup {m.tag}]
    /\ agentLvt' = [agentLvt EXCEPT ![m.agent] = m.time]
    /\ stopped' = stopped \ {m.agent}
    /\ sendList' = sendList \ Undone(m)
    /\ \E q \in InSendOrder(Undone(m)) :
         antis' = [antis EXCEPT ![r] = @ \o
                     [i \in DOMAIN q |-> [kind |-> q[i].kind, agent |-> m.agent,
                                          time |-> q[i].time, tag |-> m.tag]]]
    /\ UNCHANGED <<writePeriods, fGVT, running, stamp, ignored, gvtSafe>>

\* A request from before GVT is among those to undo: the agent is set to GVT
\* and its thread, which has been aborted, is not started again.
RollbackBeforeGvt(r) == LET m == Head(rollbacks[r]) IN
    /\ rollbacks[r] # << >>
    /\ m.tag \notin tagList[r]
    /\ m.time < agentLvt[m.agent]
    /\ \E e \in Undone(m) : e.time < fGVT
    /\ rollbacks' = [rollbacks EXCEPT ![r] = Tail(@)]
    /\ tagList' = [tagList EXCEPT ![r] = @ \cup {m.tag}]
    /\ agentLvt' = [agentLvt EXCEPT ![m.agent] = fGVT]
    /\ stopped' = stopped \cup {m.agent}
    /\ sendList' = sendList \ Undone(m)
    /\ UNCHANGED <<writePeriods, fGVT, running, stamp, antis, ignored, gvtSafe>>

RollbackNotNeeded(r) == LET m == Head(rollbacks[r]) IN
    /\ rollbacks[r] # << >>
    /\ m.tag \notin tagList[r]
    /\ m.time >= agentLvt[m.agent]
    /\ rollbacks' = [rollbacks EXCEPT ![r] = Tail(@)]
    /\ tagList' = [tagList EXCEPT ![r] = @ \cup {m.tag}]
    /\ UNCHANGED <<writePeriods, fGVT, running, agentLvt, stopped, sendList, stamp,
                   antis, ignored, gvtSafe>>

RollbackIgnoredForTag(r) == LET m == Head(rollbacks[r]) IN
    /\ rollbacks[r] # << >>
    /\ m.tag \in tagList[r]
    /\ rollbacks' = [rollbacks EXCEPT ![r] = Tail(@)]
    /\ ignored' = ignored \cup {m}
    /\ UNCHANGED <<writePeriods, fGVT, running, agentVars, stamp, antis,
                   gvtSafe>>

\* What Mattern's algorithm promises of a GVT.
Promised(gvt) ==
    /\ \A a \in Agent : gvt <= agentLvt[a]
    /\ \A m \in RollbacksInFlight : gvt <= m.time
    /\ \A m \in AntisInFlight : gvt <= m.time

\* Clp::SetGvt with StateVariable::RemoveWritePeriods, and Alp::SetGvt.
SetGvt(gvt) ==
    /\ running
    /\ gvt > fGVT
    /\ SafeGvt => Promised(gvt)
    /\ fGVT' = gvt
    /\ gvtSafe' = (gvtSafe /\ Promised(gvt))
    /\ \/ FallsOff(writePeriods, gvt) /\ UNCHANGED writePeriods
       \/ \E k \in 1..Len(writePeriods) :
            /\ StopsAt(writePeriods, gvt, k)
            /\ \E first \in 1..Len(writePeriods) :
                 /\ FirstStartingAt(Collected(writePeriods, k, gvt), gvt, first)
                 /\ writePeriods' = SubSeq(Collected(writePeriods, k, gvt),
                                           first, Len(writePeriods))
    /\ sendList' = {e \in sendList : e.time >= gvt}
    /\ tagList' = [r \in Ranks |-> {tag \in tagList[r] : tag.time >= gvt}]
    /\ UNCHANGED <<running, agentLvt, stopped, stamp, rollbacks, antis, ignored>>

Next ==
    \/ \E a \in Agent, t \in Time :
         \/ SingleRead(a, t)
         \/ SingleReadExits(a, t)
         \/ WriteFails(a, t)
         \/ \E v \in Value : WriteSucceeds(a, t, v)
    \/ \E r \in Ranks :
         \/ AntiBeforeGvt(r)
         \/ SingleReadAnti(r)
         \/ WriteAnti(r)
         \/ WriteAntiWithoutEffect(r)
         \/ ProcessRollback(r)
         \/ RollbackBeforeGvt(r)
         \/ RollbackNotNeeded(r)
         \/ RollbackIgnoredForTag(r)
    \/ \E gvt \in GvtTime : SetGvt(gvt)

Spec == Init /\ [][Next]_vars

-----------------------------------------------------------------------------
(***************************************************************************)
(* Properties.                                                             *)
(***************************************************************************)
\* The periods tile virtual time without gap or overlap, whatever order
\* writes, anti-messages and fossil collection arrive in: each ends where the
\* next one starts, and the last is open-ended (StateVariable.cpp:121-297).
HistoryIsTiled ==
    \A i \in 1..Len(writePeriods) :
      /\ writePeriods[i].start <= writePeriods[i].end
      /\ IF i = Len(writePeriods)
         THEN writePeriods[i].end \in {LONG_MAX, ULONG_MAX}
         ELSE writePeriods[i].end = writePeriods[i + 1].start

\* A read is recorded in the period that covers its time, so the straggler
\* write that splits the period finds it (WritePeriod.cpp:89-97).
ReadsBelongToTheirPeriod ==
    \A i \in 1..Len(writePeriods) : \A r \in writePeriods[i].reads :
      writePeriods[i].start <= r.time /\ r.time < writePeriods[i].end

InForce(t, v) == \E k \in 1..Len(writePeriods) :
                    StopsAt(writePeriods, t, k) /\ writePeriods[k].value = v

Reported(e, messages) ==
    \E m \in messages : m.agent = e.agent /\ m.time <= e.time

\* Every read an agent still relies on saw the value that is in force at its
\* time now, or the CLP has sent its agent a rollback that reaches back to it:
\* no straggler write and no retraction invalidates a read silently.  Whether
\* the ALP then drops the rollback for its tag is another matter (Alp.cpp:320).
\* A GVT that was too late voids the promise, here and below.
StaleReadsAreReported ==
    gvtSafe =>
    \A e \in sendList : e.kind = "read" /\ e.time >= fGVT =>
      InForce(e.time, e.value) \/ Reported(e, RollbacksInFlight \cup ignored)

\* A read at GVT or later always finds a write period: the exit(1) of
\* StateVariable::Read and the unchecked walk of PerformReadRollback are out
\* of reach, because no anti-message erases the period that GVT rests on.
HistoryReachesGvt ==
    gvtSafe => /\ running
               /\ writePeriods # << >> /\ writePeriods[1].start <= fGVT

\* Two agents that may act at one time can both write then, in one order
\* (StateVariable.cpp:152-158), and a retraction takes the period it finds.
Uncontested == {t \in Time : \A a, b \in Agent :
                  t \in AgentTimes[a] \cap AgentTimes[b] => a = b}

WritesAfterGvt ==
    {[agent |-> e.agent, time |-> e.time] :
       e \in {m \in sendList \cup AntisInFlight : m.kind = "write" /\ m.time > fGVT}}
PeriodsAfterGvt ==
    {[agent |-> p.agent, time |-> p.start] :
       p \in {q \in ToSet(writePeriods) : q.start > fGVT}}

\* The history after GVT is exactly the writes that were accepted and are not
\* retracted yet, at every time that is one agent's alone: an anti-message
\* erases its own write and nothing else.
HistoryIsAcceptedWrites ==
    gvtSafe => {w \in PeriodsAfterGvt : w.time \in Uncontested}
                 = {w \in WritesAfterGvt : w.time \in Uncontested}

\* Fossil collection is invisible: a new GVT changes the value of no time that
\* can still be read (StateVariable.cpp:38-80).
FossilCollectionIsInvisible ==
    [][fGVT' # fGVT =>
         \A t \in fGVT'..MaxTime, v \in Value : InForce(t, v) <=> InForce(t, v)']_vars
=============================================================================
