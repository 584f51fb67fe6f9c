---------------------------- MODULE AlpRollback ----------------------------
(***************************************************************************)
(* The threads of one ALP around a rollback (lp/Alp.cpp).                  *)
(*                                                                         *)
(* Every agent is a thread that sends a request and waits for its answer   *)
(* (interface/Agent.cpp).  The send thread takes requests off the send     *)
(* queue, keeps a copy on the send list and transmits them.  The main loop *)
(* hands answers to the agents and carries out rollbacks: it aborts the    *)
(* agent's thread, removes what is still queued, sends an anti-message for *)
(* what is on the send list, and starts the agent again.  Queue, send list *)
(* and the agent's maps are shared by these threads; only the queue has a  *)
(* lock of its own.  The CLP is the environment: it answers requests in    *)
(* order and may roll back any read that it has recorded.                  *)
(*                                                                         *)
(* Left out: range queries, which take the path of the reads; GVT control  *)
(* messages, which only overtake in the send thread (GvtCalculator).       *)
(***************************************************************************)
EXTENDS Integers, FiniteSetsExt, SequencesExt

CONSTANTS
    Agent,          \* the agents of the ALP
    MaxTime,        \* bound: last timestamp of a request
    MaxRequests,    \* bound: requests of all agents
    Tag,            \* the tags of rollback messages
    MaxRollbacks,   \* bound: rollback messages sent by the CLP
    GvtTimes        \* the values a new GVT may take

Time == 0..MaxTime
Lvt == 0..(MaxTime + 1)
Id == 1..MaxRequests
NoId == 0           \* identifiers start at 1
None == [kind |-> "none"]

ASSUME ConstantsAssumption ==
    /\ IsFiniteSet(Agent)
    /\ {MaxTime, MaxRequests, MaxRollbacks} \subseteq Nat
    /\ GvtTimes \subseteq Lvt

Request == [kind: {"read", "write"}, agent: Agent, time: Time, id: Id]
\* An anti-message; the identifier of what it retracts is for the properties.
Anti == [kind: {"antiRead", "antiWrite"}, agent: Agent, time: Time, id: Id]
Response == [kind: {"answer", "failure"}, agent: Agent, id: Id]
Rollback == [kind: {"rollback"}, agent: Agent, time: Time, tag: Tag]

IsRequest(m) == m.kind \in {"read", "write"}

VARIABLES
    pc,          \* where the agent's thread is
    waitingFor,  \* the identifier of the agent's last request
    lvt,         \* agent_lvt_map_
    aborting,    \* agents whose thread is to abort at its next SyncPoint
    ready,       \* agents whose message_ready_ is set
    response,    \* agent_response_map_: the identifier of the answer
    awaited,     \* agent_response_message_id_map_
    sendQueue,   \* fSendMessageQueue
    hand,        \* the message the send thread has taken off the queue
    sendList,    \* fSendList
    tagList,     \* fRollbackTagList
    fGVT,
    main,        \* where the main loop is in ProcessRollback
    inbox,       \* what the CLP has sent and the main loop has not handled
    wire,        \* what was transmitted and the CLP has not handled
    recorded,    \* the requests that are in the CLP's history
    issued,      \* all requests made; its size gives the next identifier
    undone,      \* history: requests that a rollback has undone
    accepted,    \* history: answers taken by an agent, [id, of]
    budget,      \* rollbacks the CLP may still send
    met          \* history: what rollbacks have met, of Meetable

vars == <<pc, waitingFor, lvt, aborting, ready, response, awaited, sendQueue,
          hand, sendList, tagList, fGVT, main, inbox, wire, recorded, issued,
          undone, accepted, budget, met>>
agentVars == <<pc, waitingFor, issued, accepted>>
flagVars == <<aborting, ready, response>>
sendVars == <<sendQueue, hand, sendList>>
clpVars == <<wire, recorded, budget>>

Meetable == {"sending", "beforeGvt"}
Idle == [at |-> "idle"]
MainState == {Idle} \cup
             [at: {"join", "remove", "undo", "restart"}, rollback: Rollback]

TypeOK ==
    /\ pc \in [Agent -> {"running", "waiting", "ended"}]
    /\ waitingFor \in [Agent -> Id \cup {NoId}]
    /\ lvt \in [Agent -> Lvt]
    /\ aborting \subseteq Agent /\ ready \subseteq Agent
    /\ response \in [Agent -> Id \cup {NoId}]
    /\ awaited \in [Agent -> Id \cup {NoId}]
    /\ sendQueue \in Seq(Request \cup Anti)
    /\ hand \in [at: {"taken", "listed"}, m: Request \cup Anti] \cup {None}
    /\ sendList \subseteq Request
    /\ tagList \subseteq Tag
    /\ fGVT \in Lvt
    /\ main \in MainState
    /\ inbox \in Seq(Response \cup Rollback)
    /\ wire \in Seq(Request \cup Anti)
    /\ recorded \subseteq Request /\ issued \subseteq Request
    /\ undone \subseteq Id
    /\ accepted \subseteq [id: Id, of: Id]
    /\ budget \in 0..MaxRollbacks
    /\ met \subseteq Meetable

-----------------------------------------------------------------------------
Init ==
    /\ pc = [a \in Agent |-> "running"]
    /\ waitingFor = [a \in Agent |-> NoId]
    /\ lvt = [a \in Agent |-> 0]
    /\ aborting = {} /\ ready = {}
    /\ response = [a \in Agent |-> NoId]
    /\ awaited = [a \in Agent |-> NoId]
    /\ sendQueue = << >>
    /\ hand = None
    /\ sendList = {}
    /\ tagList = {}
    /\ fGVT = 0
    /\ main = Idle
    /\ inbox = << >>
    /\ wire = << >>
    /\ recorded = {}
    /\ issued = {}
    /\ undone = {}
    /\ accepted = {}
    /\ budget = MaxRollbacks
    /\ met = {}

(***************************************************************************)
(* An agent's thread.                                                      *)
(***************************************************************************)
\* Send*MessageAndGetResponse, up to the wait.
SendRequest(a, kind, t) ==
    LET id == Cardinality(issued) + 1
        m == [kind |-> kind, agent |-> a, time |-> t, id |-> id]
    IN
    /\ pc[a] = "running"
    /\ t >= lvt[a]
    /\ id \in Id
    /\ issued' = issued \cup {m}
    /\ sendQueue' = Append(sendQueue, m)
    /\ pc' = [pc EXCEPT ![a] = "waiting"]
    /\ waitingFor' = [waitingFor EXCEPT ![a] = id]
    /\ UNCHANGED <<lvt, flagVars, awaited, hand, sendList, tagList, fGVT, main,
                   inbox, clpVars, undone, accepted>>

\* Mutant: the new LVT is one too late.
SetAgentLvtBeyond(old, new) == IF old <= new THEN new + 1 ELSE old

\* SetAgentLvt never sets the LVT back.
SetAgentLvt(old, new) == IF old <= new THEN new ELSE old

\* The wait is over: the flag is reset, the answer fetched and the LVT set.
TakeResponse(a) == LET t == CHOOSE t \in Lvt : \E q \in issued :
                                q.id = waitingFor[a] /\ t = q.time + 1 IN
    /\ pc[a] = "waiting"
    /\ a \in ready /\ a \notin aborting
    /\ ready' = ready \ {a}
    /\ accepted' = accepted \cup {[id |-> response[a], of |-> waitingFor[a]]}
    /\ lvt' = [lvt EXCEPT ![a] = SetAgentLvt(@, t)]
    /\ pc' = [pc EXCEPT ![a] = "running"]
    /\ UNCHANGED <<waitingFor, issued, aborting, response, awaited, sendVars,
                   tagList, fGVT, main, inbox, clpVars, undone>>

\* SyncPoint throws in a thread that waits.
Aborts(a) ==
    /\ pc[a] = "waiting" /\ a \in aborting
    /\ pc' = [pc EXCEPT ![a] = "ended"]
    /\ UNCHANGED <<waitingFor, issued, accepted, lvt, flagVars, awaited, sendVars,
                   tagList, fGVT, main, inbox, clpVars, undone>>

\* Body returns: the agent is at its end time (or out of requests, by the
\* bound) and the cancel flag is set.
BodyReturns(a) ==
    /\ pc[a] = "running" /\ a \in aborting
    /\ lvt[a] > MaxTime \/ Cardinality(issued) = MaxRequests
    /\ pc' = [pc EXCEPT ![a] = "ended"]
    /\ UNCHANGED <<waitingFor, issued, accepted, lvt, flagVars, awaited, sendVars,
                   tagList, fGVT, main, inbox, clpVars, undone>>

(***************************************************************************)
(* The send thread, Alp::Send.                                             *)
(***************************************************************************)
TakeFromQueue ==
    /\ hand = None
    /\ sendQueue # << >>
    /\ hand' = [at |-> "taken", m |-> Head(sendQueue)]
    /\ sendQueue' = Tail(sendQueue)
    /\ UNCHANGED <<agentVars, lvt, flagVars, awaited, sendList, tagList, fGVT,
                   main, inbox, clpVars, undone>>

\* AddToSendList, for a request.
ListRequest ==
    /\ hand # None /\ hand.at = "taken"
    /\ sendList' = IF IsRequest(hand.m) THEN sendList \cup {hand.m} ELSE sendList
    /\ hand' = [hand EXCEPT !.at = "listed"]
    /\ UNCHANGED <<agentVars, lvt, flagVars, awaited, sendQueue, tagList, fGVT,
                   main, inbox, clpVars, undone>>

\* Mutant: nobody notes that the agent waits for this message.
TransmitUnnoted == wire' = Append(wire, hand.m) /\ UNCHANGED awaited

Transmitted ==
    /\ wire' = Append(wire, hand.m)
    /\ awaited' = IF IsRequest(hand.m)
                  THEN [awaited EXCEPT ![hand.m.agent] = hand.m.id] ELSE awaited

Transmit ==
    /\ hand # None /\ hand.at = "listed"
    /\ Transmitted
    /\ hand' = None
    /\ UNCHANGED <<agentVars, lvt, flagVars, sendQueue, sendList, tagList, fGVT,
                   main, inbox, recorded, budget, undone>>

(***************************************************************************)
(* The main loop.                                                          *)
(***************************************************************************)
Handles(kinds) ==
    /\ main = Idle
    /\ inbox # << >> /\ Head(inbox).kind \in kinds
    /\ inbox' = Tail(inbox)

\* Mutant: any answer wakes the agent.
WakesAnyway(m) == TRUE

\* The answer's identifier is the awaited one.
IsAwaited(m) == awaited[m.agent] = m.id

\* ProcessMessage of a response: a write that failed leaves the send list, and
\* the agent is told if it is the answer it waits for.
ReceiveResponse == LET m == Head(inbox) IN
    /\ Handles({"answer", "failure"})
    /\ sendList' = IF m.kind = "failure" THEN {e \in sendList : e.id # m.id}
                                         ELSE sendList
    /\ IF IsAwaited(m)
       THEN /\ response' = [response EXCEPT ![m.agent] = m.id]
            /\ ready' = ready \cup {m.agent}
       ELSE UNCHANGED <<response, ready>>
    /\ UNCHANGED <<agentVars, lvt, aborting, awaited, sendQueue, hand, tagList,
                   fGVT, main, clpVars, undone>>

\* The tag is known, or the time is not before the LVT.
DismissRollback == LET m == Head(inbox) IN
    /\ Handles({"rollback"})
    /\ m.tag \in tagList \/ m.time >= lvt[m.agent]
    /\ tagList' = tagList \cup {m.tag}
    /\ UNCHANGED <<agentVars, lvt, flagVars, awaited, sendVars, fGVT, main,
                   clpVars, undone>>

\* Mutant: the agent's thread is not told.
NotToldToAbort(a) == aborting

ToldToAbort(a) == aborting \cup {a}

\* Abort, SetCancelFlag and ResetMessageArriveFlag.
BeginRollback == LET m == Head(inbox) IN
    /\ Handles({"rollback"})
    /\ m.tag \notin tagList /\ m.time < lvt[m.agent]
    /\ tagList' = tagList \cup {m.tag}
    /\ aborting' = ToldToAbort(m.agent)
    /\ ready' = ready \ {m.agent}
    /\ main' = [at |-> "join", rollback |-> m]
    /\ UNCHANGED <<agentVars, lvt, response, awaited, sendVars, fGVT, clpVars,
                   undone>>

\* Mutant: the main loop does not wait for the agent's thread.
NeedNotEnd(a) == TRUE

HasEnded(a) == pc[a] = "ended"

\* Join returns, and the LVT is set back.
JoinAgent == LET m == main.rollback IN
    /\ main.at = "join"
    /\ HasEnded(m.agent)
    /\ lvt' = [lvt EXCEPT ![m.agent] = m.time]
    /\ main' = [main EXCEPT !.at = "remove"]
    /\ UNCHANGED <<agentVars, flagVars, awaited, sendVars, tagList, fGVT, inbox,
                   clpVars, undone>>

\* Mutant: writes are not undone.
OnlyReadsUndone(q, m) == q.agent = m.agent /\ q.kind = "read" /\ q.time >= m.time

\* Reads from the time of the rollback on, writes after it.
IsUndone(q, m) ==
    /\ q.agent = m.agent
    /\ \/ q.kind = "read" /\ q.time >= m.time
       \/ q.kind = "write" /\ q.time > m.time

\* The one way to count the numbers of S in their order.
InOrder(S) == {f \in [1..Cardinality(S) -> S] : \A i, j \in DOMAIN f : i < j => f[i] < f[j]}

\* MessageQueue::RemoveMessages: what stays keeps its order.
RemoveQueued == LET m == main.rollback IN
    /\ main.at = "remove"
    /\ \E place \in InOrder({i \in DOMAIN sendQueue : ~IsUndone(sendQueue[i], m)}) :
         sendQueue' = [i \in DOMAIN place |-> sendQueue[place[i]]]
    /\ main' = [main EXCEPT !.at = "undo"]
    /\ UNCHANGED <<agentVars, lvt, flagVars, awaited, hand, sendList, tagList,
                   fGVT, inbox, clpVars, undone>>

AntiOf(q) == [q EXCEPT !.kind = IF q.kind = "read" THEN "antiRead" ELSE "antiWrite"]

\* Mutant: what is undone stays on the send list.
KeepsUndone(found) == sendList

WithoutUndone(found) == sendList \ found

\* History: a rollback undoes every such request that was made so far.
UndoneBy(m) == {q.id : q \in {p \in issued : /\ p.agent = m.agent
                                             /\ \/ p.kind = "read" /\ p.time >= m.time
                                                \/ p.kind = "write" /\ p.time > m.time}}

\* RollbackSendList, with an anti-message for each request it returns.
UndoSent ==
    LET m == main.rollback
        found == {q \in sendList : IsUndone(q, m)}
    IN
    /\ main.at = "undo"
    /\ \A q \in found : q.time >= fGVT
    /\ sendList' = WithoutUndone(found)
    /\ \E id \in InOrder({q.id : q \in found}) :
         sendQueue' = sendQueue \o [i \in DOMAIN id |-> AntiOf(CHOOSE q \in found : q.id = id[i])]
    /\ undone' = undone \cup UndoneBy(m)
    /\ main' = [main EXCEPT !.at = "restart"]
    /\ UNCHANGED <<agentVars, lvt, flagVars, awaited, hand, tagList, fGVT, inbox,
                   clpVars>>

\* One of them is from before GVT: the rollback is given up, the agent's
\* thread stays aborted.
UndoBeforeGvt ==
    LET m == main.rollback
        found == {q \in sendList : IsUndone(q, m)}
    IN
    /\ main.at = "undo"
    /\ \E q \in found : q.time < fGVT
    /\ sendList' = WithoutUndone(found)
    /\ lvt' = [lvt EXCEPT ![m.agent] = fGVT]
    /\ main' = Idle
    /\ UNCHANGED <<agentVars, flagVars, awaited, sendQueue, hand, tagList, fGVT,
                   inbox, clpVars, undone>>

\* The cancel flag and the maps are reset, Restart starts a new thread.
RestartAgent == LET a == main.rollback.agent IN
    /\ main.at = "restart"
    /\ aborting' = aborting \ {a}
    /\ response' = [response EXCEPT ![a] = NoId]
    /\ awaited' = [awaited EXCEPT ![a] = NoId]
    /\ pc' = [pc EXCEPT ![a] = "running"]
    /\ main' = Idle
    /\ UNCHANGED <<waitingFor, issued, accepted, lvt, ready, sendVars, tagList,
                   fGVT, inbox, clpVars, undone>>

\* Alp::SetGvt: ClearSendList and ClearRollbackTagList (tags carry a time).
SetGvt(gvt) ==
    /\ main = Idle
    /\ gvt > fGVT
    /\ \A a \in Agent : gvt <= lvt[a]
    /\ fGVT' = gvt
    /\ sendList' = {q \in sendList : q.time >= gvt}
    /\ tagList' \in SUBSET tagList
    /\ UNCHANGED <<agentVars, lvt, flagVars, awaited, sendQueue, hand, main, inbox,
                   clpVars, undone>>

(***************************************************************************)
(* Environment: the CLP.                                                   *)
(***************************************************************************)
\* A request is recorded and answered; a write may be refused.
ClpAnswers == LET m == Head(wire) IN
    /\ wire # << >> /\ IsRequest(m)
    /\ wire' = Tail(wire)
    /\ \/ /\ recorded' = recorded \cup {m}
          /\ inbox' = Append(inbox, [kind |-> "answer", agent |-> m.agent, id |-> m.id])
       \/ /\ m.kind = "write"
          /\ inbox' = Append(inbox, [kind |-> "failure", agent |-> m.agent, id |-> m.id])
          /\ UNCHANGED recorded
    /\ UNCHANGED <<agentVars, lvt, flagVars, awaited, sendVars, tagList, fGVT, main,
                   undone, budget>>

ClpRetracts == LET m == Head(wire) IN
    /\ wire # << >> /\ ~IsRequest(m)
    /\ wire' = Tail(wire)
    /\ recorded' = {q \in recorded : AntiOf(q) # m}
    /\ UNCHANGED <<agentVars, lvt, flagVars, awaited, sendVars, tagList, fGVT, main,
                   inbox, undone, budget>>

\* A straggler write invalidates a recorded read: it is dropped, and its agent
\* is rolled back to the time of the read.
ClpRollsBack(q, tag) ==
    /\ budget > 0 /\ q \in recorded /\ q.kind = "read"
    /\ budget' = budget - 1
    /\ recorded' = recorded \ {q}
    /\ inbox' = Append(inbox, [kind |-> "rollback", agent |-> q.agent,
                               time |-> q.time, tag |-> tag])
    /\ UNCHANGED <<agentVars, lvt, flagVars, awaited, sendVars, tagList, fGVT, main,
                   wire, undone>>

AgentThread(a) ==
    /\ \/ \E kind \in {"read", "write"}, t \in Time : SendRequest(a, kind, t)
       \/ TakeResponse(a) \/ Aborts(a) \/ BodyReturns(a)
    /\ UNCHANGED met

SendThread == (TakeFromQueue \/ ListRequest \/ Transmit) /\ UNCHANGED met

\* A stage of a rollback runs while the send thread is between the queue and
\* the wire, or for a time from before GVT.
Meets(w) == \/ w = "sending" /\ hand # None
            \/ w = "beforeGvt" /\ main # Idle /\ main.rollback.time < fGVT

CarryOutRollback ==
    /\ BeginRollback \/ JoinAgent \/ RemoveQueued \/ UndoSent \/ UndoBeforeGvt
         \/ RestartAgent
    /\ met' = met \cup {w \in Meetable : Meets(w)}

Main == \/ (ReceiveResponse \/ DismissRollback) /\ UNCHANGED met
        \/ CarryOutRollback

Clp == (ClpAnswers \/ ClpRetracts) /\ UNCHANGED met

Next ==
    \/ \E a \in Agent : AgentThread(a)
    \/ SendThread
    \/ Main
    \/ Clp
    \/ \E gvt \in GvtTimes : SetGvt(gvt) /\ UNCHANGED met
    \/ \E q \in recorded, tag \in Tag : ClpRollsBack(q, tag) /\ UNCHANGED met

Spec == Init /\ [][Next]_vars

\* Every thread runs, and the CLP answers.
FairSpec ==
    /\ Spec
    /\ \A a \in Agent : WF_vars(AgentThread(a))
    /\ WF_vars(SendThread) /\ WF_vars(Main) /\ WF_vars(Clp)

-----------------------------------------------------------------------------
(***************************************************************************)
(* Properties.                                                             *)
(***************************************************************************)
Outgoing == wire \o (IF hand = None THEN << >> ELSE << hand.m >>) \o sendQueue

\* A request is retracted at most once: no request has two anti-messages on
\* the way, and none that has one is on the send list (Alp.cpp:397-467).
RetractedOnce ==
    /\ \A i, j \in DOMAIN Outgoing :
         ~IsRequest(Outgoing[i]) /\ Outgoing[i] = Outgoing[j] => i = j
    /\ \A i \in DOMAIN Outgoing :
         ~IsRequest(Outgoing[i]) => \A q \in sendList : q.id # Outgoing[i].id

\* While its requests are being undone, the agent makes none: from Join to
\* Restart its thread is gone, and no answer is left for it to take.
QuietDuringRollback ==
    main.at \in {"remove", "undo", "restart"} =>
      LET a == main.rollback.agent
      IN  pc[a] = "ended" /\ a \notin ready

\* "sending out anti-messages for all the messages that have been sent out by
\* this Alp after the time of the roll-back" (Alp.cpp:393-395): a request that
\* a rollback has undone is not in the CLP's history, and not on its way
\* there, unless its anti-message follows.
UndoneIsRetracted ==
    \A q \in issued :
      /\ q.id \in undone
      /\ q \in recorded \cup ToSet(Outgoing)
      => AntiOf(q) \in ToSet(Outgoing)

\* That is so while no rollback meets the send thread between the queue and the
\* wire, and none goes back before GVT, where the send list is cleared: all that
\* is queued, on its way or recorded by then is found (Alp.cpp:397-467).
UndoneIsRetractedUnlessRaced == met = {} => UndoneIsRetracted

\* "discard incoming invalidated message (if any)" (Alp.cpp:306): the answer an
\* agent takes is the answer to the request it waits for, with the same reserve.
OwnAnswerTaken == "sending" \notin met => \A x \in accepted : x.id = x.of

\* No agent waits for ever: its request is answered, or it is aborted for a
\* rollback, whichever thread is where.
EveryWaitEnds == \A a \in Agent : pc[a] = "waiting" ~> pc[a] # "waiting"

\* The main loop always comes out of a rollback again: the thread it joins
\* reaches a SyncPoint or its end, whatever it was doing.
RollbackEnds == main # Idle ~> main = Idle
=============================================================================
