------------------------- MODULE AlpRollbackProofs -------------------------
(***************************************************************************)
(* Proofs about AlpRollback, for any number of agents, requests, tags and  *)
(* rollbacks: types, the quiet of an agent that is rolled back, that no    *)
(* request is retracted twice, that an agent takes the answer to its own   *)
(* request, and that what a rollback undoes is retracted.                  *)
(***************************************************************************)
EXTENDS AlpRollback, FiniteSetTheorems, SequenceTheorems, TLAPS

(***************************************************************************)
(* Types.                                                                  *)
(***************************************************************************)
\* The main loop has aborted the agent it rolls back, and its thread has ended
\* once Join has returned.
QuietFromTheStart ==
    main # Idle =>
      /\ main.rollback.agent \notin ready
      /\ main.at \in {"remove", "undo", "restart"} => pc[main.rollback.agent] = "ended"

\* An agent waits for a request that it has made, and its flag is set only when
\* there is an answer.
WaitsForOwn == \A a \in Agent : pc[a] = "waiting" => \E q \in issued : q.id = waitingFor[a]
ReadyMeansAnswer == \A a \in ready : response[a] \in Id

IType == TypeOK /\ QuietFromTheStart /\ WaitsForOwn /\ ReadyMeansAnswer

\* TypeOK by what changes together.
AgentTypes ==
    /\ pc \in [Agent -> {"running", "waiting", "ended"}]
    /\ waitingFor \in [Agent -> Id \cup {NoId}]
    /\ issued \subseteq Request
    /\ accepted \subseteq [id: Id, of: Id]
FlagTypes ==
    /\ aborting \subseteq Agent /\ ready \subseteq Agent
    /\ response \in [Agent -> Id \cup {NoId}]
SendTypes ==
    /\ sendQueue \in Seq(Request \cup Anti)
    /\ hand \in [at: {"taken", "listed"}, m: Request \cup Anti] \cup {None}
    /\ sendList \subseteq Request
ClpTypes ==
    /\ wire \in Seq(Request \cup Anti)
    /\ recorded \subseteq Request
    /\ budget \in 0..MaxRollbacks
MainTypes ==
    /\ main \in MainState
    /\ inbox \in Seq(Response \cup Rollback)
OtherTypes ==
    /\ lvt \in [Agent -> Lvt]
    /\ awaited \in [Agent -> Id \cup {NoId}]
    /\ tagList \subseteq Tag
    /\ fGVT \in Lvt
    /\ undone \subseteq Id
MetType == met \subseteq Meetable

LEMMA TypesByPart ==
    IType <=> /\ AgentTypes /\ FlagTypes /\ SendTypes /\ ClpTypes /\ MainTypes
              /\ OtherTypes /\ MetType /\ QuietFromTheStart /\ WaitsForOwn
              /\ ReadyMeansAnswer
  BY DEF IType, TypeOK, MetType, AgentTypes, FlagTypes, SendTypes, ClpTypes, MainTypes, OtherTypes

LEMMA ConstantFacts ==
    /\ MaxTime \in Nat /\ MaxRequests \in Nat /\ MaxRollbacks \in Nat
    /\ Id \subseteq Nat /\ Lvt \subseteq Nat /\ Time \subseteq Lvt
    /\ NoId \notin Id
    /\ \A t \in Time : t + 1 \in Lvt
  BY ConstantsAssumption DEF Id, Lvt, Time, NoId

LEMMA InitType == Init => IType
<1> SUFFICES ASSUME Init PROVE IType
  OBVIOUS
<1> USE ConstantFacts
<1>1. AgentTypes /\ FlagTypes /\ SendTypes /\ ClpTypes /\ MainTypes /\ OtherTypes
  BY DEF Init, AgentTypes, FlagTypes, SendTypes, ClpTypes, MainTypes, OtherTypes,
         NoId, MainState, None, Lvt
<1>2. MetType
  BY DEF Init, MetType
<1>3. QuietFromTheStart /\ WaitsForOwn /\ ReadyMeansAnswer
  BY DEF Init, QuietFromTheStart, WaitsForOwn, ReadyMeansAnswer
<1> QED
  BY <1>1, <1>2, <1>3, TypesByPart, PTL

-----------------------------------------------------------------------------
LEMMA RequestKeepsTypes ==
    ASSUME IType, NEW a \in Agent, NEW kind \in {"read", "write"}, NEW t \in Time,
           SendRequest(a, kind, t), UNCHANGED met
    PROVE  IType'
<1> DEFINE id == Cardinality(issued) + 1
           m == [kind |-> kind, agent |-> a, time |-> t, id |-> id]
<1> USE ConstantFacts
<1>1. AgentTypes /\ FlagTypes /\ SendTypes /\ ClpTypes /\ MainTypes /\ OtherTypes
  BY TypesByPart
<1>2. id \in Id /\ m \in Request
  BY DEF SendRequest, Request
<1> HIDE DEF id, m
<1>3. /\ issued' = issued \cup {m} /\ m.id = id
      /\ sendQueue' = Append(sendQueue, m)
      /\ pc' = [pc EXCEPT ![a] = "waiting"]
      /\ waitingFor' = [waitingFor EXCEPT ![a] = id]
      /\ UNCHANGED <<lvt, flagVars, awaited, hand, sendList, tagList, fGVT, main,
                     inbox, clpVars, undone, accepted>>
      /\ pc[a] = "running"
  BY DEF SendRequest, id, m
<1>4. AgentTypes'
  BY <1>1, <1>2, <1>3 DEF AgentTypes
<1>5. SendTypes'
  BY <1>1, <1>2, <1>3 DEF SendTypes
<1>6. FlagTypes' /\ ClpTypes' /\ MainTypes' /\ OtherTypes'
  BY <1>1, <1>3 DEF FlagTypes, ClpTypes, MainTypes, OtherTypes, flagVars, clpVars
<1>7. WaitsForOwn'
  BY <1>1, <1>3 DEF WaitsForOwn, AgentTypes, IType
<1>8. QuietFromTheStart' /\ ReadyMeansAnswer'
  BY <1>1, <1>3 DEF QuietFromTheStart, ReadyMeansAnswer, IType, flagVars, AgentTypes
<1>9. MetType'
  BY TypesByPart DEF MetType
<1> QED
  BY <1>4, <1>5, <1>6, <1>7, <1>8, <1>9, TypesByPart, PTL

LEMMA AgentKeepsTypes ==
    ASSUME IType, NEW a \in Agent, TakeResponse(a) \/ Aborts(a) \/ BodyReturns(a),
           UNCHANGED met
    PROVE  IType'
<1> USE ConstantFacts
<1>1. AgentTypes /\ FlagTypes /\ SendTypes /\ ClpTypes /\ MainTypes /\ OtherTypes
  BY TypesByPart
<1>2. /\ UNCHANGED <<sendVars, clpVars, main, inbox, waitingFor, issued, response, aborting,
                     awaited, tagList, fGVT, undone>>
      /\ pc[a] # "ended" /\ \E x \in {"running", "ended"} : pc' = [pc EXCEPT ![a] = x]
      /\ ready' \subseteq ready
  BY DEF TakeResponse, Aborts, BodyReturns, flagVars
<1>3. SendTypes' /\ ClpTypes' /\ MainTypes' /\ FlagTypes'
  BY <1>1, <1>2 DEF SendTypes, ClpTypes, MainTypes, FlagTypes, sendVars, clpVars
<1>4. AgentTypes' /\ OtherTypes'
  <2>1. CASE TakeResponse(a)
    <3> DEFINE t == CHOOSE t \in Lvt : \E q \in issued :
                      q.id = waitingFor[a] /\ t = q.time + 1
    <3>1. \E q \in issued : q.id = waitingFor[a]
      BY <2>1 DEF TakeResponse, IType, WaitsForOwn
    <3>2. t \in Lvt /\ waitingFor[a] \in Id
      BY <1>1, <3>1 DEF AgentTypes, Request
    <3>3. response[a] \in Id
      BY <2>1 DEF TakeResponse, IType, ReadyMeansAnswer
    <3> HIDE DEF t
    <3>4. lvt' = [lvt EXCEPT ![a] = SetAgentLvt(@, t)]
      BY <2>1 DEF TakeResponse, t
    <3>5. OtherTypes'
      BY <1>1, <1>2, <3>2, <3>4 DEF OtherTypes, SetAgentLvt
    <3>6. accepted' = accepted \cup {[id |-> response[a], of |-> waitingFor[a]]}
      BY <2>1 DEF TakeResponse
    <3>7. AgentTypes'
      BY <1>1, <1>2, <3>2, <3>3, <3>6 DEF AgentTypes
    <3> QED
      BY <3>5, <3>7
  <2>2. CASE Aborts(a) \/ BodyReturns(a)
    BY <1>1, <1>2, <2>2 DEF AgentTypes, OtherTypes, Aborts, BodyReturns
  <2> QED
    BY <2>1, <2>2
<1>5. WaitsForOwn'
  BY <1>1, <1>2 DEF WaitsForOwn, AgentTypes, IType
<1>6. QuietFromTheStart'
  BY <1>1, <1>2 DEF QuietFromTheStart, IType, AgentTypes
<1>7. ReadyMeansAnswer'
  BY <1>2 DEF ReadyMeansAnswer, IType
<1>8. MetType'
  BY TypesByPart DEF MetType
<1> QED
  BY <1>3, <1>4, <1>5, <1>6, <1>7, <1>8, TypesByPart, PTL

LEMMA SendThreadKeepsTypes ==
    ASSUME IType, SendThread
    PROVE  IType'
<1>1. AgentTypes /\ FlagTypes /\ SendTypes /\ ClpTypes /\ MainTypes /\ OtherTypes
  BY TypesByPart
<1>2. UNCHANGED <<agentVars, lvt, flagVars, tagList, fGVT, main, inbox, recorded, budget,
                  undone, met>>
  BY DEF SendThread, TakeFromQueue, ListRequest, Transmit, clpVars
<1>3. AgentTypes' /\ FlagTypes' /\ MainTypes' /\ MetType'
  BY <1>1, <1>2, TypesByPart DEF AgentTypes, FlagTypes, MainTypes, MetType, agentVars, flagVars
<1>4. QuietFromTheStart' /\ WaitsForOwn' /\ ReadyMeansAnswer'
  BY <1>2 DEF IType, QuietFromTheStart, WaitsForOwn, ReadyMeansAnswer, agentVars, flagVars
<1>5. hand # None => hand.m \in Request \cup Anti
  BY <1>1 DEF SendTypes
<1>6. ASSUME TakeFromQueue PROVE SendTypes' /\ ClpTypes' /\ OtherTypes'
  <2>1. Head(sendQueue) \in Request \cup Anti /\ Tail(sendQueue) \in Seq(Request \cup Anti)
    BY <1>1, <1>6 DEF TakeFromQueue, SendTypes
  <2>2. SendTypes'
    BY <1>1, <1>6, <2>1 DEF TakeFromQueue, SendTypes
  <2>3. ClpTypes' /\ OtherTypes'
    BY <1>1, <1>6 DEF TakeFromQueue, ClpTypes, OtherTypes, clpVars
  <2> QED
    BY <2>2, <2>3
<1>7. ASSUME ListRequest PROVE SendTypes' /\ ClpTypes' /\ OtherTypes'
  <2>1. IsRequest(hand.m) => hand.m \in Request
    BY <1>5, <1>7 DEF ListRequest, IsRequest, Anti
  <2>2. SendTypes'
    BY <1>1, <1>7, <2>1 DEF ListRequest, SendTypes
  <2>3. ClpTypes' /\ OtherTypes'
    BY <1>1, <1>7 DEF ListRequest, ClpTypes, OtherTypes, clpVars
  <2> QED
    BY <2>2, <2>3
<1>8. ASSUME Transmit PROVE SendTypes' /\ ClpTypes' /\ OtherTypes'
  <2>1. hand.m \in Request \cup Anti /\ hand.m.id \in Id
    BY <1>5, <1>8 DEF Transmit, Request, Anti
  <2>2. SendTypes' /\ ClpTypes'
    BY <1>1, <1>2, <1>8, <2>1 DEF Transmit, Transmitted, SendTypes, ClpTypes
  <2>3. OtherTypes'
    BY <1>1, <1>8, <2>1 DEF Transmit, Transmitted, OtherTypes
  <2> QED
    BY <2>2, <2>3
<1> QED
  BY <1>3, <1>4, <1>6, <1>7, <1>8, TypesByPart, PTL DEF SendThread

LEMMA EnvironmentKeepsTypes ==
    ASSUME IType,
           \/ Clp
           \/ \E gvt \in GvtTimes : SetGvt(gvt) /\ UNCHANGED met
           \/ \E q \in recorded, tag \in Tag : ClpRollsBack(q, tag) /\ UNCHANGED met
    PROVE  IType'
<1> USE ConstantFacts
<1>1. AgentTypes /\ FlagTypes /\ SendTypes /\ ClpTypes /\ MainTypes /\ OtherTypes
  BY TypesByPart
<1>2. UNCHANGED <<agentVars, lvt, flagVars, awaited, sendQueue, hand, main, undone, met>>
  BY DEF Clp, ClpAnswers, ClpRetracts, SetGvt, ClpRollsBack, sendVars
<1>3. AgentTypes' /\ FlagTypes' /\ MetType'
  BY <1>1, <1>2, TypesByPart DEF AgentTypes, FlagTypes, MetType, agentVars, flagVars
<1>4. QuietFromTheStart' /\ WaitsForOwn' /\ ReadyMeansAnswer'
  BY <1>2 DEF IType, QuietFromTheStart, WaitsForOwn, ReadyMeansAnswer, agentVars, flagVars
<1>5. ASSUME Clp
      PROVE  SendTypes' /\ ClpTypes' /\ MainTypes' /\ OtherTypes'
  <2> DEFINE m == Head(wire)
  <2>1. wire # << >> /\ wire' = Tail(wire) /\ UNCHANGED <<sendList, tagList, fGVT, budget>>
    BY <1>5 DEF Clp, ClpAnswers, ClpRetracts, sendVars
  <2>2. m \in Request \cup Anti /\ Tail(wire) \in Seq(Request \cup Anti)
    BY <1>1, <2>1 DEF ClpTypes
  <2>3. IsRequest(m) => m \in Request
    BY <2>2 DEF IsRequest, Anti
  <2>4. \A kind \in {"answer", "failure"} :
          [kind |-> kind, agent |-> m.agent, id |-> m.id] \in Response \cup Rollback
    BY <2>2 DEF Request, Anti, Response
  <2> HIDE DEF m
  <2>5. \/ /\ IsRequest(m)
           /\ recorded' = recorded \cup {m} \/ recorded' = recorded
           /\ \E kind \in {"answer", "failure"} :
                inbox' = Append(inbox, [kind |-> kind, agent |-> m.agent, id |-> m.id])
        \/ inbox' = inbox /\ recorded' \subseteq recorded
    BY <1>5 DEF Clp, ClpAnswers, ClpRetracts, m
  <2>6. SendTypes' /\ OtherTypes'
    BY <1>1, <1>2, <2>1 DEF SendTypes, OtherTypes
  <2>7. ClpTypes'
    BY <1>1, <2>1, <2>2, <2>3, <2>5 DEF ClpTypes
  <2>8. MainTypes'
    BY <1>1, <1>2, <2>4, <2>5 DEF MainTypes
  <2> QED
    BY <2>6, <2>7, <2>8
<1>6. ASSUME \E gvt \in GvtTimes : SetGvt(gvt) /\ UNCHANGED met
      PROVE  SendTypes' /\ ClpTypes' /\ MainTypes' /\ OtherTypes'
  <2>1. /\ fGVT' \in Lvt /\ sendList' \subseteq sendList /\ tagList' \subseteq tagList
        /\ UNCHANGED <<inbox, clpVars>>
    BY <1>6, ConstantsAssumption DEF SetGvt
  <2> QED
    BY <1>1, <1>2, <2>1 DEF SendTypes, ClpTypes, MainTypes, OtherTypes, clpVars
<1>7. ASSUME \E q \in recorded, tag \in Tag : ClpRollsBack(q, tag) /\ UNCHANGED met
      PROVE  SendTypes' /\ ClpTypes' /\ MainTypes' /\ OtherTypes'
  <2>1. PICK q \in recorded, tag \in Tag : ClpRollsBack(q, tag)
    BY <1>7
  <2>2. [kind |-> "rollback", agent |-> q.agent, time |-> q.time, tag |-> tag]
           \in Response \cup Rollback
    BY <1>1 DEF ClpTypes, Request, Rollback
  <2>3. ClpTypes'
    BY <1>1, <2>1 DEF ClpRollsBack, ClpTypes
  <2>4. MainTypes'
    BY <1>1, <2>1, <2>2 DEF ClpRollsBack, MainTypes
  <2>5. SendTypes' /\ OtherTypes'
    BY <1>1, <2>1 DEF ClpRollsBack, SendTypes, OtherTypes, sendVars
  <2> QED
    BY <2>3, <2>4, <2>5
<1> QED
  BY <1>3, <1>4, <1>5, <1>6, <1>7, TypesByPart, PTL

\* What the main loop takes is a message.
LEMMA MessageOfInbox ==
    ASSUME MainTypes, NEW kinds, Handles(kinds)
    PROVE  /\ Head(inbox) \in Response \cup Rollback
           /\ Head(inbox).kind \in kinds
           /\ inbox' \in Seq(Response \cup Rollback)
           /\ main = Idle
  BY DEF MainTypes, Handles

LEMMA InboxKeepsTypes ==
    ASSUME IType, ReceiveResponse \/ DismissRollback, UNCHANGED met
    PROVE  IType'
<1> USE ConstantFacts
<1> DEFINE m == Head(inbox)
<1>1. AgentTypes /\ FlagTypes /\ SendTypes /\ ClpTypes /\ MainTypes /\ OtherTypes
  BY TypesByPart
<1>2. UNCHANGED <<agentVars, lvt, aborting, awaited, sendQueue, hand, fGVT, main, clpVars,
                  undone, met>>
  BY DEF ReceiveResponse, DismissRollback, flagVars, sendVars
<1>3. AgentTypes' /\ ClpTypes' /\ MetType' /\ WaitsForOwn'
  BY <1>1, <1>2, TypesByPart
     DEF AgentTypes, ClpTypes, MetType, WaitsForOwn, agentVars, clpVars
<1>4. ASSUME ReceiveResponse
      PROVE  FlagTypes' /\ SendTypes' /\ MainTypes' /\ OtherTypes' /\ ReadyMeansAnswer'
  <2>1. m \in Response /\ inbox' \in Seq(Response \cup Rollback)
    BY <1>1, <1>4, MessageOfInbox DEF ReceiveResponse, Rollback
  <2>2. m.agent \in Agent /\ m.id \in Id
    BY <2>1 DEF Response
  <2> HIDE DEF m
  <2>3. /\ sendList' \subseteq sendList /\ tagList' = tagList
        /\ \/ response' = [response EXCEPT ![m.agent] = m.id] /\ ready' = ready \cup {m.agent}
           \/ response' = response /\ ready' = ready
    BY <1>4 DEF ReceiveResponse, m
  <2>4. FlagTypes' /\ ReadyMeansAnswer'
    BY <1>1, <1>2, <2>2, <2>3 DEF FlagTypes, ReadyMeansAnswer, IType
  <2>5. SendTypes' /\ MainTypes' /\ OtherTypes'
    BY <1>1, <1>2, <2>1, <2>3 DEF SendTypes, MainTypes, OtherTypes
  <2> QED
    BY <2>4, <2>5
<1>5. ASSUME DismissRollback
      PROVE  FlagTypes' /\ SendTypes' /\ MainTypes' /\ OtherTypes' /\ ReadyMeansAnswer'
  <2>1. m \in Rollback /\ inbox' \in Seq(Response \cup Rollback)
    BY <1>1, <1>5, MessageOfInbox DEF DismissRollback, Response
  <2>2. tagList' = tagList \cup {m.tag} /\ UNCHANGED <<flagVars, sendVars>>
    BY <1>5 DEF DismissRollback
  <2>3. FlagTypes' /\ SendTypes' /\ ReadyMeansAnswer'
    BY <1>1, <2>2 DEF FlagTypes, SendTypes, ReadyMeansAnswer, IType, flagVars, sendVars
  <2>4. MainTypes' /\ OtherTypes'
    BY <1>1, <1>2, <2>1, <2>2 DEF MainTypes, OtherTypes, Rollback
  <2> QED
    BY <2>3, <2>4
<1>6. main = Idle /\ QuietFromTheStart'
  BY <1>1, <1>2, MessageOfInbox DEF ReceiveResponse, DismissRollback, QuietFromTheStart
<1> QED
  BY <1>3, <1>4, <1>5, <1>6, TypesByPart, PTL

\* The stages of a rollback that is under way.
LEMMA MainFacts ==
    ASSUME MainTypes, main.at # "idle"
    PROVE  /\ main # Idle
           /\ main.rollback \in Rollback
           /\ main.rollback.agent \in Agent
           /\ main.rollback.time \in Time
           /\ \A stage \in {"join", "remove", "undo", "restart"} :
                [main EXCEPT !.at = stage] \in MainState /\ [main EXCEPT !.at = stage] # Idle
  BY DEF MainTypes, MainState, Idle, Rollback

LEMMA MetKeepsType ==
    ASSUME IType, met' = met \cup {w \in Meetable : Meets(w)}
    PROVE  MetType'
<1>1. met \subseteq Meetable
  BY TypesByPart DEF MetType
<1> QED
  BY <1>1 DEF MetType

LEMMA BeginKeepsTypes ==
    ASSUME IType, BeginRollback, MetType'
    PROVE  IType'
<1> USE ConstantFacts
<1> DEFINE m == Head(inbox)
<1>1. AgentTypes /\ FlagTypes /\ SendTypes /\ ClpTypes /\ MainTypes /\ OtherTypes
  BY TypesByPart
<1>2. m \in Rollback /\ inbox' \in Seq(Response \cup Rollback) /\ main = Idle
  BY <1>1, MessageOfInbox DEF BeginRollback, Response
<1>3. m.agent \in Agent /\ m.tag \in Tag
  BY <1>2 DEF Rollback
<1> HIDE DEF m
<1>4. /\ tagList' = tagList \cup {m.tag} /\ aborting' = aborting \cup {m.agent}
      /\ ready' = ready \ {m.agent} /\ main' = [at |-> "join", rollback |-> m]
      /\ UNCHANGED <<agentVars, lvt, response, awaited, sendVars, fGVT, clpVars, undone>>
  BY DEF BeginRollback, ToldToAbort, m
<1>5. AgentTypes' /\ SendTypes' /\ ClpTypes' /\ WaitsForOwn'
  BY <1>1, <1>4 DEF AgentTypes, SendTypes, ClpTypes, WaitsForOwn, IType, agentVars, sendVars,
                    clpVars
<1>6. FlagTypes' /\ OtherTypes' /\ ReadyMeansAnswer'
  BY <1>1, <1>3, <1>4 DEF FlagTypes, OtherTypes, ReadyMeansAnswer, IType
<1>7. MainTypes' /\ QuietFromTheStart'
  BY <1>2, <1>3, <1>4 DEF MainTypes, MainState, QuietFromTheStart
<1> QED
  BY <1>5, <1>6, <1>7, TypesByPart, PTL

LEMMA JoinKeepsTypes ==
    ASSUME IType, JoinAgent, MetType'
    PROVE  IType'
<1> USE ConstantFacts
<1>1. AgentTypes /\ FlagTypes /\ SendTypes /\ ClpTypes /\ MainTypes /\ OtherTypes
  BY TypesByPart
<1>2. main.at = "join" /\ main' = [main EXCEPT !.at = "remove"]
  BY DEF JoinAgent
<1>3. /\ main # Idle /\ main.rollback.agent \in Agent /\ main.rollback.time \in Time
      /\ main' \in MainState /\ main'.rollback = main.rollback /\ main'.at = "remove"
  BY <1>1, <1>2, MainFacts DEF MainTypes, MainState, Idle
<1>4. /\ lvt' = [lvt EXCEPT ![main.rollback.agent] = main.rollback.time]
      /\ pc[main.rollback.agent] = "ended"
      /\ UNCHANGED <<agentVars, flagVars, awaited, sendVars, tagList, fGVT, inbox, clpVars,
                     undone>>
  BY DEF JoinAgent, HasEnded
<1>5. AgentTypes' /\ FlagTypes' /\ SendTypes' /\ ClpTypes' /\ WaitsForOwn' /\ ReadyMeansAnswer'
  BY <1>1, <1>4 DEF AgentTypes, FlagTypes, SendTypes, ClpTypes, WaitsForOwn, ReadyMeansAnswer,
                    IType, agentVars, flagVars, sendVars, clpVars
<1>6. OtherTypes' /\ MainTypes'
  BY <1>1, <1>3, <1>4 DEF OtherTypes, MainTypes
<1>7. QuietFromTheStart'
  BY <1>1, <1>3, <1>4 DEF QuietFromTheStart, IType, agentVars, flagVars
<1> QED
  BY <1>5, <1>6, <1>7, TypesByPart, PTL

-----------------------------------------------------------------------------
(***************************************************************************)
(* What leaves the send queue and what joins it.                           *)
(***************************************************************************)
LEMMA OrderOfPlaces ==
    ASSUME NEW S, IsFiniteSet(S), S \subseteq Int, NEW f \in InOrder(S)
    PROVE  /\ Cardinality(S) \in Nat
           /\ f \in [1..Cardinality(S) -> S]
           /\ \A i, j \in 1..Cardinality(S) : i < j => f[i] < f[j]
           /\ \A x \in S : \E i \in 1..Cardinality(S) : f[i] = x
<1> DEFINE n == Cardinality(S)
<1>1. n \in Nat /\ f \in [1..n -> S] /\ \A i, j \in 1..n : i < j => f[i] < f[j]
  BY FS_CardinalityType DEF InOrder
<1>2. IsFiniteSet(1..n) /\ Cardinality(1..n) = n
  BY <1>1, FS_Interval
<1>3. ASSUME NEW i \in 1..n, NEW j \in 1..n, f[i] = f[j] PROVE i = j
  <2>1. f[i] \in Int /\ f[j] \in Int
    BY <1>1
  <2>2. ~(i < j) /\ ~(j < i)
    BY <1>1, <1>3, <2>1
  <2> QED
    BY <2>2
<1>4. f \in Injection(1..n, S)
  BY <1>1, <1>3 DEF Injection, IsInjective
<1>5. f \in Surjection(1..n, S)
  BY <1>2, <1>4, FS_Injection
<1> QED
  BY <1>1, <1>5 DEF Surjection

LEMMA IdsAreFinite ==
    ASSUME NEW S, S \subseteq Id
    PROVE  IsFiniteSet(S)
<1>1. IsFiniteSet(Id)
  BY ConstantFacts, FS_Interval DEF Id
<1> QED
  BY <1>1, FS_Subset

LEMMA AntiOfRequest ==
    ASSUME NEW q \in Request
    PROVE  /\ AntiOf(q) \in Anti
           /\ AntiOf(q).id = q.id
           /\ ~IsRequest(AntiOf(q))
  BY DEF AntiOf, Request, Anti, IsRequest

\* What stays in the queue, by its place: all that is not undone.
LEMMA QueueAfterRemoval ==
    ASSUME SendTypes, RemoveQueued
    PROVE  \E n \in Nat : \E place \in [1..n -> DOMAIN sendQueue] :
             /\ \A i, j \in 1..n : i < j => place[i] < place[j]
             /\ sendQueue' = [i \in 1..n |-> sendQueue[place[i]]]
             /\ sendQueue' \in Seq(Request \cup Anti)
             /\ \A i \in DOMAIN sendQueue :
                  ~IsUndone(sendQueue[i], main.rollback) <=> \E j \in 1..n : place[j] = i
<1> DEFINE Stays == {i \in DOMAIN sendQueue : ~IsUndone(sendQueue[i], main.rollback)}
<1>1. IsFiniteSet(Stays)
  <2>1. Len(sendQueue) \in Nat /\ DOMAIN sendQueue = 1..Len(sendQueue)
    BY DEF SendTypes
  <2>2. IsFiniteSet(DOMAIN sendQueue)
    BY <2>1, FS_Interval
  <2> QED
    BY <2>2, FS_Subset
<1>0. Stays \subseteq Int
  BY DEF SendTypes
<1>2. PICK place \in InOrder(Stays) : sendQueue' = [i \in DOMAIN place |-> sendQueue[place[i]]]
  BY DEF RemoveQueued
<1> DEFINE n == Cardinality(Stays)
<1> HIDE DEF Stays
<1>3. /\ n \in Nat /\ place \in [1..n -> Stays]
      /\ \A i, j \in 1..n : i < j => place[i] < place[j]
      /\ \A i \in Stays : \E j \in 1..n : place[j] = i
  BY <1>0, <1>1, <1>2, OrderOfPlaces
<1>4. Stays \subseteq DOMAIN sendQueue
  BY DEF Stays
<1> HIDE DEF n
<1>5. place \in [1..n -> DOMAIN sendQueue]
  BY <1>3, <1>4
<1>6. sendQueue' = [i \in 1..n |-> sendQueue[place[i]]]
  BY <1>2, <1>3
<1>7. \A i \in 1..n : sendQueue[place[i]] \in Request \cup Anti
  BY <1>5 DEF SendTypes
<1>8. sendQueue' \in Seq(Request \cup Anti)
  BY <1>3, <1>6, <1>7
<1>9. \A i \in DOMAIN sendQueue :
        ~IsUndone(sendQueue[i], main.rollback) <=> \E j \in 1..n : place[j] = i
  <2> TAKE i \in DOMAIN sendQueue
  <2>1. ~IsUndone(sendQueue[i], main.rollback) <=> i \in Stays
    BY DEF Stays
  <2> QED
    BY <1>3, <2>1
<1> QED
  BY <1>3, <1>5, <1>6, <1>8, <1>9

\* The anti-messages that join the queue, one for each request that leaves the
\* send list.
LEMMA QueueAfterUndo ==
    ASSUME SendTypes, UndoSent
    PROVE  \E n \in Nat : \E antis \in Seq(Anti) :
             /\ Len(antis) = n
             /\ \A i \in 1..n : \E q \in sendList \ sendList' : antis[i] = AntiOf(q)
             /\ \A q \in sendList \ sendList' : \E i \in 1..n : \E r \in sendList :
                  r.id = q.id /\ antis[i] = AntiOf(r)
             /\ \A i, j \in 1..n : antis[i].id = antis[j].id => i = j
             /\ sendQueue' = sendQueue \o antis
<1> DEFINE found == {q \in sendList : IsUndone(q, main.rollback)}
           Ids == {q.id : q \in found}
<1>1. found \subseteq Request /\ found \subseteq sendList /\ sendList' = sendList \ found
  BY DEF SendTypes, UndoSent, WithoutUndone
<1>2. PICK id \in InOrder(Ids) :
        sendQueue' = sendQueue \o [i \in DOMAIN id |-> AntiOf(CHOOSE q \in found : q.id = id[i])]
  BY DEF UndoSent
<1> HIDE DEF found
<1>3. IsFiniteSet(Ids) /\ Ids \subseteq Int
  <2>1. Ids \subseteq Id
    BY <1>1 DEF Request
  <2>2. Id \subseteq Int
    BY ConstantFacts
  <2> HIDE DEF Ids
  <2> QED
    BY <2>1, <2>2, IdsAreFinite
<1> DEFINE n == Cardinality(Ids)
<1> HIDE DEF Ids
<1>4. /\ n \in Nat /\ id \in [1..n -> Ids] /\ \A i, j \in 1..n : i < j => id[i] < id[j]
      /\ \A x \in Ids : \E i \in 1..n : id[i] = x
  BY <1>2, <1>3, OrderOfPlaces
<1> USE DEF Ids
<1> DEFINE anti(i) == AntiOf(CHOOSE q \in found : q.id = id[i])
           antis == [i \in 1..n |-> anti(i)]
<1> HIDE DEF n
<1>5. ASSUME NEW i \in 1..n
      PROVE  /\ \E q \in found : anti(i) = AntiOf(q)
             /\ anti(i) \in Anti
             /\ anti(i).id = id[i]
  <2>1. \E q \in found : q.id = id[i]
    BY <1>4
  <2> DEFINE r == CHOOSE q \in found : q.id = id[i]
  <2>2. r \in found /\ r.id = id[i]
    BY <2>1
  <2>3. anti(i) = AntiOf(r)
    OBVIOUS
  <2> HIDE DEF r
  <2> QED
    BY <1>1, <2>2, <2>3, AntiOfRequest
<1>6. sendQueue' = sendQueue \o antis
  BY <1>2, <1>4
<1> HIDE DEF anti
<1>7. antis \in Seq(Anti) /\ Len(antis) = n
  BY <1>4, <1>5
<1>8. ASSUME NEW i \in 1..n, NEW j \in 1..n, antis[i].id = antis[j].id
      PROVE  i = j
  <2>1. id[i] = id[j]
    BY <1>5, <1>8
  <2>2. id[i] \in Int /\ id[j] \in Int
    BY <1>1, <1>4 DEF Request, Id
  <2> QED
    BY <1>4, <2>1, <2>2
<1>9. \A i \in 1..n : \E q \in sendList \ sendList' : antis[i] = AntiOf(q)
  BY <1>1, <1>5
<1>10. ASSUME NEW q \in sendList \ sendList'
       PROVE  \E i \in 1..n : \E r \in sendList : r.id = q.id /\ antis[i] = AntiOf(r)
  <2>1. PICK i \in 1..n : id[i] = q.id
    BY <1>1, <1>4, <1>10
  <2>2. PICK r \in found : anti(i) = AntiOf(r)
    BY <1>5
  <2>3. r.id = q.id /\ r \in sendList
    BY <1>1, <1>5, <2>1, <2>2, AntiOfRequest
  <2> QED
    BY <2>2, <2>3
<1> HIDE DEF antis
<1> QED
  BY <1>4, <1>6, <1>7, <1>8, <1>9, <1>10

LEMMA RemoveKeepsTypes ==
    ASSUME IType, RemoveQueued, MetType'
    PROVE  IType'
<1>1. AgentTypes /\ FlagTypes /\ SendTypes /\ ClpTypes /\ MainTypes /\ OtherTypes
  BY TypesByPart
<1>2. /\ main.at = "remove" /\ main' = [main EXCEPT !.at = "undo"]
      /\ UNCHANGED <<agentVars, lvt, flagVars, awaited, hand, sendList, tagList, fGVT, inbox,
                     clpVars, undone>>
  BY DEF RemoveQueued
<1>3. /\ main # Idle /\ main' \in MainState
      /\ main'.rollback = main.rollback /\ main'.at = "undo"
  BY <1>1, <1>2, MainFacts DEF MainTypes, MainState, Idle
<1>4. SendTypes'
  BY <1>1, <1>2, QueueAfterRemoval DEF SendTypes
<1>5. AgentTypes' /\ FlagTypes' /\ ClpTypes' /\ WaitsForOwn' /\ ReadyMeansAnswer'
  BY <1>1, <1>2 DEF AgentTypes, FlagTypes, ClpTypes, WaitsForOwn, ReadyMeansAnswer,
                    IType, agentVars, flagVars, clpVars
<1>6. OtherTypes' /\ MainTypes'
  BY <1>1, <1>2, <1>3 DEF OtherTypes, MainTypes
<1>7. QuietFromTheStart'
  BY <1>2, <1>3 DEF QuietFromTheStart, IType, agentVars, flagVars
<1> QED
  BY <1>4, <1>5, <1>6, <1>7, TypesByPart, PTL

LEMMA UndoKeepsTypes ==
    ASSUME IType, UndoSent, MetType'
    PROVE  IType'
<1>1. AgentTypes /\ FlagTypes /\ SendTypes /\ ClpTypes /\ MainTypes /\ OtherTypes
  BY TypesByPart
<1>2. /\ main.at = "undo" /\ main' = [main EXCEPT !.at = "restart"]
      /\ sendList' \subseteq sendList
      /\ undone' = undone \cup UndoneBy(main.rollback)
      /\ UNCHANGED <<agentVars, lvt, flagVars, awaited, hand, tagList, fGVT, inbox, clpVars>>
  BY DEF UndoSent, WithoutUndone
<1>3. /\ main # Idle /\ main' \in MainState
      /\ main'.rollback = main.rollback /\ main'.at = "restart"
  BY <1>1, <1>2, MainFacts DEF MainTypes, MainState, Idle
<1>4. sendQueue' \in Seq(Request \cup Anti)
  <2>1. PICK antis \in Seq(Anti) : sendQueue' = sendQueue \o antis
    BY <1>1, QueueAfterUndo
  <2>2. antis \in Seq(Request \cup Anti)
    OBVIOUS
  <2> QED
    BY <1>1, <2>1, <2>2 DEF SendTypes
<1>5. SendTypes'
  BY <1>1, <1>2, <1>4 DEF SendTypes
<1>6. AgentTypes' /\ FlagTypes' /\ ClpTypes' /\ WaitsForOwn' /\ ReadyMeansAnswer'
  BY <1>1, <1>2 DEF AgentTypes, FlagTypes, ClpTypes, WaitsForOwn, ReadyMeansAnswer,
                    IType, agentVars, flagVars, clpVars
<1>7. UndoneBy(main.rollback) \subseteq Id
  BY <1>1 DEF UndoneBy, AgentTypes, Request
<1>8. OtherTypes' /\ MainTypes'
  BY <1>1, <1>2, <1>3, <1>7 DEF OtherTypes, MainTypes
<1>9. QuietFromTheStart'
  BY <1>2, <1>3 DEF QuietFromTheStart, IType, agentVars, flagVars
<1> QED
  BY <1>5, <1>6, <1>8, <1>9, TypesByPart, PTL

LEMMA EndKeepsTypes ==
    ASSUME IType, UndoBeforeGvt \/ RestartAgent, MetType'
    PROVE  IType'
<1>1. AgentTypes /\ FlagTypes /\ SendTypes /\ ClpTypes /\ MainTypes /\ OtherTypes
  BY TypesByPart
<1>2. /\ main.at \in {"undo", "restart"} /\ main' = Idle /\ sendList' \subseteq sendList
      /\ UNCHANGED <<waitingFor, issued, accepted, ready, sendQueue, hand, tagList, fGVT, inbox,
                     clpVars, undone>>
  BY DEF UndoBeforeGvt, RestartAgent, WithoutUndone, agentVars, flagVars, sendVars
<1> DEFINE a == main.rollback.agent
<1>3. /\ a \in Agent /\ a \notin ready /\ main # Idle
  BY <1>1, <1>2, MainFacts DEF IType, QuietFromTheStart
<1>4. SendTypes' /\ ClpTypes' /\ MainTypes' /\ QuietFromTheStart'
  BY <1>1, <1>2 DEF SendTypes, ClpTypes, MainTypes, MainState, QuietFromTheStart, clpVars
<1>5. ASSUME UndoBeforeGvt
      PROVE  AgentTypes' /\ FlagTypes' /\ OtherTypes' /\ WaitsForOwn' /\ ReadyMeansAnswer'
  BY <1>1, <1>2, <1>3, <1>5
     DEF UndoBeforeGvt, AgentTypes, FlagTypes, OtherTypes, WaitsForOwn, ReadyMeansAnswer, IType,
         agentVars, flagVars
<1>6. ASSUME RestartAgent
      PROVE  AgentTypes' /\ FlagTypes' /\ OtherTypes' /\ WaitsForOwn' /\ ReadyMeansAnswer'
  <2>1. /\ aborting' \subseteq aborting /\ lvt' = lvt
        /\ response' = [response EXCEPT ![a] = NoId]
        /\ awaited' = [awaited EXCEPT ![a] = NoId]
        /\ pc' = [pc EXCEPT ![a] = "running"]
    BY <1>6 DEF RestartAgent
  <2> HIDE DEF a
  <2>2. AgentTypes' /\ FlagTypes' /\ OtherTypes'
    BY <1>1, <1>2, <1>3, <2>1 DEF AgentTypes, FlagTypes, OtherTypes
  <2>3. WaitsForOwn' /\ ReadyMeansAnswer'
    BY <1>1, <1>2, <1>3, <2>1 DEF AgentTypes, FlagTypes, WaitsForOwn, ReadyMeansAnswer, IType
  <2> QED
    BY <2>2, <2>3
<1> QED
  BY <1>4, <1>5, <1>6, TypesByPart, PTL

LEMMA NextKeepsTypes == IType /\ [Next]_vars => IType'
<1> SUFFICES ASSUME IType, [Next]_vars PROVE IType'
  OBVIOUS
<1>1. ASSUME NEW a \in Agent, AgentThread(a) PROVE IType'
  BY <1>1, RequestKeepsTypes, AgentKeepsTypes DEF AgentThread
<1>2. ASSUME SendThread PROVE IType'
  BY <1>2, SendThreadKeepsTypes
<1>3. ASSUME (ReceiveResponse \/ DismissRollback) /\ UNCHANGED met PROVE IType'
  BY <1>3, InboxKeepsTypes
<1>4. ASSUME CarryOutRollback PROVE IType'
  <2>1. MetType'
    BY <1>4, MetKeepsType DEF CarryOutRollback
  <2> QED
    BY <1>4, <2>1, BeginKeepsTypes, JoinKeepsTypes, RemoveKeepsTypes, UndoKeepsTypes,
       EndKeepsTypes DEF CarryOutRollback
<1>5. CASE \/ Clp
           \/ \E gvt \in GvtTimes : SetGvt(gvt) /\ UNCHANGED met
           \/ \E q \in recorded, tag \in Tag : ClpRollsBack(q, tag) /\ UNCHANGED met
  BY <1>5, EnvironmentKeepsTypes
<1>6. CASE UNCHANGED vars
  BY <1>6 DEF vars, agentVars, flagVars, sendVars, clpVars, IType, TypeOK, QuietFromTheStart,
              WaitsForOwn, ReadyMeansAnswer
<1> QED
  BY <1>1, <1>2, <1>3, <1>4, <1>5, <1>6 DEF Next, Main

LEMMA ITypeAlways == Spec => []IType
  BY InitType, NextKeepsTypes, PTL DEF Spec

\* The state keeps its types: an agent's answer is fetched when there is one,
\* and what leaves the queue is a request or an anti-message (Alp.cpp:397-467).
THEOREM TypeCorrect == Spec => []TypeOK
<1>1. IType => TypeOK
  BY DEF IType
<1> QED
  BY <1>1, ITypeAlways, PTL

\* From Join to Restart the agent that is rolled back has no thread, and no
\* answer is left for it to take: it makes no request that the rollback could
\* miss (Alp.cpp:330-350).
THEOREM QuietCorrect == Spec => []QuietDuringRollback
<1>1. IType => QuietDuringRollback
  BY DEF IType, QuietFromTheStart, QuietDuringRollback, Idle
<1> QED
  BY <1>1, ITypeAlways, PTL

-----------------------------------------------------------------------------
(***************************************************************************)
(* No request is retracted twice.  The invariant is about what is on its   *)
(* way, O, of which the first "listed" places have been on the send list,  *)
(* the send list S, and the number of requests made, n.                    *)
(***************************************************************************)
Apart(O, listed, S, n) ==
    /\ \A i \in 1..Len(O) : O[i].id <= n
    /\ \A q \in S : q.id <= n
    \* One request and one anti-message for each identifier.
    /\ \A i, j \in 1..Len(O) :
         O[i].id = O[j].id /\ IsRequest(O[i]) /\ IsRequest(O[j]) => i = j
    /\ \A i, j \in 1..Len(O) :
         O[i].id = O[j].id /\ ~IsRequest(O[i]) /\ ~IsRequest(O[j]) => i = j
    \* The anti-message is behind its request.
    /\ \A i, j \in 1..Len(O) :
         O[i].id = O[j].id /\ IsRequest(O[i]) /\ ~IsRequest(O[j]) => i < j
    /\ \A p, q \in S : p.id = q.id => p = q
    \* What is retracted is no longer on the send list.
    /\ \A i \in 1..Len(O) : ~IsRequest(O[i]) => \A q \in S : q.id # O[i].id
    \* What has not been listed yet is not on it, and is not retracted either.
    /\ \A k \in 1..Len(O) :
         k > listed /\ IsRequest(O[k]) =>
           /\ \A q \in S : q.id # O[k].id
           /\ \A i \in 1..Len(O) : O[i].id = O[k].id => IsRequest(O[i])

Message == Request \cup Anti

\* Q holds some of the messages of O, in their order, and what is not listed in
\* Q is not in O.
Fewer(O, listed, Q, less) ==
    \E place \in [1..Len(Q) -> 1..Len(O)] :
      /\ \A i, j \in 1..Len(Q) : i < j => place[i] < place[j]
      /\ \A i \in 1..Len(Q) : /\ Q[i] = O[place[i]]
                              /\ i > less => place[i] > listed

\* Taking messages away, and requests off the send list.
LEMMA FewerStayApart ==
    ASSUME NEW O \in Seq(Message), NEW listed \in Nat, NEW S \in SUBSET Request, NEW n \in Nat,
           Apart(O, listed, S, n),
           NEW Q \in Seq(Message), NEW less \in Nat, NEW T \in SUBSET S,
           Fewer(O, listed, Q, less)
    PROVE  Apart(Q, less, T, n)
<1> PICK place \in [1..Len(Q) -> 1..Len(O)] :
      /\ \A i, j \in 1..Len(Q) : i < j => place[i] < place[j]
      /\ \A i \in 1..Len(Q) : Q[i] = O[place[i]] /\ (i > less => place[i] > listed)
  BY DEF Fewer
<1>0. ASSUME NEW i \in 1..Len(Q), NEW j \in 1..Len(Q)
      PROVE  /\ place[i] = place[j] => i = j
             /\ place[i] < place[j] => i < j
  <2>1. i \in Int /\ j \in Int /\ place[i] \in Int /\ place[j] \in Int
    OBVIOUS
  <2>2. (i < j => place[i] < place[j]) /\ (j < i => place[j] < place[i])
    OBVIOUS
  <2> QED
    BY <2>1, <2>2
<1>1. ASSUME NEW i \in 1..Len(Q)
      PROVE  /\ place[i] \in 1..Len(O) /\ Q[i].id = O[place[i]].id
             /\ IsRequest(Q[i]) => IsRequest(O[place[i]])
             /\ IsRequest(O[place[i]]) => IsRequest(Q[i])
  BY DEF IsRequest
<1>2. \A i \in 1..Len(Q) : Q[i].id <= n
  BY <1>1 DEF Apart
<1>3. ASSUME NEW i \in 1..Len(Q), NEW j \in 1..Len(Q), Q[i].id = Q[j].id,
             \/ IsRequest(Q[i]) /\ IsRequest(Q[j])
             \/ ~IsRequest(Q[i]) /\ ~IsRequest(Q[j])
      PROVE  i = j
  <2>1. O[place[i]].id = O[place[j]].id
    BY <1>1, <1>3
  <2>2. place[i] = place[j]
    BY <1>1, <1>3, <2>1 DEF Apart
  <2> QED
    BY <1>0, <2>2
<1>4. ASSUME NEW i \in 1..Len(Q), ~IsRequest(Q[i]), NEW q \in T
      PROVE  q.id # Q[i].id
  BY SMTT(30), <1>1, <1>4 DEF Apart
<1>5. ASSUME NEW k \in 1..Len(Q), k > less, IsRequest(Q[k])
      PROVE  /\ \A q \in T : q.id # Q[k].id
             /\ \A i \in 1..Len(Q) : Q[i].id = Q[k].id => IsRequest(Q[i])
  <2>1. place[k] > listed /\ place[k] \in 1..Len(O) /\ IsRequest(O[place[k]])
    BY <1>1, <1>5
  <2>2. /\ \A q \in S : q.id # O[place[k]].id
        /\ \A i \in 1..Len(O) : O[i].id = O[place[k]].id => IsRequest(O[i])
    BY <2>1 DEF Apart
  <2>3. \A q \in T : q.id # Q[k].id
    BY <1>1, <2>2
  <2>4. \A i \in 1..Len(Q) : Q[i].id = Q[k].id => IsRequest(Q[i])
    BY <1>1, <2>2
  <2> QED
    BY <2>3, <2>4
<1>6. \A p, q \in T : p.id = q.id => p = q
  BY DEF Apart
<1>7. \A q \in T : q.id <= n
  BY DEF Apart
<1>8. ASSUME NEW i \in 1..Len(Q), NEW j \in 1..Len(Q), Q[i].id = Q[j].id,
             IsRequest(Q[i]), ~IsRequest(Q[j])
      PROVE  i < j
  <2>1. /\ place[i] \in 1..Len(O) /\ place[j] \in 1..Len(O)
        /\ O[place[i]].id = O[place[j]].id
        /\ IsRequest(O[place[i]]) /\ ~IsRequest(O[place[j]])
    BY <1>1, <1>8
  <2>2. place[i] < place[j]
    BY <2>1 DEF Apart
  <2> QED
    BY <1>0, <2>2
<1> QED
  BY <1>2, <1>3, <1>4, <1>5, <1>6, <1>7, <1>8 DEF Apart

\* A new request goes to the end, with a new identifier.
LEMMA NewStaysApart ==
    ASSUME NEW O \in Seq(Message), NEW listed \in 0..Len(O), NEW S \in SUBSET Request,
           NEW n \in Nat, Apart(O, listed, S, n),
           NEW m \in Request, m.id = n + 1
    PROVE  Apart(Append(O, m), listed, S, n + 1)
<1> DEFINE Q == Append(O, m)
<1>1. /\ Len(Q) = Len(O) + 1 /\ Q[Len(Q)] = m /\ IsRequest(m)
      /\ \A i \in 1..Len(O) : Q[i] = O[i] /\ O[i].id <= n /\ O[i].id \in Nat
      /\ \A q \in S : q.id <= n /\ q.id \in Nat
  <2>1. \A q \in Message : q.id \in Nat
    BY ConstantFacts DEF Message, Request, Anti
  <2>2. IsRequest(m)
    BY DEF Request, IsRequest
  <2>3. \A i \in 1..Len(O) : O[i] \in Message
    OBVIOUS
  <2>4. \A q \in S : q \in Message
    BY DEF Message
  <2> QED
    BY <2>1, <2>2, <2>3, <2>4 DEF Apart
<1> HIDE DEF Q
\* The new one, or an old one.
<1>2. ASSUME NEW i \in 1..Len(Q)
      PROVE  \/ i = Len(Q) /\ Q[i].id = n + 1 /\ IsRequest(Q[i])
             \/ /\ i \in 1..Len(O) /\ Q[i].id = O[i].id /\ Q[i].id # n + 1
                /\ IsRequest(Q[i]) => IsRequest(O[i])
                /\ IsRequest(O[i]) => IsRequest(Q[i])
  <2>1. CASE i = Len(Q)
    BY <1>1, <2>1
  <2>2. CASE i # Len(Q)
    <3>1. i \in 1..Len(O)
      BY <1>1, <2>2
    <3>2. Q[i] = O[i] /\ O[i].id # n + 1
      BY <1>1, <3>1
    <3> QED
      BY <3>1, <3>2
  <2> QED
    BY <2>1, <2>2
<1>3. ASSUME NEW i \in 1..Len(Q), NEW j \in 1..Len(Q), Q[i].id = Q[j].id,
             \/ IsRequest(Q[i]) /\ IsRequest(Q[j])
             \/ ~IsRequest(Q[i]) /\ ~IsRequest(Q[j])
      PROVE  i = j
  <2>1. CASE Q[i].id = n + 1
    BY <1>2, <1>3, <2>1
  <2>2. CASE Q[i].id # n + 1
    <3>1. /\ i \in 1..Len(O) /\ j \in 1..Len(O) /\ O[i].id = O[j].id
          /\ \/ IsRequest(O[i]) /\ IsRequest(O[j])
             \/ ~IsRequest(O[i]) /\ ~IsRequest(O[j])
      BY <1>2, <1>3, <2>2
    <3> QED
      BY <3>1 DEF Apart
  <2> QED
    BY <2>1, <2>2
<1>4. \A q \in S : q.id # n + 1
  BY <1>1
<1>5. ASSUME NEW i \in 1..Len(Q), ~IsRequest(Q[i]), NEW q \in S
      PROVE  q.id # Q[i].id
  <2>1. i \in 1..Len(O) /\ Q[i].id = O[i].id /\ ~IsRequest(O[i])
    BY <1>2, <1>5
  <2> QED
    BY <2>1 DEF Apart
<1>6. ASSUME NEW k \in 1..Len(Q), k > listed, IsRequest(Q[k])
      PROVE  /\ \A q \in S : q.id # Q[k].id
             /\ \A i \in 1..Len(Q) : Q[i].id = Q[k].id => IsRequest(Q[i])
  <2>1. CASE Q[k].id = n + 1
    BY <1>2, <1>4, <2>1
  <2>2. CASE Q[k].id # n + 1
    <3>1. k \in 1..Len(O) /\ Q[k].id = O[k].id /\ IsRequest(O[k])
      BY <1>2, <1>6, <2>2
    <3>2. /\ \A q \in S : q.id # O[k].id
          /\ \A i \in 1..Len(O) : O[i].id = O[k].id => IsRequest(O[i])
      BY <1>6, <3>1 DEF Apart
    <3>3. ASSUME NEW i \in 1..Len(Q), Q[i].id = Q[k].id PROVE IsRequest(Q[i])
      BY <1>2, <2>2, <3>1, <3>2, <3>3
    <3> QED
      BY <3>1, <3>2, <3>3
  <2> QED
    BY <2>1, <2>2
<1>7. ASSUME NEW i \in 1..Len(Q) PROVE Q[i].id <= n + 1
  <2>1. Q[i].id = n + 1 \/ (i \in 1..Len(O) /\ Q[i].id = O[i].id)
    BY <1>2
  <2> QED
    BY <1>1, <2>1
<1>8. \A q \in S : q.id <= n + 1
  BY <1>1
<1>9. \A p, q \in S : p.id = q.id => p = q
  BY DEF Apart
<1>10. ASSUME NEW i \in 1..Len(Q), NEW j \in 1..Len(Q), Q[i].id = Q[j].id,
              IsRequest(Q[i]), ~IsRequest(Q[j])
       PROVE  i < j
  <2>1. j \in 1..Len(O) /\ Q[j].id = O[j].id /\ Q[j].id # n + 1 /\ ~IsRequest(O[j])
    BY <1>2, <1>10
  <2>2. i \in 1..Len(O) /\ Q[i].id = O[i].id /\ IsRequest(O[i])
    BY <1>2, <1>10, <2>1
  <2> QED
    BY <1>10, <2>1, <2>2 DEF Apart
<1> QED
  BY <1>3, <1>5, <1>6, <1>7, <1>8, <1>9, <1>10 DEF Apart, Q

\* The first that was not listed is listed now.
LEMMA ListedStaysApart ==
    ASSUME NEW O \in Seq(Message), NEW listed \in Nat, NEW S \in SUBSET Request, NEW n \in Nat,
           Apart(O, listed, S, n), listed + 1 \in 1..Len(O),
           NEW T, T = IF IsRequest(O[listed + 1]) THEN S \cup {O[listed + 1]} ELSE S
    PROVE  Apart(O, listed + 1, T, n)
<1> DEFINE m == O[listed + 1]
<1>1. CASE ~IsRequest(m)
  BY <1>1 DEF Apart
<1>2. CASE IsRequest(m)
  <2>1. /\ m.id <= n /\ T = S \cup {m}
        /\ \A q \in S : q.id # m.id
        /\ \A i \in 1..Len(O) : O[i].id = m.id => IsRequest(O[i])
    BY <1>2 DEF Apart
  <2> HIDE DEF m
  <2>2. \A q \in T : q.id <= n
    BY <2>1 DEF Apart
  <2>3. \A p, q \in T : p.id = q.id => p = q
    BY <2>1 DEF Apart
  <2>4. \A i \in 1..Len(O) : ~IsRequest(O[i]) => \A q \in T : q.id # O[i].id
    BY <2>1 DEF Apart
  <2>5. \A k \in 1..Len(O) :
          k > listed + 1 /\ IsRequest(O[k]) =>
            /\ \A q \in T : q.id # O[k].id
            /\ \A i \in 1..Len(O) : O[i].id = O[k].id => IsRequest(O[i])
    BY <1>2, <2>1 DEF Apart, m
  <2> QED
    BY <2>2, <2>3, <2>4, <2>5 DEF Apart
<1> QED
  BY <1>1, <1>2

\* What leaves the send list is retracted.
LEMMA UndoneStaysApart ==
    ASSUME NEW O \in Seq(Message), NEW listed \in Nat, NEW S \in SUBSET Request, NEW n \in Nat,
           Apart(O, listed, S, n), NEW T \in SUBSET S, NEW antis \in Seq(Anti),
           \A i \in 1..Len(antis) : \E q \in S \ T : antis[i] = AntiOf(q),
           \A i, j \in 1..Len(antis) : antis[i].id = antis[j].id => i = j
    PROVE  Apart(O \o antis, listed, T, n)
<1> DEFINE Q == O \o antis
<1>1. /\ Len(Q) = Len(O) + Len(antis)
      /\ \A i \in 1..Len(O) : Q[i] = O[i]
      /\ \A i \in 1..Len(antis) : Q[Len(O) + i] = antis[i]
  OBVIOUS
<1> HIDE DEF Q
<1>2. \A i \in 1..Len(antis) :
        ~IsRequest(antis[i]) /\ \E q \in S \ T : antis[i].id = q.id
  BY AntiOfRequest
\* A new anti-message is for nothing that is retracted already, for nothing
\* that is still listed, and for nothing that is not listed yet.
<1>3. ASSUME NEW x \in 1..Len(antis)
      PROVE  /\ antis[x].id <= n
             /\ \A k \in 1..Len(O) : ~IsRequest(O[k]) => O[k].id # antis[x].id
             /\ \A q \in T : q.id # antis[x].id
             /\ \A k \in 1..Len(O) : k > listed /\ IsRequest(O[k]) => O[k].id # antis[x].id
  BY <1>2 DEF Apart
<1> DEFINE Old(i) == /\ i \in 1..Len(O) /\ Q[i].id = O[i].id
                     /\ IsRequest(Q[i]) => IsRequest(O[i])
                     /\ IsRequest(O[i]) => IsRequest(Q[i])
           New(i) == /\ ~IsRequest(Q[i])
                     /\ \E x \in 1..Len(antis) : i = Len(O) + x /\ Q[i].id = antis[x].id
<1>4. ASSUME NEW i \in 1..Len(Q) PROVE Old(i) \/ New(i)
  <2>1. CASE i \in 1..Len(O)
    BY <1>1, <2>1
  <2>2. CASE i \notin 1..Len(O)
    <3> DEFINE x == i - Len(O)
    <3>1. x \in 1..Len(antis) /\ i = Len(O) + x
      BY <1>1, <2>2
    <3> HIDE DEF x
    <3>2. Q[i] = antis[x]
      BY <1>1, <3>1
    <3> QED
      BY <1>2, <3>1, <3>2
  <2> QED
    BY <2>1, <2>2
<1>5. ASSUME NEW i \in 1..Len(Q) PROVE Q[i].id <= n
  BY <1>3, <1>4 DEF Apart
<1>6. ASSUME NEW i \in 1..Len(Q), NEW j \in 1..Len(Q), Q[i].id = Q[j].id,
             IsRequest(Q[i]), IsRequest(Q[j])
      PROVE  i = j
  <2>1. Old(i) /\ Old(j)
    BY <1>4, <1>6
  <2> QED
    BY <1>6, <2>1 DEF Apart
<1>7. ASSUME NEW i \in 1..Len(Q), NEW j \in 1..Len(Q), Q[i].id = Q[j].id,
             ~IsRequest(Q[i]), ~IsRequest(Q[j])
      PROVE  i = j
  <2>1. CASE Old(i) /\ Old(j)
    BY <1>7, <2>1 DEF Apart
  <2>2. CASE New(i) /\ New(j)
    BY <1>7, <2>2
  <2>3. CASE Old(i) /\ New(j)
    BY <1>3, <1>7, <2>3
  <2>4. CASE New(i) /\ Old(j)
    BY <1>3, <1>7, <2>4
  <2> HIDE DEF Old, New
  <2> QED
    BY <1>4, <2>1, <2>2, <2>3, <2>4
<1>8. ASSUME NEW i \in 1..Len(Q), ~IsRequest(Q[i]), NEW q \in T
      PROVE  q.id # Q[i].id
  <2>1. CASE Old(i)
    BY <1>8, <2>1 DEF Apart
  <2>2. CASE New(i)
    BY <1>3, <2>2
  <2> HIDE DEF Old, New
  <2> QED
    BY <1>4, <2>1, <2>2
<1>9. ASSUME NEW k \in 1..Len(Q), k > listed, IsRequest(Q[k])
      PROVE  /\ \A q \in T : q.id # Q[k].id
             /\ \A i \in 1..Len(Q) : Q[i].id = Q[k].id => IsRequest(Q[i])
  <2>1. k \in 1..Len(O) /\ Q[k].id = O[k].id /\ IsRequest(O[k])
    BY <1>4, <1>9
  <2>2. /\ \A q \in T : q.id # O[k].id
        /\ \A i \in 1..Len(O) : O[i].id = O[k].id => IsRequest(O[i])
    BY <1>9, <2>1 DEF Apart
  <2>3. ASSUME NEW i \in 1..Len(Q), Q[i].id = Q[k].id PROVE IsRequest(Q[i])
    <3>1. CASE Old(i)
      BY <2>1, <2>2, <2>3, <3>1
    <3>2. CASE New(i)
      BY <1>3, <1>9, <2>1, <2>3, <3>2
    <3> HIDE DEF Old, New
    <3> QED
      BY <1>4, <3>1, <3>2
  <2> QED
    BY <2>1, <2>2, <2>3
<1>10. \A p, q \in T : p.id = q.id => p = q
  BY DEF Apart
<1>11. \A q \in T : q.id <= n
  BY DEF Apart
<1>12. ASSUME NEW i \in 1..Len(Q), NEW j \in 1..Len(Q), Q[i].id = Q[j].id,
              IsRequest(Q[i]), ~IsRequest(Q[j])
       PROVE  i < j
  <2>1. Old(i)
    BY <1>4, <1>12
  <2>2. CASE Old(j)
    BY <1>12, <2>1, <2>2 DEF Apart
  <2>3. CASE New(j)
    BY <2>1, <2>3
  <2> HIDE DEF Old, New
  <2> QED
    BY <1>4, <2>2, <2>3
<1> QED
  BY <1>5, <1>6, <1>7, <1>8, <1>9, <1>10, <1>11, <1>12 DEF Apart, Q

-----------------------------------------------------------------------------
\* What the send thread has taken, and how much of Outgoing has been listed.
Taken == wire \o (IF hand = None THEN << >> ELSE << hand.m >>)
Listed == Len(wire) + (IF hand # None /\ hand.at = "listed" THEN 1 ELSE 0)

IssuedInOrder == IsFiniteSet(issued) /\ \A q \in issued : q.id <= Cardinality(issued)

IRetracted ==
    /\ IType
    /\ IssuedInOrder
    /\ Apart(Outgoing, Listed, sendList, Cardinality(issued))

Parts ==
    /\ wire \in Seq(Message) /\ sendQueue \in Seq(Message) /\ Taken \in Seq(Message)
    /\ hand # None => hand.m \in Message /\ hand.at \in {"taken", "listed"}
    /\ Listed \in Nat /\ Listed <= Len(Taken)
    /\ Outgoing = Taken \o sendQueue
    /\ Outgoing \in Seq(Message) /\ Len(Outgoing) = Len(Taken) + Len(sendQueue)

LEMMA PartsOfOutgoing == IType => Parts
<1> SUFFICES ASSUME IType PROVE Parts
  OBVIOUS
<1>1. /\ wire \in Seq(Message) /\ sendQueue \in Seq(Message)
      /\ hand # None => hand.m \in Message /\ hand.at \in {"taken", "listed"}
  BY DEF IType, TypeOK, Message
<1>2. Taken \in Seq(Message) /\ Listed \in Nat /\ Listed <= Len(Taken)
  BY <1>1 DEF Taken, Listed
<1>3. Outgoing = Taken \o sendQueue
  BY DEF Outgoing, Taken
<1>4. Outgoing \in Seq(Message) /\ Len(Outgoing) = Len(Taken) + Len(sendQueue)
  BY <1>1, <1>2, <1>3
<1> QED
  BY <1>1, <1>2, <1>3, <1>4 DEF Parts

LEMMA InitRetracted == Init => IRetracted
<1> SUFFICES ASSUME Init PROVE IRetracted
  OBVIOUS
<1>1. wire = << >> /\ hand = None /\ sendQueue = << >> /\ sendList = {} /\ issued = {}
  BY DEF Init
<1>2. Outgoing = << >>
  BY <1>1 DEF Outgoing
<1>3. IssuedInOrder
  BY <1>1, FS_EmptySet DEF IssuedInOrder
<1>4. Apart(Outgoing, Listed, sendList, Cardinality(issued))
  BY <1>1, <1>2 DEF Apart
<1> QED
  BY <1>3, <1>4, InitType DEF IRetracted

LEMMA CountOfIssued == IssuedInOrder => Cardinality(issued) \in Nat
  BY FS_CardinalityType DEF IssuedInOrder

\* A step that takes messages away.
LEMMA FewerStep ==
    ASSUME IRetracted, IType', issued' = issued, sendList' \subseteq sendList,
           Fewer(Outgoing, Listed, Outgoing', Listed')
    PROVE  IRetracted'
<1>1. Parts /\ Parts'
  BY PartsOfOutgoing, PTL DEF IRetracted
<1>2. /\ Outgoing \in Seq(Message) /\ Listed \in Nat
      /\ Outgoing' \in Seq(Message) /\ Listed' \in Nat
  BY <1>1 DEF Parts
<1>3. sendList \in SUBSET Request /\ sendList' \in SUBSET sendList
  BY DEF IRetracted, IType, TypeOK
<1>4. Cardinality(issued) \in Nat /\ Apart(Outgoing, Listed, sendList, Cardinality(issued))
  BY CountOfIssued DEF IRetracted
<1> DEFINE n == Cardinality(issued)
<1> HIDE DEF n
<1>5. Apart(Outgoing', Listed', sendList', n)
  BY <1>2, <1>3, <1>4, FewerStayApart DEF n
<1>6. IssuedInOrder'
  BY DEF IRetracted, IssuedInOrder
<1> QED
  BY <1>5, <1>6 DEF IRetracted, n

\* What is on its way stays.
LEMMA SameOutgoing ==
    ASSUME IRetracted, IType', issued' = issued, sendList' \subseteq sendList,
           Outgoing' = Outgoing, Listed' = Listed
    PROVE  IRetracted'
<1> DEFINE place == [i \in 1..Len(Outgoing) |-> i]
<1>1. /\ place \in [1..Len(Outgoing') -> 1..Len(Outgoing)]
      /\ \A i \in 1..Len(Outgoing') : place[i] = i
  OBVIOUS
<1> HIDE DEF place
<1>2. Fewer(Outgoing, Listed, Outgoing', Listed')
  BY <1>1 DEF Fewer
<1> QED
  BY <1>2, FewerStep

LEMMA NothingSent ==
    ASSUME IRetracted, IType', UNCHANGED <<issued, wire, hand, sendQueue>>,
           sendList' \subseteq sendList
    PROVE  IRetracted'
<1>1. Outgoing' = Outgoing /\ Listed' = Listed
  BY DEF Outgoing, Listed
<1> QED
  BY <1>1, SameOutgoing

LEMMA RequestRetracted ==
    ASSUME IRetracted, IType', NEW a \in Agent, NEW kind \in {"read", "write"},
           NEW t \in Time, SendRequest(a, kind, t)
    PROVE  IRetracted'
<1> DEFINE n == Cardinality(issued)
           m == [kind |-> kind, agent |-> a, time |-> t, id |-> n + 1]
<1>1. /\ issued' = issued \cup {m} /\ sendQueue' = Append(sendQueue, m)
      /\ UNCHANGED <<wire, hand, sendList>> /\ m \in Request /\ m.id = n + 1
  BY DEF SendRequest, clpVars, Request
<1> HIDE DEF m
<1>2. /\ Parts /\ n \in Nat /\ Apart(Outgoing, Listed, sendList, n)
      /\ \A q \in issued : q.id <= n
      /\ IsFiniteSet(issued)
  BY PartsOfOutgoing, CountOfIssued DEF IRetracted, IssuedInOrder
<1>3. IsFiniteSet(issued') /\ Cardinality(issued') = n + 1
  <2>1. m \notin issued
    BY <1>1, <1>2
  <2> QED
    BY <1>1, <1>2, <2>1, FS_AddElement
<1> HIDE DEF n
<1>4. IssuedInOrder'
  <2>1. \A q \in issued : q.id \in Nat
    BY ConstantFacts DEF IRetracted, IType, TypeOK, Request
  <2> QED
    <3>1. ASSUME NEW q \in issued' PROVE q.id <= n + 1
      <4>1. q = m \/ (q \in issued /\ q.id <= n /\ q.id \in Nat)
        BY <1>1, <1>2, <2>1
      <4> QED
        BY <1>1, <1>2, <4>1
    <3> QED
      BY <1>3, <3>1 DEF IssuedInOrder
<1>5. Outgoing' = Append(Outgoing, m) /\ Listed' = Listed
  <2>1. /\ Taken \in Seq(Message) /\ sendQueue \in Seq(Message) /\ Outgoing \in Seq(Message)
        /\ Outgoing = Taken \o sendQueue /\ m \in Message
    BY <1>1, <1>2 DEF Parts, Message
  <2>2. Outgoing' = Taken \o Append(sendQueue, m) /\ Listed' = Listed
    BY <1>1 DEF Outgoing, Taken, Listed
  <2>3. Append(sendQueue, m) = sendQueue \o << m >> /\ Append(Outgoing, m) = Outgoing \o << m >>
    BY <2>1, AppendIsConcat
  <2>4. Taken \o (sendQueue \o << m >>) = (Taken \o sendQueue) \o << m >>
    BY <2>1, ConcatAssociative
  <2> QED
    BY <2>1, <2>2, <2>3, <2>4
<1>6. Apart(Append(Outgoing, m), Listed, sendList, n + 1)
  <2>1. Outgoing \in Seq(Message) /\ Listed \in 0..Len(Outgoing)
    BY <1>2 DEF Parts
  <2>2. sendList \in SUBSET Request
    BY DEF IRetracted, IType, TypeOK
  <2> QED
    BY <1>1, <1>2, <2>1, <2>2, NewStaysApart
<1> QED
  BY <1>1, <1>3, <1>4, <1>5, <1>6 DEF IRetracted

LEMMA SendThreadRetracted ==
    ASSUME IRetracted, IType', SendThread
    PROVE  IRetracted'
<1>1. Parts
  BY PartsOfOutgoing DEF IRetracted
<1>2. ASSUME TakeFromQueue PROVE IRetracted'
  <2> DEFINE m == Head(sendQueue)
  <2>1. /\ hand = None /\ sendQueue # << >>
        /\ hand' = [at |-> "taken", m |-> m] /\ sendQueue' = Tail(sendQueue)
        /\ UNCHANGED <<issued, wire, sendList>>
    BY <1>2 DEF TakeFromQueue, agentVars, clpVars
  <2>2. /\ wire \in Seq(Message) /\ sendQueue \in Seq(Message)
        /\ m \in Message /\ Tail(sendQueue) \in Seq(Message)
        /\ sendQueue = << m >> \o Tail(sendQueue)
    BY <1>1, <2>1 DEF Parts
  <2> HIDE DEF m
  <2>3. hand' # None /\ hand'.m = m /\ hand'.at # "listed"
    BY <2>1 DEF None
  <2>4. Listed' = Len(wire) /\ Listed = Len(wire)
    BY <2>1, <2>2, <2>3 DEF Listed
  <2>5. Outgoing = (wire \o << >>) \o sendQueue
    BY <2>1 DEF Outgoing
  <2>6. Outgoing' = (wire \o << m >>) \o Tail(sendQueue)
    BY <2>1, <2>3 DEF Outgoing
  <2>7. wire \o << >> = wire
    BY <2>2, ConcatEmptySeq
  <2>8. (wire \o << m >>) \o Tail(sendQueue) = wire \o (<< m >> \o Tail(sendQueue))
    <3>1. << m >> \in Seq(Message)
      BY <2>2
    <3> QED
      BY <2>2, <3>1, ConcatAssociative
  <2>9. Outgoing' = Outgoing
    BY <2>2, <2>5, <2>6, <2>7, <2>8
  <2> QED
    BY <2>1, <2>4, <2>9, SameOutgoing
<1>3. ASSUME ListRequest PROVE IRetracted'
  <2> DEFINE n == Cardinality(issued)
  <2>1. /\ hand # None /\ hand.at = "taken"
        /\ hand' = [hand EXCEPT !.at = "listed"]
        /\ sendList' = IF IsRequest(hand.m) THEN sendList \cup {hand.m} ELSE sendList
        /\ UNCHANGED <<issued, wire, sendQueue>>
    BY <1>3 DEF ListRequest, agentVars, clpVars
  <2>2. hand' # None /\ hand'.m = hand.m /\ hand'.at = "listed"
    BY <2>1 DEF IRetracted, IType, TypeOK, None
  <2>3. Outgoing' = Outgoing
    <3>1. Outgoing = (wire \o << hand.m >>) \o sendQueue
      BY <2>1 DEF Outgoing
    <3>2. Outgoing' = (wire' \o << hand'.m >>) \o sendQueue'
      BY <2>2 DEF Outgoing
    <3> QED
      BY <2>1, <2>2, <3>1, <3>2
  <2>4. Listed = Len(wire) /\ Listed' = Len(wire) + 1
    BY <1>1, <2>1, <2>2 DEF Listed, Parts
  <2>5. /\ wire \in Seq(Message) /\ hand.m \in Message /\ sendQueue \in Seq(Message)
        /\ Outgoing = (wire \o << hand.m >>) \o sendQueue
        /\ Outgoing \in Seq(Message) /\ Listed \in Nat
    BY <1>1, <2>1 DEF Parts, Outgoing
  <2>6. Listed + 1 \in 1..Len(Outgoing) /\ Outgoing[Listed + 1] = hand.m
    BY <2>4, <2>5
  <2>7. sendList \in SUBSET Request /\ n \in Nat /\ Apart(Outgoing, Listed, sendList, n)
    BY CountOfIssued DEF IRetracted, IType, TypeOK
  <2> HIDE DEF n
  <2>8. Apart(Outgoing, Listed + 1, sendList', n)
    BY <2>1, <2>5, <2>6, <2>7, ListedStaysApart
  <2>9. IssuedInOrder'
    BY <2>1 DEF IRetracted, IssuedInOrder
  <2> QED
    BY <2>1, <2>3, <2>4, <2>8, <2>9 DEF IRetracted, n
<1>4. ASSUME Transmit PROVE IRetracted'
  <2>1. /\ hand # None /\ hand.at = "listed" /\ hand' = None /\ wire' = Append(wire, hand.m)
        /\ UNCHANGED <<issued, sendQueue, sendList>>
    BY <1>4 DEF Transmit, Transmitted, agentVars
  <2>2. /\ wire \in Seq(Message) /\ hand.m \in Message /\ sendQueue \in Seq(Message)
        /\ Outgoing = (wire \o << hand.m >>) \o sendQueue
    BY <1>1, <2>1 DEF Parts, Outgoing
  <2>3. wire' \in Seq(Message) /\ Len(wire') = Len(wire) + 1
    BY <2>1, <2>2
  <2>4. Listed' = Listed
    BY <2>1, <2>3 DEF Listed
  <2>5. Outgoing' = (Append(wire, hand.m) \o << >>) \o sendQueue
    BY <2>1 DEF Outgoing
  <2>6. Append(wire, hand.m) = wire \o << hand.m >>
    BY <2>2, AppendIsConcat
  <2>7. Append(wire, hand.m) \o << >> = Append(wire, hand.m)
    BY <2>1, <2>3, ConcatEmptySeq
  <2>8. Outgoing' = Outgoing
    BY <2>2, <2>5, <2>6, <2>7
  <2> QED
    BY <2>1, <2>4, <2>8, SameOutgoing
<1> QED
  BY <1>2, <1>3, <1>4 DEF SendThread

LEMMA TailOfFront ==
    ASSUME NEW S, NEW s \in Seq(S), s # << >>, NEW t \in Seq(S)
    PROVE  Tail(s) \in Seq(S) /\ Tail(s) \o t = Tail(s \o t) /\ s \o t # << >>
<1>1. /\ Tail(s) \o t \in Seq(S) /\ Tail(s \o t) \in Seq(S) /\ Tail(s) \in Seq(S)
      /\ Len(Tail(s) \o t) = Len(Tail(s \o t)) /\ s \o t # << >>
  OBVIOUS
<1>2. \A i \in 1..Len(Tail(s) \o t) : (Tail(s) \o t)[i] = Tail(s \o t)[i]
  OBVIOUS
<1> QED
  BY <1>1, <1>2, SeqEqual

LEMMA ClpRetracted ==
    ASSUME IRetracted, IType', Clp
    PROVE  IRetracted'
<1> DEFINE h == IF hand = None THEN << >> ELSE << hand.m >>
<1>1. /\ wire # << >> /\ wire' = Tail(wire) /\ UNCHANGED <<issued, hand, sendQueue, sendList>>
  BY DEF Clp, ClpAnswers, ClpRetracts, agentVars, sendVars
<1>2. /\ wire \in Seq(Message) /\ h \in Seq(Message) /\ sendQueue \in Seq(Message)
      /\ wire \o h \in Seq(Message) /\ Outgoing \in Seq(Message)
      /\ Outgoing = (wire \o h) \o sendQueue
  BY PartsOfOutgoing DEF IRetracted, Parts, Outgoing
<1>3. Listed' = Listed - 1 /\ Listed \in Nat
  BY <1>1, <1>2 DEF Listed
<1>4. Outgoing' = (Tail(wire) \o h) \o sendQueue
  BY <1>1 DEF Outgoing
<1> HIDE DEF h
<1>5. Tail(wire) \o h = Tail(wire \o h) /\ wire \o h # << >>
  BY <1>1, <1>2, TailOfFront
<1>6. Outgoing' = Tail(Outgoing) /\ Outgoing # << >>
  BY SMTT(30), <1>2, <1>4, <1>5, TailOfFront
<1> DEFINE place == [i \in 1..Len(Outgoing') |-> i + 1]
<1>7. /\ place \in [1..Len(Outgoing') -> 1..Len(Outgoing)]
      /\ \A i \in 1..Len(Outgoing') : place[i] = i + 1 /\ Outgoing'[i] = Outgoing[i + 1]
  BY <1>2, <1>6
<1> HIDE DEF place
<1>8. \A i, j \in 1..Len(Outgoing') : i < j => place[i] < place[j]
  BY <1>7
<1>9. \A i \in 1..Len(Outgoing') : /\ Outgoing'[i] = Outgoing[place[i]]
                                   /\ i > Listed' => place[i] > Listed
  BY <1>3, <1>7
<1>10. Fewer(Outgoing, Listed, Outgoing', Listed')
  BY <1>7, <1>8, <1>9 DEF Fewer
<1> QED
  BY <1>1, <1>10, FewerStep

\* R is what stays of Q, in its order.
StaysOf(R, Q) ==
    \E p \in [1..Len(R) -> 1..Len(Q)] :
      /\ \A i, j \in 1..Len(R) : i < j => p[i] < p[j]
      /\ \A i \in 1..Len(R) : R[i] = Q[p[i]]

\* The same behind a front that stays as it is.
LEMMA BehindFront ==
    ASSUME NEW S, NEW B \in Seq(S), NEW Q \in Seq(S), NEW R \in Seq(S), StaysOf(R, Q),
           NEW k \in Nat, k <= Len(B)
    PROVE  Fewer(B \o Q, k, B \o R, k)
<1> PICK p \in [1..Len(R) -> 1..Len(Q)] :
      /\ \A i, j \in 1..Len(R) : i < j => p[i] < p[j]
      /\ \A i \in 1..Len(R) : R[i] = Q[p[i]]
  BY DEF StaysOf
<1> DEFINE b == Len(B)
           BR == B \o R
           BQ == B \o Q
           place == [i \in 1..Len(BR) |-> IF i <= b THEN i ELSE b + p[i - b]]
<1>1. /\ b \in Nat /\ Len(R) \in Nat /\ Len(Q) \in Nat
      /\ Len(BR) = b + Len(R) /\ Len(BQ) = b + Len(Q)
      /\ \A i \in 1..b : BR[i] = B[i] /\ BQ[i] = B[i]
      /\ \A i \in 1..Len(R) : BR[b + i] = R[i]
      /\ \A i \in 1..Len(Q) : BQ[b + i] = Q[i]
  OBVIOUS
<1> HIDE DEF b, BR, BQ
<1>2. \A i \in 1..Len(BR) : i <= b => place[i] = i /\ i \in 1..b
  BY <1>1
<1>3. ASSUME NEW i \in 1..Len(BR), i > b
      PROVE  i - b \in 1..Len(R) /\ p[i - b] \in 1..Len(Q) /\ place[i] = b + p[i - b]
  <2>1. i - b \in 1..Len(R) /\ ~(i <= b)
    BY <1>1, <1>3
  <2>2. p[i - b] \in 1..Len(Q)
    BY <2>1
  <2>3. place[i] = b + p[i - b]
    BY <2>1
  <2> QED
    BY <2>1, <2>2, <2>3
<1> HIDE DEF place
<1>4. ASSUME NEW i \in 1..Len(BR)
      PROVE  i \in Int /\ place[i] \in 1..Len(BQ) /\ place[i] \in Int
  <2>1. CASE i <= b
    BY <1>1, <1>2, <2>1
  <2>2. CASE i > b
    <3>1. p[i - b] \in 1..Len(Q) /\ place[i] = b + p[i - b]
      BY <1>3, <2>2
    <3> QED
      BY <1>1, <3>1
  <2> QED
    BY <1>1, <2>1, <2>2
<1>5. ASSUME NEW i \in 1..Len(BR), NEW j \in 1..Len(BR), i < j
      PROVE  place[i] < place[j]
  <2>1. CASE j <= b
    BY <1>1, <1>2, <1>5, <2>1
  <2>2. CASE i <= b /\ j > b
    BY SMTT(30), <1>1, <1>2, <1>3, <1>5, <2>2
  <2>3. CASE i > b /\ j > b
    <3>1. p[i - b] < p[j - b]
      <4> DEFINE x == i - b
                 y == j - b
      <4>1. x \in 1..Len(R) /\ y \in 1..Len(R) /\ x < y
        BY <1>1, <1>3, <1>5, <2>3
      <4> HIDE DEF x, y
      <4>2. p[x] < p[y]
        BY <4>1
      <4> QED
        BY <4>2 DEF x, y
    <3>2. p[i - b] \in Int /\ p[j - b] \in Int /\ b \in Int
      BY <1>1, <1>3, <2>3
    <3>3. place[i] = b + p[i - b] /\ place[j] = b + p[j - b]
      BY <1>3, <2>3
    <3>4. b + p[i - b] < b + p[j - b]
      BY <3>1, <3>2
    <3> QED
      BY <3>3, <3>4
  <2> QED
    BY <1>1, <1>5, <2>1, <2>2, <2>3
<1>7. ASSUME NEW i \in 1..Len(BR)
      PROVE  BR[i] = BQ[place[i]] /\ (i > k => place[i] > k)
  <2>1. CASE i <= b
    BY <1>1, <1>2, <2>1
  <2>2. CASE i > b
    <3> DEFINE j == i - b
    <3>1. j \in 1..Len(R) /\ p[j] \in 1..Len(Q) /\ place[i] = b + p[j] /\ i = b + j
      BY <1>1, <1>3, <2>2
    <3> HIDE DEF j
    <3>2. BR[b + j] = R[j] /\ BQ[b + p[j]] = Q[p[j]] /\ R[j] = Q[p[j]]
      BY <1>1, <3>1
    <3>3. place[i] > k
      BY <1>1, <3>1 DEF b
    <3> QED
      BY <3>1, <3>2, <3>3
  <2> QED
    BY <1>1, <2>1, <2>2
<1>8. place \in [1..Len(BR) -> 1..Len(BQ)]
  BY <1>4 DEF place
<1> QED
  BY <1>5, <1>7, <1>8 DEF BR, BQ, Fewer

LEMMA RemoveRetracted ==
    ASSUME IRetracted, IType', RemoveQueued
    PROVE  IRetracted'
<1>1. Parts /\ SendTypes
  BY PartsOfOutgoing DEF IRetracted, IType, TypeOK, SendTypes
<1>2. UNCHANGED <<wire, hand, sendList, issued>>
  BY DEF RemoveQueued, clpVars, agentVars
<1>3. PICK n \in Nat : \E p \in [1..n -> DOMAIN sendQueue] :
        /\ \A i, j \in 1..n : i < j => p[i] < p[j]
        /\ sendQueue' = [i \in 1..n |-> sendQueue[p[i]]]
        /\ sendQueue' \in Seq(Request \cup Anti)
  BY <1>1, QueueAfterRemoval
<1>4. PICK p \in [1..n -> DOMAIN sendQueue] :
        /\ \A i, j \in 1..n : i < j => p[i] < p[j]
        /\ sendQueue' = [i \in 1..n |-> sendQueue[p[i]]]
        /\ sendQueue' \in Seq(Request \cup Anti)
  BY <1>3
<1>5. sendQueue' \in Seq(Message) /\ sendQueue \in Seq(Message) /\ Taken \in Seq(Message)
  BY <1>1, <1>4 DEF Parts, Message
<1>6. Len(sendQueue') = n /\ DOMAIN sendQueue = 1..Len(sendQueue)
  BY <1>4, <1>5
<1>7. StaysOf(sendQueue', sendQueue)
  BY <1>4, <1>6 DEF StaysOf
<1>8. /\ Outgoing = Taken \o sendQueue /\ Outgoing' = Taken \o sendQueue'
      /\ Listed' = Listed /\ Listed \in Nat /\ Listed <= Len(Taken)
  BY <1>1, <1>2 DEF Parts, Outgoing, Taken, Listed
<1>9. Fewer(Outgoing, Listed, Outgoing', Listed')
  <2>1. Fewer(Taken \o sendQueue, Listed, Taken \o sendQueue', Listed)
    BY <1>5, <1>7, <1>8, BehindFront
  <2> QED
    BY <1>8, <2>1
<1> QED
  BY <1>2, <1>9, FewerStep

LEMMA UndoRetracted ==
    ASSUME IRetracted, IType', UndoSent
    PROVE  IRetracted'
<1> DEFINE n == Cardinality(issued)
<1>1. Parts /\ SendTypes
  BY PartsOfOutgoing DEF IRetracted, IType, TypeOK, SendTypes
<1>2. UNCHANGED <<wire, hand, issued>> /\ sendList' \in SUBSET sendList
  BY DEF UndoSent, clpVars, agentVars, WithoutUndone
<1>3. PICK antis \in Seq(Anti) :
        /\ \A i \in 1..Len(antis) : \E q \in sendList \ sendList' : antis[i] = AntiOf(q)
        /\ \A i, j \in 1..Len(antis) : antis[i].id = antis[j].id => i = j
        /\ sendQueue' = sendQueue \o antis
  BY <1>1, QueueAfterUndo
<1>4. /\ Taken \in Seq(Message) /\ sendQueue \in Seq(Message) /\ antis \in Seq(Message)
      /\ Outgoing \in Seq(Message) /\ Outgoing = Taken \o sendQueue
      /\ Listed \in Nat
  BY <1>1 DEF Parts, Message
<1>5. Outgoing' = Taken \o (sendQueue \o antis) /\ Listed' = Listed
  BY <1>2, <1>3 DEF Outgoing, Taken, Listed
<1>6. Outgoing' = Outgoing \o antis
  BY SMTT(30), <1>4, <1>5, ConcatAssociative
<1>7. sendList \in SUBSET Request /\ n \in Nat /\ Apart(Outgoing, Listed, sendList, n)
  BY CountOfIssued DEF IRetracted, IType, TypeOK
<1> HIDE DEF n
<1>8. Apart(Outgoing \o antis, Listed, sendList', n)
  BY <1>2, <1>3, <1>4, <1>7, UndoneStaysApart
<1>9. IssuedInOrder'
  BY <1>2 DEF IRetracted, IssuedInOrder
<1> QED
  BY <1>2, <1>5, <1>6, <1>8, <1>9 DEF IRetracted, n

LEMMA NextRetracted == IRetracted /\ [Next]_vars => IRetracted'
<1> SUFFICES ASSUME IRetracted, [Next]_vars PROVE IRetracted'
  OBVIOUS
<1>1. IType'
  BY NextKeepsTypes DEF IRetracted
<1> USE DEF agentVars, sendVars, clpVars
<1>2. ASSUME NEW a \in Agent, AgentThread(a) PROVE IRetracted'
  <2>1. CASE \E kind \in {"read", "write"}, t \in Time : SendRequest(a, kind, t)
    BY <1>1, <2>1, RequestRetracted
  <2>2. CASE TakeResponse(a) \/ Aborts(a) \/ BodyReturns(a)
    BY <1>1, <2>2, NothingSent DEF TakeResponse, Aborts, BodyReturns
  <2> QED
    BY <1>2, <2>1, <2>2 DEF AgentThread
<1>3. CASE SendThread
  BY <1>1, <1>3, SendThreadRetracted
<1>4. CASE ReceiveResponse \/ DismissRollback
  BY <1>1, <1>4, NothingSent DEF ReceiveResponse, DismissRollback
<1>5. CASE BeginRollback \/ JoinAgent \/ UndoBeforeGvt \/ RestartAgent
  BY <1>1, <1>5, NothingSent
     DEF BeginRollback, JoinAgent, UndoBeforeGvt, RestartAgent, WithoutUndone
<1>6. CASE RemoveQueued
  BY <1>1, <1>6, RemoveRetracted
<1>7. CASE UndoSent
  BY <1>1, <1>7, UndoRetracted
<1>8. CASE Clp
  BY <1>1, <1>8, ClpRetracted
<1>9. ASSUME NEW gvt \in GvtTimes, SetGvt(gvt) PROVE IRetracted'
  BY <1>1, <1>9, NothingSent DEF SetGvt
<1>10. ASSUME NEW q \in recorded, NEW tag \in Tag, ClpRollsBack(q, tag) PROVE IRetracted'
  BY <1>1, <1>10, NothingSent DEF ClpRollsBack
<1>11. CASE UNCHANGED vars
  BY <1>1, <1>11, NothingSent DEF vars
<1> QED
  BY <1>2, <1>3, <1>4, <1>5, <1>6, <1>7, <1>8, <1>9, <1>10, <1>11
     DEF Next, Main, CarryOutRollback

\* A request is retracted at most once, whichever rollbacks are carried out and
\* wherever the send thread is: no two anti-messages for it are on the way, and
\* what is retracted is not on the send list (Alp.cpp:397-467).
THEOREM RetractedOnceCorrect == Spec => []RetractedOnce
<1>1. Init => IRetracted
  BY InitRetracted
<1>2. IRetracted /\ [Next]_vars => IRetracted'
  BY NextRetracted
<1>3. IRetracted => RetractedOnce
  <2> SUFFICES ASSUME IRetracted PROVE RetractedOnce
    OBVIOUS
  <2>1. Parts /\ Apart(Outgoing, Listed, sendList, Cardinality(issued))
    BY PartsOfOutgoing DEF IRetracted
  <2>2. DOMAIN Outgoing = 1..Len(Outgoing)
    BY <2>1 DEF Parts
  <2> QED
    BY <2>1, <2>2 DEF Apart, RetractedOnce
<1> QED
  BY <1>1, <1>2, <1>3, PTL DEF Spec

-----------------------------------------------------------------------------
(***************************************************************************)
(* The answers an agent takes and the requests a rollback undoes.  Their   *)
(* proofs speak of what is on its way as a set, Way: of requests that are  *)
(* not on the wire yet, Unsent, and of requests that have passed the send  *)
(* list, OnWire.                                                           *)
(***************************************************************************)
InHand == IF hand = None THEN {} ELSE {hand.m}
Way == ToSet(Outgoing)
Unsent == {x \in InHand \cup ToSet(sendQueue) : IsRequest(x)}
UnsentOf(a) == {x \in Unsent : x.agent = a}
OnWire == {x \in ToSet(wire) : IsRequest(x)}
          \cup {x \in InHand : IsRequest(x) /\ hand.at = "listed"}

LEMMA ToSetOfAppend ==
    ASSUME NEW S, NEW s \in Seq(S), NEW x \in S
    PROVE  ToSet(Append(s, x)) = ToSet(s) \cup {x}
<1> DEFINE t == Append(s, x)
<1>1. /\ DOMAIN t = 1..(Len(s) + 1) /\ DOMAIN s = 1..Len(s) /\ Len(s) \in Nat
      /\ \A i \in 1..Len(s) : t[i] = s[i]
      /\ t[Len(s) + 1] = x
  OBVIOUS
<1> HIDE DEF t
<1>2. ToSet(t) \subseteq ToSet(s) \cup {x}
  <2> SUFFICES ASSUME NEW i \in 1..(Len(s) + 1) PROVE t[i] \in ToSet(s) \cup {x}
    BY <1>1 DEF ToSet
  <2> QED
    BY <1>1 DEF ToSet
<1>3. ToSet(s) \cup {x} \subseteq ToSet(t)
  <2>1. \A i \in 1..Len(s) : s[i] \in ToSet(t)
    BY <1>1 DEF ToSet
  <2>2. x \in ToSet(t)
    BY <1>1 DEF ToSet
  <2> QED
    BY <1>1, <2>1, <2>2 DEF ToSet
<1> QED
  BY <1>2, <1>3 DEF t

LEMMA ToSetOfTail ==
    ASSUME NEW S, NEW s \in Seq(S), s # << >>
    PROVE  ToSet(s) = {Head(s)} \cup ToSet(Tail(s))
<1> DEFINE t == Tail(s)
<1>1. /\ DOMAIN t = 1..(Len(s) - 1) /\ DOMAIN s = 1..Len(s) /\ Len(s) \in Nat /\ Len(s) >= 1
      /\ \A i \in 1..(Len(s) - 1) : t[i] = s[i + 1]
      /\ Head(s) = s[1]
  OBVIOUS
<1> HIDE DEF t
<1>2. ASSUME NEW i \in 1..Len(s) PROVE s[i] \in {Head(s)} \cup ToSet(t)
  <2>1. CASE i = 1
    BY <1>1, <2>1
  <2>2. CASE i # 1
    <3> DEFINE j == i - 1
    <3>1. j \in 1..(Len(s) - 1) /\ j + 1 = i
      BY <1>1, <2>2
    <3> HIDE DEF j
    <3>2. t[j] = s[i]
      BY <1>1, <3>1
    <3> QED
      BY <1>1, <3>1, <3>2 DEF ToSet
  <2> QED
    BY <2>1, <2>2
<1>3. ASSUME NEW i \in 1..(Len(s) - 1) PROVE t[i] \in ToSet(s)
  <2>1. i + 1 \in 1..Len(s)
    BY <1>1
  <2> QED
    BY <1>1, <2>1 DEF ToSet
<1>4. Head(s) \in ToSet(s)
  BY <1>1 DEF ToSet
<1>5. ToSet(t) \subseteq ToSet(s)
  BY <1>1, <1>3 DEF ToSet
<1>6. ToSet(s) \subseteq {Head(s)} \cup ToSet(t)
  BY <1>1, <1>2 DEF ToSet
<1> QED
  BY <1>4, <1>5, <1>6 DEF t

LEMMA ToSetOfConcat ==
    ASSUME NEW S, NEW s \in Seq(S), NEW t \in Seq(S)
    PROVE  ToSet(s \o t) = ToSet(s) \cup ToSet(t)
<1> DEFINE u == s \o t
<1>1. /\ DOMAIN u = 1..(Len(s) + Len(t)) /\ DOMAIN s = 1..Len(s) /\ DOMAIN t = 1..Len(t)
      /\ Len(s) \in Nat /\ Len(t) \in Nat
      /\ \A i \in 1..Len(s) : u[i] = s[i]
      /\ \A i \in 1..Len(t) : u[Len(s) + i] = t[i]
  OBVIOUS
<1> HIDE DEF u
<1>2. ASSUME NEW i \in 1..(Len(s) + Len(t)) PROVE u[i] \in ToSet(s) \cup ToSet(t)
  <2>1. CASE i \in 1..Len(s)
    BY <1>1, <2>1 DEF ToSet
  <2>2. CASE i \notin 1..Len(s)
    <3> DEFINE j == i - Len(s)
    <3>1. j \in 1..Len(t) /\ Len(s) + j = i
      BY <1>1, <2>2
    <3> HIDE DEF j
    <3> QED
      BY <1>1, <3>1 DEF ToSet
  <2> QED
    BY <2>1, <2>2
<1>3. ASSUME NEW i \in 1..Len(t) PROVE t[i] \in ToSet(u)
  <2>1. Len(s) + i \in 1..(Len(s) + Len(t))
    BY <1>1
  <2> QED
    BY <1>1, <2>1 DEF ToSet
<1>4. \A i \in 1..Len(s) : s[i] \in ToSet(u)
  BY <1>1 DEF ToSet
<1>5. ToSet(s) \subseteq ToSet(u) /\ ToSet(t) \subseteq ToSet(u)
  BY <1>1, <1>3, <1>4 DEF ToSet
<1>6. ToSet(u) \subseteq ToSet(s) \cup ToSet(t)
  BY <1>1, <1>2 DEF ToSet
<1> QED
  BY <1>5, <1>6 DEF u

LEMMA ToSetTyped ==
    ASSUME NEW S, NEW s \in Seq(S)
    PROVE  ToSet(s) \subseteq S
  BY DEF ToSet

LEMMA ToSetOfEmpty == ToSet(<< >>) = {}
  BY DEF ToSet

WayHasParts ==
    /\ Way = ToSet(wire) \cup InHand \cup ToSet(sendQueue)
    /\ ToSet(wire) \subseteq Message /\ InHand \subseteq Message
    /\ ToSet(sendQueue) \subseteq Message

LEMMA WayParts == IType => WayHasParts
<1> SUFFICES ASSUME IType PROVE WayHasParts
  OBVIOUS
<1> DEFINE h == IF hand = None THEN << >> ELSE << hand.m >>
<1>1. Parts
  BY PartsOfOutgoing
<1>2. /\ wire \in Seq(Message) /\ sendQueue \in Seq(Message) /\ wire \o h \in Seq(Message)
      /\ Outgoing = (wire \o h) \o sendQueue
  BY <1>1 DEF Parts, Taken
<1>3. h \in Seq(Message) /\ ToSet(h) = InHand
  <2>1. CASE hand = None
    <3>1. h = << >> /\ InHand = {}
      BY <2>1 DEF InHand
    <3> QED
      BY <3>1, ToSetOfEmpty
  <2>2. CASE hand # None
    <3>1. h = << hand.m >> /\ InHand = {hand.m} /\ hand.m \in Message
      BY <1>1, <2>2 DEF InHand, Parts
    <3>2. DOMAIN << hand.m >> = {1} /\ << hand.m >>[1] = hand.m
      OBVIOUS
    <3>3. ToSet(<< hand.m >>) = {hand.m}
      BY <3>2 DEF ToSet
    <3> QED
      BY <3>1, <3>3
  <2> QED
    BY <2>1, <2>2
<1> HIDE DEF h
<1>4. Way = ToSet(wire \o h) \cup ToSet(sendQueue)
  BY ZenonT(30), <1>2, ToSetOfConcat DEF Way
<1>5. ToSet(wire \o h) = ToSet(wire) \cup ToSet(h)
  BY <1>2, <1>3, ToSetOfConcat
<1>6. /\ ToSet(wire) \subseteq Message /\ ToSet(h) \subseteq Message
      /\ ToSet(sendQueue) \subseteq Message
  BY <1>2, <1>3, ToSetTyped
<1> QED
  BY <1>3, <1>4, <1>5, <1>6 DEF WayHasParts

\* A message for each identifier, as Apart says.
LEMMA WayIsApart ==
    ASSUME IRetracted
    PROVE  /\ \A x \in Way : x.id <= Cardinality(issued)
           /\ \A x, y \in Way : x.id = y.id /\ IsRequest(x) /\ IsRequest(y) => x = y
           /\ \A p, q \in sendList : p.id = q.id => p = q
<1> DEFINE n == Cardinality(issued)
<1>1. Apart(Outgoing, Listed, sendList, n) /\ DOMAIN Outgoing = 1..Len(Outgoing)
  BY PartsOfOutgoing DEF IRetracted, Parts
<1> HIDE DEF n
<1>2. /\ \A i \in 1..Len(Outgoing) : Outgoing[i].id <= n
      /\ \A i, j \in 1..Len(Outgoing) :
           Outgoing[i].id = Outgoing[j].id /\ IsRequest(Outgoing[i]) /\ IsRequest(Outgoing[j])
             => i = j
      /\ \A p, q \in sendList : p.id = q.id => p = q
  BY <1>1 DEF Apart
<1>3. \A x \in Way : \E i \in 1..Len(Outgoing) : x = Outgoing[i]
  BY <1>1 DEF Way, ToSet
<1>4. \A x \in Way : x.id <= n
  BY <1>2, <1>3
<1>5. ASSUME NEW x \in Way, NEW y \in Way, x.id = y.id, IsRequest(x), IsRequest(y)
      PROVE  x = y
  BY <1>2, <1>3, <1>5
<1> QED
  BY <1>2, <1>4, <1>5 DEF n

\* What each step does to these sets.
LEMMA WayStays ==
    ASSUME UNCHANGED <<wire, hand, sendQueue>>
    PROVE  Way' = Way /\ Unsent' = Unsent /\ OnWire' = OnWire
  BY DEF Way, Unsent, OnWire, InHand, Outgoing

LEMMA WayAtRequest ==
    ASSUME IRetracted, IType', NEW a \in Agent, NEW kind \in {"read", "write"},
           NEW t \in Time, SendRequest(a, kind, t)
    PROVE  \E m \in Request :
             /\ m.agent = a /\ m.time = t /\ m.id = Cardinality(issued) + 1 /\ IsRequest(m)
             /\ issued' = issued \cup {m}
             /\ Way' = Way \cup {m} /\ Unsent' = Unsent \cup {m} /\ OnWire' = OnWire
<1> DEFINE m == [kind |-> kind, agent |-> a, time |-> t, id |-> Cardinality(issued) + 1]
<1>1. /\ m \in Request /\ IsRequest(m) /\ m.agent = a /\ m.time = t
      /\ m.id = Cardinality(issued) + 1
      /\ issued' = issued \cup {m} /\ sendQueue' = Append(sendQueue, m)
      /\ UNCHANGED <<wire, hand>>
  BY DEF SendRequest, clpVars, Request, IsRequest
<1> HIDE DEF m
<1>2. IType /\ sendQueue \in Seq(Message) /\ m \in Message
  BY <1>1, PartsOfOutgoing DEF IRetracted, Parts, Message
<1>3. ToSet(sendQueue') = ToSet(sendQueue) \cup {m}
  BY <1>1, <1>2, ToSetOfAppend
<1>4. InHand' = InHand /\ ToSet(wire)' = ToSet(wire) /\ OnWire' = OnWire
  BY <1>1 DEF InHand, OnWire
<1>5. WayHasParts /\ WayHasParts'
  BY <1>2, WayParts, PTL
<1>6. Way' = Way \cup {m}
  BY <1>3, <1>4, <1>5 DEF WayHasParts
<1>7. Unsent' = Unsent \cup {m}
  BY <1>1, <1>3, <1>4 DEF Unsent
<1> QED
  BY <1>1, <1>4, <1>6, <1>7

LEMMA WayAtSend ==
    ASSUME IType, IType', SendThread
    PROVE  /\ Way' = Way /\ Unsent' \subseteq Unsent
           /\ sendList \subseteq sendList' /\ OnWire' \subseteq OnWire \cup sendList'
<1>1. /\ wire \in Seq(Message) /\ sendQueue \in Seq(Message)
      /\ hand # None => hand.m \in Message /\ hand.at \in {"taken", "listed"}
  BY PartsOfOutgoing DEF Parts
<1>2. WayHasParts /\ WayHasParts'
  BY WayParts, PTL
<1>3. CASE TakeFromQueue
  <2>1. /\ hand = None /\ sendQueue # << >>
        /\ hand' = [at |-> "taken", m |-> Head(sendQueue)] /\ sendQueue' = Tail(sendQueue)
        /\ UNCHANGED <<wire, sendList>>
    BY <1>3 DEF TakeFromQueue, clpVars
  <2>2. hand' # None /\ hand'.m = Head(sendQueue) /\ hand'.at = "taken"
    BY <2>1 DEF None
  <2>3. InHand = {} /\ InHand' = {Head(sendQueue)} /\ ToSet(wire)' = ToSet(wire)
    BY <2>1, <2>2 DEF InHand
  <2>4. ToSet(sendQueue) = {Head(sendQueue)} \cup ToSet(sendQueue)'
    BY <1>1, <2>1, ToSetOfTail
  <2>5. Way' = Way
    BY <1>2, <2>3, <2>4 DEF WayHasParts
  <2>6. Unsent' = Unsent
    BY <2>3, <2>4 DEF Unsent
  <2>7. OnWire' = OnWire
    BY <2>2, <2>3 DEF OnWire
  <2> QED
    BY <2>1, <2>5, <2>6, <2>7
<1>4. CASE ListRequest
  <2>1. /\ hand # None /\ hand' = [hand EXCEPT !.at = "listed"]
        /\ sendList' = IF IsRequest(hand.m) THEN sendList \cup {hand.m} ELSE sendList
        /\ UNCHANGED <<wire, sendQueue>>
    BY <1>4 DEF ListRequest, clpVars
  <2>2. hand' # None /\ hand'.m = hand.m
    BY <2>1 DEF IType, TypeOK, None
  <2>3. InHand' = {hand.m} /\ InHand = {hand.m} /\ ToSet(wire)' = ToSet(wire)
        /\ ToSet(sendQueue)' = ToSet(sendQueue)
    BY <2>1, <2>2 DEF InHand
  <2>4. Way' = Way
    BY <1>2, <2>3 DEF WayHasParts
  <2>5. Unsent' = Unsent
    BY <2>3 DEF Unsent
  <2>6. OnWire' \subseteq OnWire \cup sendList'
    BY <2>1, <2>3 DEF OnWire
  <2> QED
    BY <2>1, <2>4, <2>5, <2>6
<1>5. CASE Transmit
  <2>1. /\ hand # None /\ hand.at = "listed" /\ hand' = None
        /\ wire' = Append(wire, hand.m)
        /\ UNCHANGED <<sendQueue, sendList>>
    BY <1>5 DEF Transmit, Transmitted
  <2>2. InHand = {hand.m} /\ InHand' = {} /\ ToSet(sendQueue)' = ToSet(sendQueue)
    BY <2>1 DEF InHand
  <2>3. ToSet(wire)' = ToSet(wire) \cup {hand.m}
    BY <1>1, <2>1, ToSetOfAppend
  <2>4. Way' = Way
    BY <1>2, <2>2, <2>3 DEF WayHasParts
  <2>5. Unsent' \subseteq Unsent
    BY <2>2 DEF Unsent
  <2>6. OnWire' = OnWire
    BY <2>1, <2>2, <2>3 DEF OnWire
  <2> QED
    BY <2>1, <2>4, <2>5, <2>6
<1> QED
  BY <1>3, <1>4, <1>5 DEF SendThread

LEMMA WayAtClp ==
    ASSUME IRetracted, IType', Clp
    PROVE  /\ wire # << >>
           /\ Way = Way' \cup {Head(wire)} /\ Unsent' = Unsent /\ OnWire' \subseteq OnWire
           /\ IsRequest(Head(wire)) => Head(wire) \in OnWire
           /\ \A x \in Way' : IsRequest(x) => x.id # Head(wire).id
<1> DEFINE h == Head(wire)
<1>1. /\ wire # << >> /\ wire' = Tail(wire) /\ UNCHANGED <<issued, hand, sendQueue, sendList>>
  BY DEF Clp, ClpAnswers, ClpRetracts, agentVars, sendVars
<1>2. /\ IType /\ wire \in Seq(Message) /\ Taken \in Seq(Message) /\ sendQueue \in Seq(Message)
      /\ Outgoing = Taken \o sendQueue
      /\ Apart(Outgoing, Listed, sendList, Cardinality(issued)) /\ Outgoing \in Seq(Message)
  BY PartsOfOutgoing DEF IRetracted, Parts
<1>3. ToSet(wire) = {h} \cup ToSet(wire)'
  BY <1>1, <1>2, ToSetOfTail
<1>4. InHand' = InHand /\ ToSet(sendQueue)' = ToSet(sendQueue) /\ Unsent' = Unsent
  BY <1>1 DEF InHand, Unsent
<1>5. WayHasParts /\ WayHasParts'
  BY <1>2, WayParts, PTL
<1>6. Way = Way' \cup {h}
  BY <1>3, <1>4, <1>5 DEF WayHasParts
<1>7. OnWire' \subseteq OnWire /\ (IsRequest(h) => h \in OnWire)
  BY <1>1, <1>3, <1>4 DEF OnWire
\* It is the first of all.
<1>8. Outgoing # << >> /\ Outgoing[1] = h /\ Outgoing' = Tail(Outgoing)
  <2> DEFINE f == IF hand = None THEN << >> ELSE << hand.m >>
  <2>1. f \in Seq(Message) /\ Taken = wire \o f
    BY PartsOfOutgoing, <1>2 DEF Taken, Parts
  <2>2. Outgoing' = (Tail(wire) \o f) \o sendQueue
    BY <1>1 DEF Outgoing
  <2> HIDE DEF f
  <2>3. Tail(wire) \o f = Tail(Taken) /\ Taken # << >>
    BY <1>1, <1>2, <2>1, TailOfFront
  <2>4. Outgoing' = Tail(Outgoing) /\ Outgoing # << >>
    BY <1>2, <2>2, <2>3, TailOfFront
  <2>5. Taken[1] = h
    BY <1>1, <1>2, <2>1
  <2>6. Outgoing[1] = h
    BY <1>2, <2>3, <2>5
  <2> QED
    BY <2>4, <2>6
<1> HIDE DEF h
<1>9. ASSUME NEW x \in Way', IsRequest(x), x.id = h.id PROVE FALSE
  <2>1. Len(Outgoing) \in Nat /\ Len(Outgoing) >= 1 /\ DOMAIN Outgoing = 1..Len(Outgoing)
        /\ DOMAIN Outgoing' = 1..(Len(Outgoing) - 1)
    BY <1>2, <1>8
  <2>2. PICK i \in 1..(Len(Outgoing) - 1) : x = Outgoing'[i]
    BY <2>1 DEF Way, ToSet
  <2> DEFINE j == i + 1
  <2>3. j \in 1..Len(Outgoing) /\ 1 \in 1..Len(Outgoing) /\ j > 1 /\ x = Outgoing[j]
    BY <1>2, <1>8, <2>1, <2>2
  <2> HIDE DEF j
  <2>4. CASE IsRequest(h)
    <3>1. j = 1
      BY <1>2, <1>8, <1>9, <2>3, <2>4 DEF Apart
    <3> QED
      BY <2>3, <3>1
  <2>5. CASE ~IsRequest(h)
    <3>1. j < 1
      BY <1>2, <1>8, <1>9, <2>3, <2>5 DEF Apart
    <3> QED
      BY <2>3, <3>1
  <2> QED
    BY <2>4, <2>5
<1> QED
  BY <1>1, <1>4, <1>6, <1>7, <1>9 DEF h

LEMMA WayAtRemoval ==
    ASSUME IType, IType', RemoveQueued
    PROVE  /\ Way' \subseteq Way /\ Unsent' \subseteq Unsent /\ OnWire' = OnWire
           /\ \A x \in Way : ~IsRequest(x) => x \in Way'
           /\ hand = None => \A x \in Unsent' : ~IsUndone(x, main.rollback)
<1>1. SendTypes /\ UNCHANGED <<wire, hand>>
  BY DEF IType, TypeOK, SendTypes, RemoveQueued, clpVars
<1>2. PICK n \in Nat : \E p \in [1..n -> DOMAIN sendQueue] :
        /\ sendQueue' = [i \in 1..n |-> sendQueue[p[i]]]
        /\ \A i \in DOMAIN sendQueue :
             ~IsUndone(sendQueue[i], main.rollback) <=> \E j \in 1..n : p[j] = i
  BY <1>1, QueueAfterRemoval
<1>3. PICK p \in [1..n -> DOMAIN sendQueue] :
        /\ sendQueue' = [i \in 1..n |-> sendQueue[p[i]]]
        /\ \A i \in DOMAIN sendQueue :
             ~IsUndone(sendQueue[i], main.rollback) <=> \E j \in 1..n : p[j] = i
  BY <1>2
<1>4. DOMAIN sendQueue' = 1..n
  BY <1>3
<1>5. ASSUME NEW i \in 1..n
      PROVE  /\ sendQueue'[i] \in ToSet(sendQueue)
             /\ ~IsUndone(sendQueue'[i], main.rollback)
  <2>1. p[i] \in DOMAIN sendQueue /\ sendQueue'[i] = sendQueue[p[i]]
    BY <1>3
  <2>2. ~IsUndone(sendQueue[p[i]], main.rollback)
    BY <1>3, <2>1
  <2> QED
    BY <2>1, <2>2 DEF ToSet
<1>6. ASSUME NEW i \in DOMAIN sendQueue, ~IsUndone(sendQueue[i], main.rollback)
      PROVE  sendQueue[i] \in ToSet(sendQueue)'
  <2>1. PICK j \in 1..n : p[j] = i
    BY <1>3, <1>6
  <2>2. sendQueue'[j] = sendQueue[i]
    BY <1>3, <2>1
  <2> QED
    BY <1>4, <2>2 DEF ToSet
<1>7. \A x \in ToSet(sendQueue)' : x \in ToSet(sendQueue) /\ ~IsUndone(x, main.rollback)
  BY <1>4, <1>5 DEF ToSet
<1>8. \A x \in ToSet(sendQueue) : ~IsUndone(x, main.rollback) => x \in ToSet(sendQueue)'
  BY <1>6 DEF ToSet
<1>9. InHand' = InHand /\ ToSet(wire)' = ToSet(wire) /\ OnWire' = OnWire
  BY <1>1 DEF InHand, OnWire
<1>10. WayHasParts /\ WayHasParts'
  BY WayParts, PTL
<1>11. \A x : ~IsRequest(x) => ~IsUndone(x, main.rollback)
  BY DEF IsRequest, IsUndone
<1>12. Way' \subseteq Way /\ \A x \in Way : ~IsRequest(x) => x \in Way'
  BY <1>7, <1>8, <1>9, <1>10, <1>11 DEF WayHasParts
<1>13. Unsent' \subseteq Unsent /\ (hand = None => \A x \in Unsent' : ~IsUndone(x, main.rollback))
  <2>1. Unsent' = {x \in InHand \cup ToSet(sendQueue)' : IsRequest(x)}
    BY <1>9 DEF Unsent
  <2>2. hand = None => InHand = {}
    BY DEF InHand
  <2> QED
    BY <1>7, <2>1, <2>2 DEF Unsent
<1> QED
  BY <1>9, <1>12, <1>13

LEMMA WayAtUndo ==
    ASSUME IRetracted, IType', UndoSent
    PROVE  /\ Way \subseteq Way' /\ \A x \in Way' : x \in Way \/ ~IsRequest(x)
           /\ Unsent' = Unsent /\ OnWire' = OnWire
           /\ \A q \in sendList : q \in sendList' \/ AntiOf(q) \in Way'
<1>1. IType /\ SendTypes /\ UNCHANGED <<wire, hand>>
  BY DEF IRetracted, IType, TypeOK, SendTypes, UndoSent, clpVars
<1>2. PICK n \in Nat, antis \in Seq(Anti) :
        /\ Len(antis) = n
        /\ \A q \in sendList \ sendList' : \E i \in 1..n : \E r \in sendList :
             r.id = q.id /\ antis[i] = AntiOf(r)
        /\ sendQueue' = sendQueue \o antis
  BY <1>1, QueueAfterUndo
<1>3. sendQueue \in Seq(Message) /\ antis \in Seq(Message)
  BY <1>1, PartsOfOutgoing DEF Parts, Message
<1>4. ToSet(sendQueue)' = ToSet(sendQueue) \cup ToSet(antis)
  BY <1>2, <1>3, ToSetOfConcat
<1>5. \A x \in ToSet(antis) : ~IsRequest(x)
  <2>1. ToSet(antis) \subseteq Anti
    BY ToSetTyped
  <2> QED
    BY <2>1 DEF Anti, IsRequest
<1>6. ASSUME NEW q \in sendList, q \notin sendList' PROVE AntiOf(q) \in ToSet(antis)
  <2>1. PICK i \in 1..Len(antis), r \in sendList : r.id = q.id /\ antis[i] = AntiOf(r)
    BY <1>2, <1>6
  <2>2. r = q
    BY <2>1, WayIsApart
  <2> QED
    BY <2>1, <2>2 DEF ToSet
<1>7. InHand' = InHand /\ ToSet(wire)' = ToSet(wire) /\ OnWire' = OnWire
  BY <1>1 DEF InHand, OnWire
<1>8. WayHasParts /\ WayHasParts'
  BY <1>1, WayParts, PTL
<1>9. Unsent' = Unsent
  <2>1. Unsent' = {x \in InHand \cup (ToSet(sendQueue) \cup ToSet(antis)) : IsRequest(x)}
    BY <1>4, <1>7 DEF Unsent
  <2> QED
    BY <1>5, <2>1 DEF Unsent
<1> QED
  BY <1>4, <1>5, <1>6, <1>7, <1>8, <1>9 DEF WayHasParts

-----------------------------------------------------------------------------
(***************************************************************************)
(* A request is on its way, or answered, or neither; its answer is unique. *)
(***************************************************************************)
IsResponse(m) == m.kind \in {"answer", "failure"}
Requested(id) == \E x \in Way : IsRequest(x) /\ x.id = id
Answered(id) == \E i \in 1..Len(inbox) : IsResponse(inbox[i]) /\ inbox[i].id = id
InFlight(id) == Requested(id) \/ Answered(id)

\* What is answered or recorded is no longer on its way, what failed is not
\* recorded.
Settled(m) ==
    /\ m.id <= Cardinality(issued)
    /\ ~Requested(m.id)
    /\ m.kind = "failure" => \A q \in recorded : q.id # m.id

AnsweredOnce ==
    /\ \A i \in 1..Len(inbox) : IsResponse(inbox[i]) => Settled(inbox[i])
    /\ \A i, j \in 1..Len(inbox) :
         IsResponse(inbox[i]) /\ IsResponse(inbox[j]) /\ inbox[i].id = inbox[j].id => i = j
    /\ \A q \in recorded : q.id <= Cardinality(issued) /\ ~Requested(q.id)

LEMMA ResponseTyped ==
    ASSUME NEW m \in Response \cup Rollback, IsResponse(m)
    PROVE  m \in Response /\ m.id \in Nat /\ m.agent \in Agent
<1>1. m \in Response
  BY DEF IsResponse, Rollback
<1> QED
  BY <1>1, ConstantFacts DEF Response

IAnswers == IRetracted /\ AnsweredOnce

LEMMA InitAnswers == Init => IAnswers
<1>1. Init => AnsweredOnce
  BY DEF Init, AnsweredOnce
<1> QED
  BY <1>1, InitRetracted DEF IAnswers

\* The number of requests, as it grows.
LEMMA CountGrows ==
    ASSUME IRetracted, IRetracted', [Next]_vars
    PROVE  /\ Cardinality(issued) \in Nat /\ Cardinality(issued)' \in Nat
           /\ Cardinality(issued) <= Cardinality(issued)'
<1>1. /\ IsFiniteSet(issued) /\ IsFiniteSet(issued')
  BY DEF IRetracted, IssuedInOrder
<1>2. issued \subseteq issued'
  BY DEF Next, vars, AgentThread, SendThread, Main, CarryOutRollback, Clp, SendRequest,
         TakeResponse, Aborts, BodyReturns, TakeFromQueue, ListRequest, Transmit,
         ReceiveResponse, DismissRollback, BeginRollback, JoinAgent, RemoveQueued, UndoSent,
         UndoBeforeGvt, RestartAgent, ClpAnswers, ClpRetracts, SetGvt, ClpRollsBack, agentVars
<1> QED
  BY <1>1, <1>2, FS_CardinalityType, FS_Subset

\* No answer comes or goes.
LEMMA SameAnswers ==
    ASSUME AnsweredOnce, NEW n \in Nat, n = Cardinality(issued), IType,
           NEW k \in Nat, k = Cardinality(issued)', n <= k,
           inbox' = inbox, recorded' \subseteq recorded,
           \A x \in Way' : IsRequest(x) => x \in Way \/ ~(x.id <= n)
    PROVE  AnsweredOnce'
<1>1. ASSUME NEW id \in Nat, id <= n, ~Requested(id) PROVE id <= k /\ ~Requested(id)'
  BY <1>1 DEF Requested
<1>2. \A i \in 1..Len(inbox) : IsResponse(inbox[i]) => inbox[i].id \in Nat
  BY ResponseTyped DEF IType, TypeOK
<1>3. \A q \in recorded : q.id \in Nat
  BY ConstantFacts DEF IType, TypeOK, Request
<1>4. ASSUME NEW i \in 1..Len(inbox), IsResponse(inbox[i])
      PROVE  Settled(inbox[i])'
  BY <1>1, <1>2, <1>4 DEF AnsweredOnce, Settled
<1>5. ASSUME NEW q \in recorded' PROVE q.id <= k /\ ~Requested(q.id)'
  BY <1>1, <1>3 DEF AnsweredOnce
<1>6. \A i, j \in 1..Len(inbox) :
        IsResponse(inbox[i]) /\ IsResponse(inbox[j]) /\ inbox[i].id = inbox[j].id => i = j
  BY DEF AnsweredOnce
<1> QED
  BY <1>4, <1>5, <1>6 DEF AnsweredOnce

\* The first message is taken.
LEMMA AnswerTaken ==
    ASSUME AnsweredOnce, IType, NEW m, inbox # << >>, m = Head(inbox),
           inbox' = Tail(inbox), UNCHANGED <<recorded, issued>>, Way' = Way
    PROVE  /\ AnsweredOnce'
           /\ \A id : Answered(id)' => Answered(id)
           /\ IsResponse(m) => Answered(m.id) /\ ~Answered(m.id)' /\ Settled(m)
<1>1. /\ Len(inbox) \in Nat /\ Len(inbox) >= 1 /\ Len(inbox') = Len(inbox) - 1
      /\ m = inbox[1] /\ 1 \in 1..Len(inbox)
      /\ \A i \in 1..Len(inbox') : i + 1 \in 1..Len(inbox) /\ inbox'[i] = inbox[i + 1]
  BY DEF IType, TypeOK
<1>2. \A x : Settled(x) => Settled(x)'
  BY DEF Settled, Requested
<1>3. ASSUME NEW i \in 1..Len(inbox'), IsResponse(inbox'[i])
      PROVE  /\ Settled(inbox'[i])
             /\ Answered(inbox'[i].id)
             /\ IsResponse(m) => inbox'[i].id # m.id
  <2> PICK j \in 1..Len(inbox) : j = i + 1
    BY <1>1
  <2>1. inbox'[i] = inbox[j] /\ j # 1 /\ IsResponse(inbox[j])
    BY <1>1, <1>3
  <2>2. IsResponse(inbox[1]) => inbox[j].id # inbox[1].id
    BY <1>1, <2>1 DEF AnsweredOnce
  <2>3. Settled(inbox[j]) /\ Answered(inbox[j].id)
    BY <2>1 DEF AnsweredOnce, Answered
  <2> QED
    BY <1>1, <2>1, <2>2, <2>3
<1>4. ASSUME NEW i \in 1..Len(inbox'), NEW j \in 1..Len(inbox'),
             IsResponse(inbox'[i]), IsResponse(inbox'[j]), inbox'[i].id = inbox'[j].id
      PROVE  i = j
  <2> PICK x \in 1..Len(inbox), y \in 1..Len(inbox) : x = i + 1 /\ y = j + 1
    BY <1>1
  <2>1. inbox'[i] = inbox[x] /\ inbox'[j] = inbox[y] /\ (x = y => i = j)
    BY <1>1
  <2> QED
    BY <1>4, <2>1 DEF AnsweredOnce
<1>5. \A q \in recorded' : q.id <= Cardinality(issued)' /\ ~Requested(q.id)'
  BY DEF AnsweredOnce, Requested
<1>6. \A i \in 1..Len(inbox') : IsResponse(inbox'[i]) => Settled(inbox[i])'
  BY <1>2, <1>3
<1>7. AnsweredOnce'
  BY <1>4, <1>5, <1>6 DEF AnsweredOnce
<1>8. ASSUME NEW id, Answered(id)'
      PROVE  Answered(id) /\ (IsResponse(m) => id # m.id)
  <2>1. PICK i \in 1..Len(inbox') : IsResponse(inbox'[i]) /\ inbox'[i].id = id
    BY <1>8 DEF Answered
  <2> QED
    BY <1>3, <2>1
<1>9. IsResponse(m) => Answered(m.id) /\ Settled(m)
  BY <1>1 DEF AnsweredOnce, Answered
<1> QED
  BY <1>7, <1>8, <1>9

\* A message is added to the inbox: an answer for what was on its way, or a
\* rollback.
LEMMA AnswerAdded ==
    ASSUME AnsweredOnce, IType, IType', NEW m, inbox' = Append(inbox, m),
           issued' = issued, Way' \subseteq Way,
           IsResponse(m) => /\ Requested(m.id) /\ ~Requested(m.id)'
                            /\ m.id <= Cardinality(issued)
                            /\ m.kind = "failure" => recorded' \subseteq recorded,
           \A q \in recorded' : \/ q \in recorded
                                \/ q.id = m.id /\ IsResponse(m)
    PROVE  /\ AnsweredOnce'
           /\ \A id : Answered(id)' => Answered(id) \/ (IsResponse(m) /\ id = m.id)
<1> DEFINE k == Len(inbox) + 1
<1>1. /\ Len(inbox) \in Nat /\ Len(inbox') = k /\ inbox'[k] = m /\ k \in Nat
      /\ \A i \in 1..Len(inbox) : inbox'[i] = inbox[i]
      /\ \A i \in 1..k : i = k \/ i \in 1..Len(inbox)
      /\ 1..Len(inbox) \subseteq 1..k /\ k \notin 1..Len(inbox)
  BY DEF IType, TypeOK
<1> HIDE DEF k
<1>2. \A id : Requested(id)' => Requested(id)
  BY DEF Requested
<1>3. ASSUME NEW i \in 1..Len(inbox), IsResponse(inbox[i])
      PROVE  /\ Settled(inbox[i])'
             /\ IsResponse(m) => inbox[i].id # m.id
  <2>1. Settled(inbox[i])
    BY <1>3 DEF AnsweredOnce
  <2>2. IsResponse(m) => inbox[i].id # m.id
    BY <2>1 DEF Settled
  <2>3. Settled(inbox[i])'
    BY <1>2, <2>1, <2>2 DEF Settled
  <2> QED
    BY <2>2, <2>3
<1>4. ASSUME IsResponse(m) PROVE Settled(m)'
  <2>1. \A q \in recorded : q.id # m.id
    BY <1>4 DEF AnsweredOnce
  <2> QED
    BY <1>4, <2>1 DEF Settled
<1>5. ASSUME NEW i \in 1..k, IsResponse(inbox'[i]) PROVE Settled(inbox[i])'
  <2>1. CASE i = k
    <3>1. Settled(m)'
      BY <1>1, <1>4, <1>5, <2>1
    <3> QED
      BY <1>1, <2>1, <3>1 DEF Settled
  <2>2. CASE i \in 1..Len(inbox)
    <3>1. Settled(inbox[i])'
      BY <1>1, <1>3, <1>5, <2>2
    <3> QED
      BY <1>1, <2>2, <3>1 DEF Settled
  <2> QED
    BY <1>1, <2>1, <2>2
<1>6. ASSUME NEW i \in 1..k, NEW j \in 1..k,
             IsResponse(inbox'[i]), IsResponse(inbox'[j]), inbox'[i].id = inbox'[j].id
      PROVE  i = j
  <2>1. CASE i \in 1..Len(inbox) /\ j \in 1..Len(inbox)
    BY <1>1, <1>6, <2>1 DEF AnsweredOnce
  <2>2. CASE i = k /\ j = k
    BY <2>2
  <2>3. CASE i = k /\ j \in 1..Len(inbox)
    BY <1>1, <1>3, <1>6, <2>3
  <2>4. CASE j = k /\ i \in 1..Len(inbox)
    BY <1>1, <1>3, <1>6, <2>4
  <2> QED
    BY <1>1, <2>1, <2>2, <2>3, <2>4
<1>7. ASSUME NEW q \in recorded' PROVE q.id <= Cardinality(issued)' /\ ~Requested(q.id)'
  <2>1. CASE q \in recorded
    BY <1>2, <2>1 DEF AnsweredOnce
  <2>2. CASE q.id = m.id /\ IsResponse(m)
    BY <2>2
  <2> QED
    BY <2>1, <2>2
<1>8. AnsweredOnce'
  BY <1>1, <1>5, <1>6, <1>7 DEF AnsweredOnce
<1>9. ASSUME NEW id, Answered(id)' PROVE Answered(id) \/ (IsResponse(m) /\ id = m.id)
  <2>1. PICK i \in 1..k : IsResponse(inbox'[i]) /\ inbox'[i].id = id
    BY <1>1, <1>9 DEF Answered
  <2> QED
    BY <1>1, <2>1 DEF Answered
<1> QED
  BY <1>8, <1>9

\* No identifier that was given before comes back.
NoneReturns == \A id : id <= Cardinality(issued) /\ InFlight(id)' => InFlight(id)

LEMMA QuietAnswers ==
    ASSUME IAnswers, IRetracted', [Next]_vars,
           inbox' = inbox, recorded' \subseteq recorded,
           \A x \in Way' : IsRequest(x) => x \in Way \/ ~(x.id <= Cardinality(issued))
    PROVE  AnsweredOnce' /\ NoneReturns
<1>1. PICK n \in Nat, k \in Nat : n = Cardinality(issued) /\ k = Cardinality(issued)' /\ n <= k
  BY CountGrows DEF IAnswers
<1>2. IType /\ AnsweredOnce
  BY DEF IAnswers, IRetracted
<1>3. AnsweredOnce'
  BY <1>1, <1>2, SameAnswers
<1>4. NoneReturns
  BY DEF NoneReturns, InFlight, Requested, Answered
<1> QED
  BY <1>3, <1>4

LEMMA TakenAnswers ==
    ASSUME IAnswers, NEW kinds, Handles(kinds),
           UNCHANGED <<recorded, issued, wire, hand, sendQueue>>
    PROVE  AnsweredOnce' /\ NoneReturns
<1>1. IType /\ AnsweredOnce /\ inbox # << >> /\ inbox' = Tail(inbox) /\ Way' = Way
  BY WayStays DEF IAnswers, IRetracted, Handles
<1>2. PICK m : m = Head(inbox)
  OBVIOUS
<1>3. AnsweredOnce' /\ \A id : Answered(id)' => Answered(id)
  BY <1>1, <1>2, AnswerTaken
<1>4. NoneReturns
  BY <1>1, <1>3 DEF NoneReturns, InFlight, Requested
<1> QED
  BY <1>3, <1>4

LEMMA ClpAnswersOnce ==
    ASSUME IAnswers, IRetracted', ClpAnswers, UNCHANGED met
    PROVE  AnsweredOnce' /\ NoneReturns
<1> DEFINE h == Head(wire)
<1>1. /\ IType /\ IType' /\ AnsweredOnce /\ IRetracted /\ Clp /\ issued' = issued
  BY DEF IAnswers, IRetracted, Clp, ClpAnswers, agentVars
<1>2. /\ Way = Way' \cup {h} /\ \A x \in Way' : IsRequest(x) => x.id # h.id
  BY <1>1, WayAtClp
<1>3. /\ IsRequest(h)
      /\ \/ /\ recorded' = recorded \cup {h}
            /\ inbox' = Append(inbox, [kind |-> "answer", agent |-> h.agent, id |-> h.id])
         \/ /\ recorded' = recorded
            /\ inbox' = Append(inbox, [kind |-> "failure", agent |-> h.agent, id |-> h.id])
  BY DEF ClpAnswers
<1> HIDE DEF h
<1>4. PICK m : /\ inbox' = Append(inbox, m) /\ IsResponse(m) /\ m.id = h.id
               /\ m.kind = "failure" => recorded' \subseteq recorded
               /\ \A q \in recorded' : q \in recorded \/ q = h
  <2>1. CASE /\ recorded' = recorded \cup {h}
             /\ inbox' = Append(inbox, [kind |-> "answer", agent |-> h.agent, id |-> h.id])
    <3> DEFINE a == [kind |-> "answer", agent |-> h.agent, id |-> h.id]
    <3>1. IsResponse(a) /\ a.id = h.id /\ a.kind # "failure"
      BY DEF IsResponse
    <3> QED
      BY <2>1, <3>1
  <2>2. CASE /\ recorded' = recorded
             /\ inbox' = Append(inbox, [kind |-> "failure", agent |-> h.agent, id |-> h.id])
    <3> DEFINE a == [kind |-> "failure", agent |-> h.agent, id |-> h.id]
    <3>1. IsResponse(a) /\ a.id = h.id
      BY DEF IsResponse
    <3> QED
      BY <2>2, <3>1
  <2> QED
    BY <1>3, <2>1, <2>2
<1>5. Requested(m.id) /\ m.id <= Cardinality(issued)
  <2>1. h \in Way
    BY <1>2
  <2> QED
    BY <1>1, <1>3, <1>4, <2>1, WayIsApart DEF Requested
<1>6. ~Requested(m.id)'
  BY <1>2, <1>4 DEF Requested
<1>7. \A q \in recorded' : \/ q \in recorded
                           \/ q.id = m.id /\ IsResponse(m)
  BY <1>4
<1>8. Way' \subseteq Way
  BY <1>2
<1>9. /\ AnsweredOnce'
      /\ \A id : Answered(id)' => Answered(id) \/ (IsResponse(m) /\ id = m.id)
  BY <1>1, <1>4, <1>5, <1>6, <1>7, <1>8, AnswerAdded
<1>10. NoneReturns
  BY <1>5, <1>8, <1>9 DEF NoneReturns, InFlight, Requested
<1> QED
  BY <1>9, <1>10

LEMMA RollbackNoAnswer ==
    ASSUME IAnswers, IRetracted', NEW q \in recorded, NEW tag \in Tag, ClpRollsBack(q, tag)
    PROVE  AnsweredOnce' /\ NoneReturns
<1>1. /\ IType /\ IType' /\ AnsweredOnce /\ issued' = issued /\ recorded' \subseteq recorded
      /\ Way' = Way
  BY WayStays DEF IAnswers, IRetracted, ClpRollsBack, agentVars, sendVars
<1>2. PICK m : inbox' = Append(inbox, m) /\ ~IsResponse(m)
  <2> DEFINE r == [kind |-> "rollback", agent |-> q.agent, time |-> q.time, tag |-> tag]
  <2>1. inbox' = Append(inbox, r) /\ ~IsResponse(r)
    BY DEF ClpRollsBack, IsResponse
  <2> QED
    BY <2>1
<1>3. AnsweredOnce' /\ \A id : Answered(id)' => Answered(id) \/ (IsResponse(m) /\ id = m.id)
  BY <1>1, <1>2, AnswerAdded
<1>4. NoneReturns
  BY <1>1, <1>2, <1>3 DEF NoneReturns, InFlight, Requested
<1> QED
  BY <1>3, <1>4

LEMMA AnswersStep ==
    ASSUME IAnswers, IRetracted', [Next]_vars
    PROVE  AnsweredOnce' /\ NoneReturns
<1>1. IRetracted /\ IType /\ IType'
  BY DEF IAnswers, IRetracted
<1> USE DEF agentVars, sendVars, clpVars
<1>2. ASSUME NEW a \in Agent, AgentThread(a) PROVE AnsweredOnce' /\ NoneReturns
  <2>1. CASE \E kind \in {"read", "write"}, t \in Time : SendRequest(a, kind, t)
    <3>1. PICK kind \in {"read", "write"}, t \in Time : SendRequest(a, kind, t)
      BY <2>1
    <3>2. inbox' = inbox /\ recorded' = recorded
      BY <3>1 DEF SendRequest
    <3>3. PICK m \in Request : m.id = Cardinality(issued) + 1 /\ Way' = Way \cup {m}
      BY <1>1, <3>1, WayAtRequest
    <3>4. Cardinality(issued) \in Nat
      BY <1>1, CountOfIssued DEF IRetracted
    <3>5. ~(m.id <= Cardinality(issued))
      BY <3>3, <3>4
    <3> QED
      BY <3>2, <3>3, <3>5, QuietAnswers
  <2>2. CASE TakeResponse(a) \/ Aborts(a) \/ BodyReturns(a)
    <3>1. inbox' = inbox /\ recorded' = recorded /\ Way' = Way
      BY <2>2, WayStays DEF TakeResponse, Aborts, BodyReturns
    <3> QED
      BY <3>1, QuietAnswers
  <2> QED
    BY <1>2, <2>1, <2>2 DEF AgentThread
<1>3. CASE SendThread
  <2>1. inbox' = inbox /\ recorded' = recorded /\ Way' = Way
    BY <1>1, <1>3, WayAtSend DEF SendThread, TakeFromQueue, ListRequest, Transmit
  <2> QED
    BY <2>1, QuietAnswers
<1>4. CASE ReceiveResponse
  BY <1>4, TakenAnswers DEF ReceiveResponse
<1>5. CASE DismissRollback
  BY <1>5, TakenAnswers DEF DismissRollback
<1>6. CASE BeginRollback
  BY <1>6, TakenAnswers DEF BeginRollback
<1>7. CASE JoinAgent \/ UndoBeforeGvt \/ RestartAgent
  <2>1. inbox' = inbox /\ recorded' = recorded /\ Way' = Way
    BY <1>7, WayStays DEF JoinAgent, UndoBeforeGvt, RestartAgent
  <2> QED
    BY <2>1, QuietAnswers
<1>8. CASE RemoveQueued
  <2>1. inbox' = inbox /\ recorded' = recorded /\ Way' \subseteq Way
    BY <1>1, <1>8, WayAtRemoval DEF RemoveQueued
  <2> QED
    BY <2>1, QuietAnswers
<1>9. CASE UndoSent
  <2>1. inbox' = inbox /\ recorded' = recorded /\ \A x \in Way' : IsRequest(x) => x \in Way
    BY <1>1, <1>9, WayAtUndo DEF UndoSent
  <2> QED
    BY <2>1, QuietAnswers
<1>10. CASE ClpAnswers /\ UNCHANGED met
  BY <1>10, ClpAnswersOnce
<1>11. CASE ClpRetracts /\ UNCHANGED met
  <2>1. inbox' = inbox /\ recorded' \subseteq recorded /\ Way' \subseteq Way
    BY <1>1, <1>11, WayAtClp DEF Clp, ClpRetracts
  <2> QED
    BY <2>1, QuietAnswers
<1>12. ASSUME NEW gvt \in GvtTimes, SetGvt(gvt) PROVE AnsweredOnce' /\ NoneReturns
  <2>1. inbox' = inbox /\ recorded' = recorded /\ Way' = Way
    BY <1>12, WayStays DEF SetGvt
  <2> QED
    BY <2>1, QuietAnswers
<1>13. ASSUME NEW q \in recorded, NEW tag \in Tag, ClpRollsBack(q, tag)
       PROVE  AnsweredOnce' /\ NoneReturns
  BY <1>13, RollbackNoAnswer
<1>14. CASE UNCHANGED vars
  <2>1. inbox' = inbox /\ recorded' = recorded /\ Way' = Way
    BY <1>14, WayStays DEF vars
  <2> QED
    BY <2>1, QuietAnswers
<1> QED
  BY <1>2, <1>3, <1>4, <1>5, <1>6, <1>7, <1>8, <1>9, <1>10, <1>11, <1>12, <1>13, <1>14
     DEF Next, Main, CarryOutRollback, Clp

LEMMA NextAnswers == IAnswers /\ [Next]_vars => IAnswers'
  BY NextRetracted, AnswersStep DEF IAnswers

-----------------------------------------------------------------------------
(***************************************************************************)
(* The answer an agent takes is its own.  While no rollback meets the send *)
(* thread with a message in its hand, an agent has at most one request     *)
(* that is not sent yet, the one it waits for, and none when it runs.      *)
(***************************************************************************)
AwaitedInFlight(a) == InFlight(awaited[a])

Own(a) ==
    /\ awaited[a] <= Cardinality(issued)
    /\ pc[a] = "running" => a \notin ready /\ ~AwaitedInFlight(a) /\ UnsentOf(a) = {}
    /\ \A x \in UnsentOf(a) : x.id = waitingFor[a] /\ x.time >= lvt[a]
    /\ pc[a] = "waiting" /\ AwaitedInFlight(a) => awaited[a] = waitingFor[a]
    /\ pc[a] = "waiting" /\ a \in ready =>
         /\ response[a] = waitingFor[a] /\ awaited[a] = waitingFor[a]
         /\ ~AwaitedInFlight(a)

\* The rollback finds what its agent has not sent: all of it is later.
NothingUnsent ==
    main # Idle =>
      LET m == main.rollback IN
      /\ main.at = "join" => m.time < lvt[m.agent]
      /\ main.at = "remove" => \A x \in UnsentOf(m.agent) : x.time > m.time
      /\ main.at \in {"undo", "restart"} => UnsentOf(m.agent) = {}

AllOwn == (\A a \in Agent : Own(a)) /\ NothingUnsent /\ \A x \in accepted : x.id = x.of

IOwn == IAnswers /\ ("sending" \notin met => AllOwn)

LEMMA InitOwn == Init => IOwn
<1> SUFFICES ASSUME Init PROVE IOwn
  OBVIOUS
<1>1. IAnswers
  BY InitAnswers
<1>2. Way = {} /\ Unsent = {} /\ inbox = << >> /\ accepted = {} /\ main = Idle
  BY ToSetOfEmpty DEF Init, Way, Outgoing, Unsent, InHand
<1>3. \A a \in Agent : ~AwaitedInFlight(a)
  BY <1>2 DEF AwaitedInFlight, InFlight, Requested, Answered
<1>4. Cardinality(issued) \in Nat
  BY <1>1, CountOfIssued DEF IAnswers, IRetracted
<1>5. ASSUME NEW a \in Agent PROVE Own(a)
  BY <1>2, <1>3, <1>4, <1>5 DEF Init, Own, UnsentOf, NoId
<1>6. NothingUnsent
  BY <1>2 DEF NothingUnsent
<1> QED
  BY <1>1, <1>2, <1>5, <1>6 DEF IOwn, AllOwn

\* Types, as numbers.
LEMMA RequestNumbers ==
    ASSUME NEW q \in Request
    PROVE  q.time \in Int /\ q.id \in Int /\ q.id >= 1 /\ q.agent \in Agent
<1>1. q.id \in Id /\ q.time \in Time /\ q.agent \in Agent
  BY DEF Request
<1> QED
  BY <1>1, ConstantFacts DEF Id, Time

LEMMA AgentNumbers ==
    ASSUME IType, NEW a \in Agent
    PROVE  awaited[a] \in Int /\ waitingFor[a] \in Int /\ lvt[a] \in Int
<1>1. /\ awaited[a] \in Id \cup {NoId} /\ waitingFor[a] \in Id \cup {NoId} /\ lvt[a] \in Lvt
  BY DEF IType, TypeOK
<1>2. NoId \in Int /\ Id \subseteq Int /\ Lvt \subseteq Int
  BY ConstantFacts DEF NoId
<1> QED
  BY <1>1, <1>2

LEMMA UnsentTyped ==
    ASSUME IRetracted
    PROVE  /\ Unsent \subseteq Request /\ Unsent \subseteq Way
           /\ \A x \in Unsent : x.time \in Int /\ x.id \in Int /\ x.id >= 1 /\ InFlight(x.id)
<1>1. WayHasParts
  BY WayParts DEF IRetracted
<1>2. Unsent \subseteq Way
  BY <1>1 DEF Unsent, WayHasParts
<1>3. Unsent \subseteq Request
  BY <1>1 DEF Unsent, WayHasParts, Message, Anti, IsRequest
<1>4. \A q \in Request : q.time \in Int /\ q.id \in Int /\ q.id >= 1
  BY RequestNumbers
<1>5. \A x \in Unsent : InFlight(x.id)
  BY <1>2 DEF Unsent, InFlight, Requested
<1> QED
  BY <1>2, <1>3, <1>4, <1>5

LEMMA StaysOutOfFlight ==
    ASSUME NoneReturns, NEW a \in Agent, awaited'[a] = awaited[a],
           awaited[a] <= Cardinality(issued), ~AwaitedInFlight(a)
    PROVE  ~AwaitedInFlight(a)'
<1>1. PICK w : w = awaited[a]
  OBVIOUS
<1>2. ~InFlight(w)'
  BY <1>1 DEF NoneReturns, AwaitedInFlight
<1> QED
  BY <1>1, <1>2 DEF AwaitedInFlight, InFlight, Requested, Answered

\* An agent that has nothing new.
LEMMA KeepsOwn ==
    ASSUME IAnswers, IRetracted', [Next]_vars, NEW a \in Agent, Own(a),
           pc'[a] = pc[a] \/ pc'[a] = "ended",
           waitingFor'[a] = waitingFor[a], response'[a] = response[a],
           awaited'[a] = awaited[a], a \in ready' => a \in ready,
           \A x \in Unsent' : x.agent = a => x \in Unsent /\ x.time >= lvt'[a]
    PROVE  Own(a)'
<1>1. NoneReturns
  BY AnswersStep
<1>2. AwaitedInFlight(a)' => AwaitedInFlight(a)
  BY <1>1, StaysOutOfFlight DEF Own
<1>3. awaited'[a] <= Cardinality(issued)'
  <2>1. awaited[a] \in Int
    BY AgentNumbers DEF IAnswers, IRetracted
  <2> QED
    BY <2>1, CountGrows DEF IAnswers, Own
<1>4. UnsentOf(a)' \subseteq UnsentOf(a) /\ \A x \in UnsentOf(a)' : x.time >= lvt'[a]
  BY DEF UnsentOf
<1>5. (pc[a] = "running")' => (a \notin ready /\ ~AwaitedInFlight(a) /\ UnsentOf(a) = {})'
  BY <1>2, <1>4 DEF Own
<1>6. \A x \in UnsentOf(a)' : x.id = waitingFor'[a]
  BY <1>4 DEF Own
<1>7. pc'[a] = "waiting" /\ AwaitedInFlight(a)' => awaited'[a] = waitingFor'[a]
  BY <1>2 DEF Own
<1>8. pc'[a] = "waiting" /\ a \in ready' =>
        /\ response'[a] = waitingFor'[a] /\ awaited'[a] = waitingFor'[a]
        /\ ~AwaitedInFlight(a)'
  BY <1>2 DEF Own
<1> QED
  BY <1>3, <1>4, <1>5, <1>6, <1>7, <1>8 DEF Own

\* The usual case of it: the agent's LVT stays as well.
LEMMA KeepsOwnAndLvt ==
    ASSUME IAnswers, IRetracted', [Next]_vars, NEW a \in Agent, Own(a),
           pc'[a] = pc[a] \/ pc'[a] = "ended",
           waitingFor'[a] = waitingFor[a], response'[a] = response[a],
           awaited'[a] = awaited[a], a \in ready' => a \in ready, lvt'[a] = lvt[a],
           \A x \in Unsent' : x.agent = a => x \in Unsent
    PROVE  Own(a)'
  BY KeepsOwn DEF Own, UnsentOf

LEMMA RequestKeepsOwn ==
    ASSUME IAnswers, IRetracted', [Next]_vars, AllOwn, NEW a \in Agent,
           NEW kind \in {"read", "write"}, NEW t \in Time, SendRequest(a, kind, t)
    PROVE  AllOwn'
<1> DEFINE n == Cardinality(issued)
<1>1. /\ IRetracted /\ IType /\ IType' /\ n \in Nat /\ n <= Cardinality(issued)' /\ NoneReturns
      /\ Cardinality(issued)' \in Nat
  BY CountGrows, AnswersStep DEF IAnswers, IRetracted
<1>2. PICK m \in Request : /\ m.agent = a /\ m.time = t /\ m.id = n + 1
                           /\ issued' = issued \cup {m} /\ Unsent' = Unsent \cup {m}
  BY <1>1, WayAtRequest
<1>3. /\ pc[a] = "running" /\ t >= lvt[a]
      /\ pc' = [pc EXCEPT ![a] = "waiting"] /\ waitingFor' = [waitingFor EXCEPT ![a] = n + 1]
      /\ UNCHANGED <<accepted, lvt, aborting, ready, response, awaited, main>>
      /\ pc' \in [Agent -> {"running", "waiting", "ended"}]
      /\ pc \in [Agent -> {"running", "waiting", "ended"}]
      /\ waitingFor \in [Agent -> Id \cup {NoId}] /\ awaited[a] \in Int
  BY <1>1, AgentNumbers DEF SendRequest, flagVars, IType, TypeOK
<1>4. Own(a)'
  <2>1. Own(a)
    BY DEF AllOwn
  <2>2. UnsentOf(a)' = {m}
    BY <1>2, <1>3, <2>1 DEF UnsentOf, Own
  <2>3. ~AwaitedInFlight(a)'
    BY <1>1, <1>3, <2>1, StaysOutOfFlight DEF Own
  <2>4. awaited'[a] <= Cardinality(issued)'
    BY <1>1, <1>3, <2>1 DEF Own
  <2>5. pc'[a] = "waiting" /\ waitingFor'[a] = n + 1 /\ a \notin ready'
    BY <1>3, <2>1 DEF Own
  <2>6. \A x \in UnsentOf(a)' : x.id = waitingFor'[a] /\ x.time >= lvt'[a]
    BY <1>2, <1>3, <2>2, <2>5
  <2> HIDE DEF n
  <2> QED
    BY <2>3, <2>4, <2>5, <2>6 DEF Own
<1>5. ASSUME NEW b \in Agent, b # a PROVE Own(b)'
  <2>1. /\ Own(b) /\ pc'[b] = pc[b] /\ waitingFor'[b] = waitingFor[b]
        /\ \A x \in Unsent' : x.agent = b => x \in Unsent
    BY <1>2, <1>3, <1>5 DEF AllOwn
  <2> QED
    BY <1>3, <2>1, KeepsOwnAndLvt
<1>6. NothingUnsent'
  <2> SUFFICES ASSUME main # Idle PROVE NothingUnsent'
    BY <1>3 DEF NothingUnsent
  <2>1. main.at \in {"remove", "undo", "restart"} => main.rollback.agent # a
    BY <1>1, <1>3 DEF IType, QuietFromTheStart
  <2>2. main.at \in {"remove", "undo", "restart"} =>
          UnsentOf(main.rollback.agent)' = UnsentOf(main.rollback.agent)
    BY <1>2, <1>3, <2>1 DEF UnsentOf
  <2> QED
    BY <1>3, <2>2 DEF NothingUnsent, AllOwn
<1> QED
  BY <1>3, <1>4, <1>5, <1>6 DEF AllOwn

\* A step that changes nothing of this, or only takes away.
LEMMA EachKeepsOwn ==
    ASSUME IAnswers, IRetracted', [Next]_vars, AllOwn,
           UNCHANGED <<waitingFor, response, awaited, lvt, accepted, main>>,
           \A a \in Agent : pc'[a] = pc[a] \/ pc'[a] = "ended",
           ready' \subseteq ready, Unsent' \subseteq Unsent
    PROVE  AllOwn'
<1>1. ASSUME NEW a \in Agent PROVE Own(a)'
  <2>1. /\ Own(a)
        /\ pc'[a] = pc[a] \/ pc'[a] = "ended"
        /\ \A x \in Unsent' : x.agent = a => x \in Unsent
    BY DEF AllOwn
  <2> QED
    BY <2>1, KeepsOwnAndLvt
<1>2. \A a : UnsentOf(a)' \subseteq UnsentOf(a)
  BY DEF UnsentOf
<1>3. NothingUnsent'
  <2>1. main # Idle =>
          /\ main.at = "remove" => \A x \in UnsentOf(main.rollback.agent)' : x.time > main.rollback.time
          /\ main.at \in {"undo", "restart"} => UnsentOf(main.rollback.agent)' = {}
    BY <1>2 DEF AllOwn, NothingUnsent
  <2> QED
    BY <2>1 DEF AllOwn, NothingUnsent, UnsentOf
<1> QED
  BY <1>1, <1>3 DEF AllOwn

LEMMA TakeKeepsOwn ==
    ASSUME IAnswers, IRetracted', [Next]_vars, AllOwn, NEW a \in Agent, TakeResponse(a)
    PROVE  AllOwn'
<1>1. /\ IRetracted /\ IType /\ NoneReturns
  BY AnswersStep DEF IAnswers, IRetracted
<1>2. PICK t : lvt' = [lvt EXCEPT ![a] = SetAgentLvt(@, t)]
  BY DEF TakeResponse
<1>3. /\ pc[a] = "waiting" /\ a \in ready /\ ready' = ready \ {a}
      /\ accepted' = accepted \cup {[id |-> response[a], of |-> waitingFor[a]]}
      /\ pc' = [pc EXCEPT ![a] = "running"]
      /\ UNCHANGED <<waitingFor, response, awaited, main, issued>>
      /\ UNCHANGED <<wire, hand, sendQueue>>
      /\ pc \in [Agent -> {"running", "waiting", "ended"}] /\ lvt \in [Agent -> Lvt]
  BY <1>1 DEF TakeResponse, sendVars, clpVars, IType, TypeOK
<1>4. Unsent' = Unsent /\ Way' = Way
  BY <1>3, WayStays
<1>5. /\ response[a] = waitingFor[a] /\ awaited[a] = waitingFor[a] /\ ~AwaitedInFlight(a)
      /\ Own(a)
  BY <1>3 DEF AllOwn, Own
<1>6. UnsentOf(a) = {}
  <2> SUFFICES ASSUME NEW x \in UnsentOf(a) PROVE FALSE
    OBVIOUS
  <2>1. x.id = awaited[a] /\ InFlight(x.id)
    BY <1>1, <1>5, UnsentTyped DEF Own, UnsentOf
  <2> QED
    BY <1>5, <2>1 DEF AwaitedInFlight
<1>7. Own(a)'
  <2>1. ~AwaitedInFlight(a)'
    BY <1>1, <1>3, <1>5, StaysOutOfFlight DEF Own
  <2>2. UnsentOf(a)' = {}
    BY <1>4, <1>6 DEF UnsentOf
  <2>3. pc'[a] = "running" /\ a \notin ready' /\ awaited'[a] <= Cardinality(issued)'
    BY <1>3, <1>5 DEF Own
  <2> QED
    BY <2>1, <2>2, <2>3 DEF Own
<1>8. ASSUME NEW b \in Agent, b # a PROVE Own(b)'
  <2>1. /\ Own(b) /\ pc'[b] = pc[b] /\ lvt'[b] = lvt[b]
        /\ waitingFor'[b] = waitingFor[b] /\ response'[b] = response[b]
        /\ awaited'[b] = awaited[b] /\ (b \in ready' => b \in ready)
        /\ \A x \in Unsent' : x.agent = b => x \in Unsent
    BY <1>2, <1>3, <1>4, <1>8 DEF AllOwn
  <2> QED
    BY <2>1, KeepsOwnAndLvt
<1>9. NothingUnsent'
  <2> SUFFICES ASSUME main # Idle PROVE NothingUnsent'
    BY <1>3 DEF NothingUnsent
  <2>1. main.rollback.agent # a
    BY <1>1, <1>3 DEF IType, QuietFromTheStart
  <2>2. main.rollback.agent \in Agent
    BY <1>1 DEF IType, TypeOK, MainState, Rollback
  <2>3. lvt'[main.rollback.agent] = lvt[main.rollback.agent]
    BY <1>2, <1>3, <2>1, <2>2
  <2>4. UnsentOf(main.rollback.agent)' = UnsentOf(main.rollback.agent)
    BY <1>3, <1>4 DEF UnsentOf
  <2> QED
    BY <1>3, <2>3, <2>4 DEF NothingUnsent, AllOwn
<1>10. \A x \in accepted' : x.id = x.of
  BY <1>3, <1>5 DEF AllOwn
<1> QED
  BY <1>7, <1>8, <1>9, <1>10 DEF AllOwn

LEMMA TransmitKeepsOwn ==
    ASSUME IAnswers, IRetracted', [Next]_vars, AllOwn, Transmit, SendThread
    PROVE  AllOwn'
<1>1. /\ IRetracted /\ IType /\ IType' /\ NoneReturns
  BY AnswersStep DEF IAnswers, IRetracted
<1>2. /\ Way' = Way /\ Unsent' \subseteq Unsent
  BY <1>1, WayAtSend
<1>3. /\ UNCHANGED <<waitingFor, response, lvt, accepted, main, pc, ready, issued>>
      /\ hand # None
      /\ awaited' = IF IsRequest(hand.m)
                    THEN [awaited EXCEPT ![hand.m.agent] = hand.m.id] ELSE awaited
  BY DEF Transmit, Transmitted, agentVars, flagVars
<1>4. CASE ~IsRequest(hand.m)
  BY <1>2, <1>3, <1>4, EachKeepsOwn
<1>5. CASE IsRequest(hand.m)
  <2>1. hand.m \in Unsent /\ hand.m.agent \in Agent
    <3>1. hand.m \in Unsent
      BY <1>3, <1>5 DEF Unsent, InHand
    <3> QED
      BY <1>1, <3>1, UnsentTyped, RequestNumbers
  <2> PICK x \in Unsent, a \in Agent : x = hand.m /\ a = x.agent
    BY <2>1
  <2>2. /\ x \in UnsentOf(a) /\ InFlight(x.id) /\ x \in Way
        /\ x.id <= Cardinality(issued)
    BY <1>1, UnsentTyped, WayIsApart DEF UnsentOf
  <2>3. awaited' = [awaited EXCEPT ![a] = x.id] /\ awaited \in [Agent -> Id \cup {NoId}]
    BY <1>1, <1>3, <1>5 DEF IType, TypeOK
  <2>4. \A b : UnsentOf(b)' \subseteq UnsentOf(b)
    BY <1>2 DEF UnsentOf
  <2>5. Own(a) /\ x.id = waitingFor[a] /\ awaited'[a] = x.id
    BY <2>2, <2>3 DEF AllOwn, Own
  <2>6. pc[a] # "running" /\ (pc[a] = "waiting" => a \notin ready)
    BY <2>2, <2>5 DEF Own, AwaitedInFlight
  <2>7. Own(a)'
    BY <1>3, <2>2, <2>4, <2>5, <2>6 DEF Own
  <2>8. ASSUME NEW b \in Agent, b # a PROVE Own(b)'
    <3>1. /\ Own(b) /\ awaited'[b] = awaited[b]
          /\ \A y \in Unsent' : y.agent = b => y \in Unsent
      BY <1>2, <2>3, <2>8 DEF AllOwn
    <3> QED
      BY <1>3, <3>1, KeepsOwnAndLvt
  <2>9. NothingUnsent'
    BY <1>3, <2>4 DEF AllOwn, NothingUnsent
  <2> QED
    BY <1>3, <2>7, <2>8, <2>9 DEF AllOwn
<1> QED
  BY <1>4, <1>5

LEMMA ReceiveKeepsOwn ==
    ASSUME IAnswers, IRetracted', [Next]_vars, AllOwn, ReceiveResponse
    PROVE  AllOwn'
<1>1. /\ IRetracted /\ IType /\ MainTypes /\ AnsweredOnce
  BY TypesByPart DEF IAnswers, IRetracted
<1>2. /\ UNCHANGED <<waitingFor, awaited, lvt, accepted, main, pc, issued>>
      /\ UNCHANGED <<wire, hand, sendQueue, recorded>>
      /\ Handles({"answer", "failure"}) /\ inbox # << >> /\ inbox' = Tail(inbox)
  BY DEF ReceiveResponse, agentVars, clpVars, Handles
<1>3. Unsent' = Unsent /\ Way' = Way
  BY <1>2, WayStays
<1>4. PICK m : m = Head(inbox)
  OBVIOUS
<1>5. IsResponse(m) /\ m.agent \in Agent
  <2>1. m \in Response \cup Rollback /\ IsResponse(m)
    BY <1>1, <1>2, <1>4, MessageOfInbox DEF IsResponse
  <2> QED
    BY <2>1, ResponseTyped
<1>6. CASE ~IsAwaited(m)
  <2>1. response' = response /\ ready' = ready
    BY <1>4, <1>6 DEF ReceiveResponse
  <2> QED
    BY <1>2, <1>3, <2>1, EachKeepsOwn
<1>7. CASE IsAwaited(m)
  <2> PICK a \in Agent : a = m.agent
    BY <1>5
  <2>1. /\ response' = [response EXCEPT ![a] = m.id] /\ ready' = ready \cup {a}
        /\ awaited[a] = m.id /\ response \in [Agent -> Id \cup {NoId}]
    BY <1>1, <1>4, <1>7 DEF ReceiveResponse, IsAwaited, IType, TypeOK
  <2>2. Answered(m.id) /\ ~Answered(m.id)' /\ Settled(m)
    BY <1>1, <1>2, <1>3, <1>4, <1>5, AnswerTaken
  <2>3. AwaitedInFlight(a) /\ Own(a)
    BY <2>1, <2>2 DEF AwaitedInFlight, InFlight, AllOwn
  <2>4. ~AwaitedInFlight(a)'
    <3>1. PICK w : w = m.id /\ w = awaited'[a]
      BY <1>2, <2>1
    <3>2. ~Answered(w)' /\ ~Requested(w)'
      BY <1>3, <2>2, <3>1 DEF Settled, Requested
    <3> QED
      BY <3>1, <3>2 DEF AwaitedInFlight, InFlight, Requested, Answered
  <2>5. UnsentOf(a)' = UnsentOf(a)
    BY <1>3 DEF UnsentOf
  <2>6. pc[a] # "running" /\ (pc[a] = "waiting" => awaited[a] = waitingFor[a])
    BY <2>3 DEF Own
  <2>7. response'[a] = awaited[a]
    BY <2>1
  <2>8. Own(a)'
    BY <1>2, <2>3, <2>4, <2>5, <2>6, <2>7 DEF Own
  <2>9. ASSUME NEW b \in Agent, b # a PROVE Own(b)'
    <3>1. /\ Own(b) /\ response'[b] = response[b] /\ (b \in ready' => b \in ready)
          /\ \A x \in Unsent' : x.agent = b => x \in Unsent
      BY <1>3, <2>1, <2>9 DEF AllOwn
    <3> QED
      BY <1>2, <3>1, KeepsOwnAndLvt
  <2>10. NothingUnsent'
    BY <1>2, <1>3 DEF AllOwn, NothingUnsent, UnsentOf
  <2> QED
    BY <1>2, <2>8, <2>9, <2>10 DEF AllOwn
<1> QED
  BY <1>6, <1>7

\* The stages of a rollback.
LEMMA BeginKeepsOwn ==
    ASSUME IAnswers, IRetracted', [Next]_vars, AllOwn, BeginRollback
    PROVE  AllOwn'
<1>1. /\ UNCHANGED <<waitingFor, response, awaited, lvt, accepted, pc>>
      /\ UNCHANGED <<wire, hand, sendQueue>>
      /\ ready' \subseteq ready
  BY DEF BeginRollback, agentVars, sendVars, clpVars
<1>2. Unsent' = Unsent
  BY <1>1, WayStays
<1>3. ASSUME NEW a \in Agent PROVE Own(a)'
  <2>1. Own(a) /\ pc'[a] = pc[a] /\ \A x \in Unsent' : x.agent = a => x \in Unsent
    BY <1>1, <1>2 DEF AllOwn
  <2> QED
    BY <1>1, <2>1, KeepsOwnAndLvt
<1>4. NothingUnsent'
  <2>1. PICK m : /\ main' = [at |-> "join", rollback |-> m] /\ m.time < lvt[m.agent]
    BY DEF BeginRollback
  <2> QED
    BY <1>1, <2>1 DEF NothingUnsent
<1> QED
  BY <1>1, <1>3, <1>4 DEF AllOwn

LEMMA JoinKeepsOwn ==
    ASSUME IAnswers, IRetracted', [Next]_vars, AllOwn, JoinAgent
    PROVE  AllOwn'
<1>1. IRetracted /\ IType /\ MainTypes /\ IType'
  BY TypesByPart DEF IAnswers, IRetracted
<1>2. main.at = "join" /\ main \in MainState
  BY <1>1 DEF JoinAgent, MainTypes
<1>3. main # Idle /\ main.rollback \in Rollback
  BY <1>2 DEF MainState, Idle
<1>4. PICK m \in Rollback, a \in Agent : m = main.rollback /\ a = m.agent
  BY <1>3 DEF Rollback
<1>5. /\ UNCHANGED <<waitingFor, response, awaited, accepted, pc, ready>>
      /\ UNCHANGED <<wire, hand, sendQueue>>
      /\ lvt' = [lvt EXCEPT ![a] = m.time] /\ lvt \in [Agent -> Lvt]
      /\ main' = [main EXCEPT !.at = "remove"]
  BY <1>1, <1>4 DEF JoinAgent, agentVars, flagVars, sendVars, clpVars, IType, TypeOK
<1>6. main'.at = "remove" /\ main'.rollback = m
  BY <1>2, <1>3, <1>4, <1>5 DEF MainState, Idle
<1>7. Unsent' = Unsent
  BY <1>5, WayStays
<1>8. m.time < lvt[a] /\ m.time \in Int /\ lvt[a] \in Int /\ lvt'[a] = m.time
  <2>1. m.time \in Time /\ Time \subseteq Int
    BY ConstantFacts DEF Rollback, Time
  <2> QED
    BY <1>1, <1>2, <1>3, <1>4, <1>5, <2>1, AgentNumbers DEF AllOwn, NothingUnsent
<1>9. \A x \in UnsentOf(a) : x.time \in Int /\ x.time >= lvt[a]
  BY <1>1, UnsentTyped DEF AllOwn, Own, UnsentOf
<1>10. \A x \in UnsentOf(a) : x.time > m.time
  BY <1>8, <1>9
<1>11. Own(a)'
  <2>1. Own(a) /\ pc'[a] = pc[a]
    BY <1>5 DEF AllOwn
  <2>2. \A x \in Unsent' : x.agent = a => x \in Unsent /\ x.time >= lvt'[a]
    BY <1>7, <1>8, <1>9, <1>10 DEF UnsentOf
  <2> QED
    BY <1>5, <2>1, <2>2, KeepsOwn
<1>12. ASSUME NEW b \in Agent, b # a PROVE Own(b)'
  <2>1. /\ Own(b) /\ lvt'[b] = lvt[b] /\ pc'[b] = pc[b]
        /\ \A x \in Unsent' : x.agent = b => x \in Unsent
    BY <1>5, <1>7, <1>12 DEF AllOwn
  <2> QED
    BY <1>5, <2>1, KeepsOwnAndLvt
<1>13. NothingUnsent'
  BY <1>4, <1>6, <1>7, <1>10 DEF NothingUnsent, UnsentOf
<1> QED
  BY <1>5, <1>11, <1>12, <1>13 DEF AllOwn

LEMMA RemoveKeepsOwn ==
    ASSUME IAnswers, IRetracted', [Next]_vars, AllOwn, RemoveQueued, hand = None
    PROVE  AllOwn'
<1>1. IRetracted /\ IType /\ MainTypes /\ IType'
  BY TypesByPart DEF IAnswers, IRetracted
<1>2. main.at = "remove" /\ main \in MainState
  BY <1>1 DEF RemoveQueued, MainTypes
<1>3. main # Idle /\ main.rollback \in Rollback
  BY <1>2 DEF MainState, Idle
<1>4. PICK m \in Rollback, a \in Agent : m = main.rollback /\ a = m.agent
  BY <1>3 DEF Rollback
<1>5. /\ UNCHANGED <<waitingFor, response, awaited, accepted, pc, ready, lvt>>
      /\ main' = [main EXCEPT !.at = "undo"]
  BY DEF RemoveQueued, agentVars, flagVars
<1>6. main'.at = "undo" /\ main'.rollback = m
  BY <1>2, <1>3, <1>4, <1>5 DEF MainState, Idle
<1>7. Unsent' \subseteq Unsent /\ \A x \in Unsent' : ~IsUndone(x, m)
  BY <1>1, <1>4, WayAtRemoval
<1>8. ASSUME NEW b \in Agent PROVE Own(b)'
  <2>1. Own(b) /\ pc'[b] = pc[b] /\ \A x \in Unsent' : x.agent = b => x \in Unsent
    BY <1>5, <1>7 DEF AllOwn
  <2> QED
    BY <1>5, <2>1, KeepsOwnAndLvt
\* What is not sent yet is later, so that it is undone.
<1>9. ASSUME NEW x \in Unsent', x.agent = a PROVE FALSE
  <2>1. x \in UnsentOf(a) /\ ~IsUndone(x, m)
    BY <1>7, <1>9 DEF UnsentOf
  <2>2. x.time > m.time
    BY <1>2, <1>3, <1>4, <2>1 DEF AllOwn, NothingUnsent
  <2>3. x.time \in Int /\ m.time \in Int /\ x.kind \in {"read", "write"}
    <3>1. m.time \in Time /\ Time \subseteq Int
      BY ConstantFacts DEF Rollback, Time
    <3> QED
      BY <1>1, <2>1, <3>1, UnsentTyped DEF UnsentOf, Request
  <2> QED
    BY <1>4, <1>9, <2>1, <2>2, <2>3 DEF IsUndone
<1>10. UnsentOf(a)' = {}
  BY <1>9 DEF UnsentOf
<1>11. NothingUnsent'
  BY <1>4, <1>6, <1>10 DEF NothingUnsent
<1> QED
  BY <1>5, <1>8, <1>11 DEF AllOwn

LEMMA UndoKeepsOwn ==
    ASSUME IAnswers, IRetracted', [Next]_vars, AllOwn, UndoSent \/ UndoBeforeGvt
    PROVE  AllOwn'
<1>1. IRetracted /\ IType /\ MainTypes /\ IType'
  BY TypesByPart DEF IAnswers, IRetracted
<1>2. main.at = "undo" /\ main \in MainState
  BY <1>1 DEF UndoSent, UndoBeforeGvt, MainTypes
<1>3. main # Idle /\ main.rollback \in Rollback
  BY <1>2 DEF MainState, Idle
<1>4. PICK m \in Rollback, a \in Agent : m = main.rollback /\ a = m.agent
  BY <1>3 DEF Rollback
<1>5. UnsentOf(a) = {}
  BY <1>2, <1>3, <1>4 DEF AllOwn, NothingUnsent
<1>6. /\ UNCHANGED <<waitingFor, response, awaited, accepted, pc, ready>>
      /\ lvt' = lvt \/ lvt' = [lvt EXCEPT ![a] = fGVT]
      /\ lvt \in [Agent -> Lvt]
  BY <1>1, <1>4 DEF UndoSent, UndoBeforeGvt, agentVars, flagVars, IType, TypeOK
<1>7. Unsent' = Unsent
  <2>1. CASE UndoSent
    BY <1>1, <2>1, WayAtUndo
  <2>2. CASE UndoBeforeGvt
    BY <2>2, WayStays DEF UndoBeforeGvt, clpVars
  <2> QED
    BY <2>1, <2>2
<1>8. Own(a)'
  <2>1. Own(a) /\ pc'[a] = pc[a]
    BY <1>6 DEF AllOwn
  <2>2. \A x \in Unsent' : x.agent = a => x \in Unsent /\ x.time >= lvt'[a]
    BY <1>5, <1>7 DEF UnsentOf
  <2> QED
    BY <1>6, <2>1, <2>2, KeepsOwn
<1>9. ASSUME NEW b \in Agent, b # a PROVE Own(b)'
  <2>1. /\ Own(b) /\ lvt'[b] = lvt[b] /\ pc'[b] = pc[b]
        /\ \A x \in Unsent' : x.agent = b => x \in Unsent
    BY <1>6, <1>7, <1>9 DEF AllOwn
  <2> QED
    BY <1>6, <2>1, KeepsOwnAndLvt
<1>10. NothingUnsent'
  <2>1. CASE UndoSent
    <3>1. main' = [main EXCEPT !.at = "restart"]
      BY <2>1 DEF UndoSent
    <3>2. main'.at = "restart" /\ main'.rollback = m
      BY <1>2, <1>3, <1>4, <3>1 DEF MainState, Idle
    <3> QED
      BY <1>4, <1>5, <1>7, <3>2 DEF NothingUnsent, UnsentOf
  <2>2. CASE UndoBeforeGvt
    BY <2>2 DEF UndoBeforeGvt, NothingUnsent
  <2> QED
    BY <2>1, <2>2
<1> QED
  BY <1>6, <1>8, <1>9, <1>10 DEF AllOwn

LEMMA RestartKeepsOwn ==
    ASSUME IAnswers, IRetracted', [Next]_vars, AllOwn, RestartAgent
    PROVE  AllOwn'
<1>1. IRetracted /\ IType /\ MainTypes /\ IType'
  BY TypesByPart DEF IAnswers, IRetracted
<1>2. main.at = "restart" /\ main \in MainState
  BY <1>1 DEF RestartAgent, MainTypes
<1>3. main # Idle /\ main.rollback \in Rollback
  BY <1>2 DEF MainState, Idle
<1>4. PICK a \in Agent : a = main.rollback.agent
  BY <1>3 DEF Rollback
<1>5. /\ UnsentOf(a) = {} /\ a \notin ready
  BY <1>1, <1>2, <1>3, <1>4 DEF AllOwn, NothingUnsent, IType, QuietFromTheStart
<1>6. /\ UNCHANGED <<waitingFor, accepted, ready, lvt, wire, hand, sendQueue, inbox, issued>>
      /\ response' = [response EXCEPT ![a] = NoId] /\ awaited' = [awaited EXCEPT ![a] = NoId]
      /\ pc' = [pc EXCEPT ![a] = "running"] /\ main' = Idle
      /\ response \in [Agent -> Id \cup {NoId}] /\ awaited \in [Agent -> Id \cup {NoId}]
      /\ pc \in [Agent -> {"running", "waiting", "ended"}]
  BY <1>1, <1>4 DEF RestartAgent, sendVars, clpVars, IType, TypeOK
<1>7. Unsent' = Unsent /\ Way' = Way
  BY <1>6, WayStays
<1>8. Cardinality(issued)' \in Nat
  BY <1>1, CountGrows
<1>9. ~AwaitedInFlight(a)'
  <2>1. awaited'[a] = 0
    BY <1>6 DEF NoId
  <2>2. \A x \in Way : IsRequest(x) => x.id # 0
    <3>1. Way \subseteq Message
      BY <1>1, WayParts DEF WayHasParts
    <3>2. \A x \in Message : IsRequest(x) => x \in Request
      BY DEF Message, Anti, IsRequest
    <3> QED
      BY <3>1, <3>2, RequestNumbers
  <2>3. \A i \in 1..Len(inbox) : IsResponse(inbox[i]) => inbox[i].id # 0
    <3>1. \A i \in 1..Len(inbox) : inbox[i] \in Response \cup Rollback
      BY <1>1 DEF IType, TypeOK
    <3>2. \A r \in Response : r.id # 0
      BY DEF Response, Id
    <3> QED
      BY <3>1, <3>2, ResponseTyped
  <2> QED
    BY <1>6, <1>7, <2>1, <2>2, <2>3 DEF AwaitedInFlight, InFlight, Requested, Answered
<1>10. Own(a)'
  <2>1. pc'[a] = "running" /\ a \notin ready' /\ UnsentOf(a)' = {}
    BY <1>5, <1>6, <1>7 DEF UnsentOf
  <2>2. awaited'[a] <= Cardinality(issued)'
    BY <1>6, <1>8 DEF NoId
  <2> QED
    BY <1>9, <2>1, <2>2 DEF Own
<1>11. ASSUME NEW b \in Agent, b # a PROVE Own(b)'
  <2>1. /\ Own(b) /\ pc'[b] = pc[b] /\ response'[b] = response[b] /\ awaited'[b] = awaited[b]
        /\ \A x \in Unsent' : x.agent = b => x \in Unsent
    BY <1>6, <1>7, <1>11 DEF AllOwn
  <2> QED
    BY <1>6, <2>1, KeepsOwnAndLvt
<1>12. NothingUnsent'
  BY <1>6 DEF NothingUnsent
<1> QED
  BY <1>6, <1>10, <1>11, <1>12 DEF AllOwn

LEMMA NextOwn == IOwn /\ [Next]_vars => IOwn'
<1> SUFFICES ASSUME IOwn, [Next]_vars PROVE IOwn'
  OBVIOUS
<1>1. IAnswers /\ IAnswers' /\ IRetracted'
  BY NextAnswers DEF IOwn, IAnswers
<1>2. met \subseteq met'
  BY DEF Next, vars, AgentThread, SendThread, Main, CarryOutRollback, Clp
<1> SUFFICES ASSUME "sending" \notin met' PROVE AllOwn'
  BY <1>1 DEF IOwn
<1>3. AllOwn
  BY <1>2 DEF IOwn
<1>4. CarryOutRollback => hand = None
  BY DEF CarryOutRollback, Meets, Meetable
<1> USE DEF agentVars, flagVars, sendVars, clpVars
<1>5. ASSUME NEW a \in Agent, AgentThread(a) PROVE AllOwn'
  <2>1. CASE \E kind \in {"read", "write"}, t \in Time : SendRequest(a, kind, t)
    BY <1>1, <1>3, <2>1, RequestKeepsOwn
  <2>2. CASE TakeResponse(a)
    BY <1>1, <1>3, <2>2, TakeKeepsOwn
  <2>3. CASE Aborts(a) \/ BodyReturns(a)
    <3>1. Unsent' = Unsent
      BY <2>3, WayStays DEF Aborts, BodyReturns
    <3>2. pc' = [pc EXCEPT ![a] = "ended"] /\ pc \in [Agent -> {"running", "waiting", "ended"}]
      BY <1>1, <2>3 DEF Aborts, BodyReturns, IAnswers, IRetracted, IType, TypeOK
    <3>3. \A b \in Agent : pc'[b] = pc[b] \/ pc'[b] = "ended"
      BY <3>2
    <3>4. UNCHANGED <<waitingFor, response, awaited, lvt, accepted, main, ready>>
      BY <2>3 DEF Aborts, BodyReturns
    <3> QED
      BY <1>1, <1>3, <3>1, <3>3, <3>4, EachKeepsOwn
  <2> QED
    BY <1>5, <2>1, <2>2, <2>3 DEF AgentThread
<1>6. CASE SendThread
  <2>1. CASE Transmit
    BY <1>1, <1>3, <1>6, <2>1, TransmitKeepsOwn
  <2>2. CASE TakeFromQueue \/ ListRequest
    <3>1. Unsent' \subseteq Unsent
      BY <1>1, <1>6, WayAtSend DEF IAnswers, IRetracted
    <3>2. UNCHANGED <<waitingFor, response, awaited, lvt, accepted, main, ready, pc>>
      BY <2>2 DEF TakeFromQueue, ListRequest
    <3> QED
      BY <1>1, <1>3, <3>1, <3>2, EachKeepsOwn
  <2> QED
    BY <1>6, <2>1, <2>2 DEF SendThread
<1>7. CASE ReceiveResponse
  BY <1>1, <1>3, <1>7, ReceiveKeepsOwn
<1>8. CASE CarryOutRollback
  BY <1>1, <1>3, <1>4, <1>8, BeginKeepsOwn, JoinKeepsOwn, RemoveKeepsOwn, UndoKeepsOwn,
     RestartKeepsOwn DEF CarryOutRollback
<1>9. CASE \/ DismissRollback \/ Clp \/ UNCHANGED vars
           \/ \E gvt \in GvtTimes : SetGvt(gvt)
           \/ \E q \in recorded, tag \in Tag : ClpRollsBack(q, tag)
  <2>1. UNCHANGED <<waitingFor, response, awaited, lvt, accepted, main, ready, pc>>
    BY <1>9 DEF DismissRollback, Clp, ClpAnswers, ClpRetracts, vars, SetGvt, ClpRollsBack
  <2>2. Unsent' = Unsent
    <3>1. UNCHANGED <<hand, sendQueue>>
      BY <1>9 DEF DismissRollback, Clp, ClpAnswers, ClpRetracts, vars, SetGvt, ClpRollsBack
    <3> QED
      BY <3>1 DEF Unsent, InHand
  <2> QED
    BY <1>1, <1>3, <2>1, <2>2, EachKeepsOwn
<1> QED
  BY <1>5, <1>6, <1>7, <1>8, <1>9 DEF Next, Main

\* The answer an agent takes is the answer to the request it waits for, as long
\* as no rollback has met the send thread with a message in its hand: an answer
\* to a request that was undone is not awaited any more (Alp.cpp:250-292, 306).
THEOREM OwnAnswerAlways == Spec => []OwnAnswerTaken
<1>1. IOwn => OwnAnswerTaken
  BY DEF IOwn, AllOwn, OwnAnswerTaken
<1> QED
  BY <1>1, InitOwn, NextOwn, PTL DEF Spec

-----------------------------------------------------------------------------
(***************************************************************************)
(* What a rollback undoes is retracted.  A request that has passed the     *)
(* send list, and is not from before GVT, is still on it or has its        *)
(* anti-message: RollbackSendList finds it.                                *)
(***************************************************************************)
Sent == recorded \cup OnWire

Findable == \A q \in Sent : q.time >= fGVT => q \in sendList \/ AntiOf(q) \in Way

\* An identifier is given out once, and only what was issued is undone.
IssuedOnce ==
    /\ \A p, q \in issued : p.id = q.id => p = q
    /\ \A u \in undone : \E q \in issued : q.id = u

IUndone ==
    /\ IOwn
    /\ IssuedOnce
    /\ met = {} => Findable /\ UndoneIsRetracted

LEMMA InitUndone == Init => IUndone
<1> SUFFICES ASSUME Init PROVE IUndone
  OBVIOUS
<1>1. IOwn
  BY InitOwn
<1>2. Sent = {}
  BY ToSetOfEmpty DEF Init, Sent, OnWire, InHand
<1> QED
  BY <1>1, <1>2 DEF Init, IUndone, IssuedOnce, Findable, UndoneIsRetracted

SentOrNot ==
    /\ Sent \subseteq Request /\ OnWire \subseteq Way
    /\ \A x \in Way : IsRequest(x) => x \in OnWire \/ x \in Unsent

LEMMA SentTyped == IRetracted => SentOrNot
<1> SUFFICES ASSUME IRetracted PROVE SentOrNot
  OBVIOUS
<1>1. WayHasParts /\ recorded \subseteq Request
  BY WayParts DEF IRetracted, IType, TypeOK
<1>2. OnWire \subseteq Way
  BY <1>1 DEF OnWire, WayHasParts
<1>3. \A x \in Message : IsRequest(x) => x \in Request
  BY DEF Message, Anti, IsRequest
<1>4. \A x \in OnWire : x \in Message /\ IsRequest(x)
  BY <1>1 DEF OnWire, WayHasParts
<1>5. \A x \in Way : IsRequest(x) => x \in OnWire \/ x \in Unsent
  BY <1>1 DEF OnWire, Unsent, WayHasParts
<1> QED
  BY <1>1, <1>2, <1>3, <1>4, <1>5 DEF Sent, SentOrNot

LEMMA IssuedOnceStays ==
    ASSUME IssuedOnce, issued' = issued, undone' = undone
    PROVE  IssuedOnce'
  BY DEF IssuedOnce

\* A step that keeps the requests that were made and those that are undone.
LEMMA StaysRetracted ==
    ASSUME Findable, UndoneIsRetracted,
           issued' = issued, issued \subseteq Request, undone' = undone,
           \A q \in Sent' : q \in Sent \/ q \in sendList',
           \A q \in Sent' : q.time >= fGVT' => q.time >= fGVT,
           \A q \in Sent' : q.time >= fGVT' /\ q \in sendList => q \in sendList',
           \A q \in recorded' \cup Way' : q \in Request => q \in recorded \cup Way,
           \A q \in recorded' \cup Way' : q \in Request /\ AntiOf(q) \in Way => AntiOf(q) \in Way',
           Sent' \subseteq Request, Sent' \subseteq recorded' \cup Way'
    PROVE  Findable' /\ UndoneIsRetracted'
<1>1. ASSUME NEW q \in Sent', q.time >= fGVT' PROVE q \in sendList' \/ AntiOf(q) \in Way'
  BY <1>1 DEF Findable
<1>2. ASSUME NEW q \in issued', q.id \in undone', q \in recorded' \cup Way'
      PROVE  AntiOf(q) \in Way'
  <2>1. q \in Request /\ q \in recorded \cup Way /\ q.id \in undone
    BY <1>2
  <2>2. AntiOf(q) \in Way
    BY <1>2, <2>1 DEF UndoneIsRetracted, Way
  <2> QED
    BY <1>2, <2>1, <2>2
<1> QED
  BY <1>1, <1>2 DEF Findable, UndoneIsRetracted, Way

\* The usual case: GVT stays, and what is on its way; the send list only grows.
LEMMA StaysRetractedOnWay ==
    ASSUME IRetracted, IRetracted', Findable, UndoneIsRetracted,
           UNCHANGED <<issued, undone, fGVT>>, Way' = Way, recorded' \subseteq recorded,
           OnWire' \subseteq OnWire \cup sendList', sendList \subseteq sendList'
    PROVE  Findable' /\ UndoneIsRetracted'
<1>0. SentOrNot /\ SentOrNot'
  BY SentTyped, PTL
<1>1. Sent' \subseteq Request /\ Sent' \subseteq recorded' \cup Way'
  BY <1>0 DEF Sent, SentOrNot
<1>2. issued \subseteq Request
  BY DEF IRetracted, IType, TypeOK
<1>3. \A q \in Sent' : q \in Sent \/ q \in sendList'
  BY DEF Sent
<1> QED
  BY <1>1, <1>2, <1>3, StaysRetracted

LEMMA RequestRetractable ==
    ASSUME IRetracted, IRetracted', IssuedOnce, NEW a \in Agent, NEW kind \in {"read", "write"},
           NEW t \in Time, SendRequest(a, kind, t)
    PROVE  /\ IssuedOnce'
           /\ Findable /\ UndoneIsRetracted => Findable' /\ UndoneIsRetracted'
<1>1. IType' /\ issued \subseteq Request
  BY DEF IRetracted, IType, TypeOK
<1>2. PICK m \in Request :
        /\ m.agent = a /\ m.time = t /\ m.id = Cardinality(issued) + 1 /\ IsRequest(m)
        /\ issued' = issued \cup {m}
        /\ Way' = Way \cup {m} /\ Unsent' = Unsent \cup {m} /\ OnWire' = OnWire
  BY <1>1, WayAtRequest
<1>3. UNCHANGED <<recorded, sendList, fGVT, undone>>
  BY DEF SendRequest, clpVars
<1>4. \A q \in issued : q.id # m.id
  <2>1. Cardinality(issued) \in Nat /\ \A q \in issued : q.id <= Cardinality(issued)
    BY CountOfIssued DEF IRetracted, IssuedInOrder
  <2>2. \A q \in issued : q.id \in Int
    BY <1>1, RequestNumbers
  <2> QED
    BY <1>2, <2>1, <2>2
<1>5. IssuedOnce'
  BY <1>2, <1>3, <1>4 DEF IssuedOnce
<1>6. m.id \notin undone
  BY <1>4 DEF IssuedOnce
<1>7. ASSUME Findable, UndoneIsRetracted PROVE Findable' /\ UndoneIsRetracted'
  <2>1. Findable'
    BY <1>2, <1>3, <1>7 DEF Findable, Sent
  <2>2. ASSUME NEW q \in issued', q.id \in undone', q \in recorded' \cup Way'
        PROVE  AntiOf(q) \in Way'
    <3>1. q # m /\ q \in issued
      BY <1>2, <1>3, <1>6, <2>2
    <3>2. q \in recorded \cup Way
      BY <1>2, <1>3, <2>2, <3>1
    <3> QED
      BY <1>2, <1>3, <1>7, <2>2, <3>1, <3>2 DEF UndoneIsRetracted, Way
  <2> QED
    BY <2>1, <2>2 DEF UndoneIsRetracted, Way
<1> QED
  BY <1>5, <1>7

\* An answer to a write that failed takes only that write off the send list.
LEMMA ReceiveRetractable ==
    ASSUME IAnswers, IRetracted', Findable, UndoneIsRetracted, ReceiveResponse
    PROVE  Findable' /\ UndoneIsRetracted'
<1>1. IRetracted /\ AnsweredOnce
  BY DEF IAnswers
<1> DEFINE m == Head(inbox)
<1>2. /\ m.kind \in {"answer", "failure"} /\ inbox # << >>
      /\ sendList' = IF m.kind = "failure" THEN {e \in sendList : e.id # m.id} ELSE sendList
      /\ UNCHANGED <<wire, hand, sendQueue, recorded, issued, undone, fGVT>>
  BY DEF ReceiveResponse, Handles, agentVars, clpVars
<1>3. inbox \in Seq(Response \cup Rollback) /\ issued \subseteq Request
  BY <1>1 DEF IRetracted, IType, TypeOK
<1>4. 1 \in 1..Len(inbox) /\ m = inbox[1]
  BY <1>2, <1>3
<1>5. Settled(m)
  BY <1>1, <1>2, <1>4 DEF AnsweredOnce, IsResponse
<1> HIDE DEF m
<1>6. Way' = Way /\ OnWire' = OnWire
  BY <1>2, WayStays
<1>0. SentOrNot /\ SentOrNot'
  BY <1>1, SentTyped, PTL
<1>7. Sent' \subseteq Request /\ Sent' \subseteq recorded' \cup Way' /\ Sent' = Sent
  <2>1. Sent' \subseteq Request /\ OnWire' \subseteq Way'
    BY <1>0 DEF SentOrNot
  <2> QED
    BY <1>2, <1>6, <2>1 DEF Sent
<1>8. ASSUME NEW q \in Sent, q \in sendList PROVE q \in sendList'
  <2> SUFFICES ASSUME m.kind = "failure" PROVE q.id # m.id
    BY <1>2, <1>8
  <2>1. CASE q \in recorded
    BY <1>5, <2>1 DEF Settled
  <2>2. CASE q \in OnWire
    <3>1. q \in Way /\ IsRequest(q)
      BY <1>0, <2>2 DEF OnWire, SentOrNot
    <3> QED
      BY <1>5, <3>1 DEF Settled, Requested
  <2> QED
    BY <2>1, <2>2 DEF Sent
<1> QED
  BY <1>2, <1>3, <1>6, <1>7, <1>8, StaysRetracted

\* What the CLP answers was on the wire and is recorded; what it retracts is
\* not recorded any more, and its request has arrived before.
LEMMA ClpRetractable ==
    ASSUME IRetracted, IRetracted', Findable, UndoneIsRetracted, Clp
    PROVE  Findable' /\ UndoneIsRetracted'
<1> DEFINE h == Head(wire)
<1>1. IType' /\ issued \subseteq Request
  BY DEF IRetracted, IType, TypeOK
<1>2. /\ Way = Way' \cup {h} /\ OnWire' \subseteq OnWire
      /\ IsRequest(h) => h \in OnWire
      /\ \A x \in Way' : IsRequest(x) => x.id # h.id
  BY <1>1, WayAtClp
<1>3. UNCHANGED <<issued, undone, fGVT, sendList>>
  BY DEF Clp, ClpAnswers, ClpRetracts, agentVars, sendVars
<1>4. /\ IsRequest(h) => recorded' \subseteq recorded \cup {h}
      /\ ~IsRequest(h) => recorded' = {q \in recorded : AntiOf(q) # h}
  BY DEF Clp, ClpAnswers, ClpRetracts
<1> HIDE DEF h
<1>0. SentOrNot /\ SentOrNot'
  BY SentTyped, PTL
<1>5. Sent' \subseteq Request /\ Sent' \subseteq recorded' \cup Way' /\ OnWire \subseteq Way
  BY <1>0 DEF Sent, SentOrNot
<1>6. Sent' \subseteq Sent /\ recorded' \cup Way' \subseteq recorded \cup Way
  BY <1>2, <1>4, <1>5 DEF Sent
<1>7. ASSUME NEW q \in recorded' \cup Way', q \in Request PROVE AntiOf(q) # h
  <2>1. CASE IsRequest(h)
    BY <1>7, <2>1 DEF AntiOf, Request, IsRequest
  <2>2. CASE ~IsRequest(h) /\ q \in recorded'
    BY <1>4, <2>2
  <2>3. CASE q \in Way'
    <3>1. IsRequest(q) /\ AntiOf(q).id = q.id
      BY <1>7 DEF AntiOf, Request, IsRequest
    <3> QED
      BY <1>2, <2>3, <3>1
  <2> QED
    BY <1>7, <2>1, <2>2, <2>3
<1>8. \A q \in recorded' \cup Way' : q \in Request /\ AntiOf(q) \in Way => AntiOf(q) \in Way'
  BY <1>2, <1>7
<1> QED
  BY <1>1, <1>3, <1>5, <1>6, <1>8, StaysRetracted

LEMMA GvtRetractable ==
    ASSUME IRetracted, IRetracted', Findable, UndoneIsRetracted, NEW gvt \in GvtTimes, SetGvt(gvt)
    PROVE  Findable' /\ UndoneIsRetracted'
<1>1. /\ fGVT' = gvt /\ gvt > fGVT /\ sendList' = {q \in sendList : q.time >= gvt}
      /\ UNCHANGED <<wire, hand, sendQueue, recorded, issued, undone>>
  BY DEF SetGvt, agentVars, clpVars
<1>2. issued \subseteq Request /\ fGVT \in Int /\ gvt \in Int
  <2>1. fGVT \in Lvt /\ gvt \in Lvt /\ Lvt \subseteq Int
    BY ConstantsAssumption, ConstantFacts DEF IRetracted, IType, TypeOK
  <2> QED
    BY <2>1 DEF IRetracted, IType, TypeOK
<1>3. Way' = Way /\ OnWire' = OnWire
  BY <1>1, WayStays
<1>0. SentOrNot /\ SentOrNot'
  BY SentTyped, PTL
<1>4. Sent' \subseteq Request /\ OnWire' \subseteq Way'
  BY <1>0 DEF SentOrNot
<1>5. Sent' = Sent /\ Sent' \subseteq recorded' \cup Way'
  BY <1>1, <1>3, <1>4 DEF Sent
<1>6. \A q \in Sent' : q.time \in Int
  BY <1>4, RequestNumbers
<1>7. \A q \in Sent' : q.time >= fGVT' => q.time >= fGVT /\ (q \in sendList => q \in sendList')
  BY <1>1, <1>2, <1>6
<1> QED
  BY <1>1, <1>2, <1>3, <1>4, <1>5, <1>7, StaysRetracted

\* RollbackSendList finds every request that it undoes: none is unsent, and
\* none is from before GVT.
LEMMA UndoRetractable ==
    ASSUME IRetracted, IRetracted', IssuedOnce, UndoSent
    PROVE  /\ IssuedOnce'
           /\ Findable /\ UndoneIsRetracted /\ NothingUnsent /\ ~Meets("beforeGvt")
                => Findable' /\ UndoneIsRetracted'
<1>1. IType /\ IType' /\ MainTypes /\ issued \subseteq Request /\ fGVT \in Int
  <2>1. fGVT \in Lvt /\ Lvt \subseteq Int
    BY ConstantFacts DEF IRetracted, IType, TypeOK
  <2> QED
    BY <2>1, TypesByPart DEF IRetracted, IType, TypeOK
<1>2. main.at = "undo" /\ main # Idle /\ main.rollback \in Rollback
  BY <1>1 DEF UndoSent, MainTypes, MainState, Idle
<1>3. PICK m \in Rollback : m = main.rollback
  BY <1>2
<1>4. /\ sendList' = sendList \ {q \in sendList : IsUndone(q, m)}
      /\ undone' = undone \cup UndoneBy(m)
      /\ UNCHANGED <<issued, recorded, fGVT, wire, hand>>
  BY <1>3 DEF UndoSent, WithoutUndone, agentVars, clpVars
<1>5. /\ Way \subseteq Way' /\ \A x \in Way' : x \in Way \/ ~IsRequest(x)
      /\ OnWire' = OnWire
      /\ \A q \in sendList : q \in sendList' \/ AntiOf(q) \in Way'
  BY <1>1, WayAtUndo
<1>6. \A u \in UndoneBy(m) : \E p \in issued : u = p.id /\ IsUndone(p, m)
  BY DEF UndoneBy, IsUndone
<1>7. IssuedOnce'
  <2>1. \A u \in undone' : \E q \in issued : q.id = u
    BY <1>4, <1>6 DEF IssuedOnce
  <2> QED
    BY <1>4, <2>1 DEF IssuedOnce
<1>8. ASSUME Findable, UndoneIsRetracted, NothingUnsent, ~Meets("beforeGvt")
      PROVE  Findable' /\ UndoneIsRetracted'
  <2>1. SentOrNot
    BY SentTyped
  <2>2. ASSUME NEW q \in Sent, q.time >= fGVT PROVE q \in sendList' \/ AntiOf(q) \in Way'
    BY <1>5, <1>8, <2>2 DEF Findable
  <2>3. Findable'
    BY <1>4, <1>5, <2>2 DEF Findable, Sent
  <2>4. UnsentOf(m.agent) = {} /\ ~(m.time < fGVT)
    BY <1>2, <1>3, <1>8 DEF NothingUnsent, Meets
  <2>5. ASSUME NEW q \in issued, q.id \in undone', q \in recorded' \cup Way'
        PROVE  AntiOf(q) \in Way'
    <3>1. q \in Request /\ IsRequest(q) /\ q \in recorded \cup Way
      BY <1>1, <1>4, <1>5, <2>5 DEF Request, IsRequest
    <3>2. CASE q.id \in undone
      BY <1>5, <1>8, <3>1, <3>2 DEF UndoneIsRetracted, Way
    <3>3. CASE q.id \notin undone
      <4>1. IsUndone(q, m)
        BY <1>4, <1>6, <2>5, <3>3 DEF IssuedOnce
      <4>2. q \in Sent
        <5>1. q \notin Unsent
          BY <2>4, <4>1 DEF UnsentOf, IsUndone
        <5> QED
          BY <2>1, <3>1, <5>1 DEF Sent, SentOrNot
      <4>3. q.time >= fGVT
        <5>1. q.time \in Int /\ m.time \in Int
          <6>1. m.time \in Time /\ Time \subseteq Int
            BY DEF Rollback, Time
          <6> QED
            BY <3>1, <6>1, RequestNumbers
        <5>2. q.time >= m.time
          BY <4>1, <5>1 DEF IsUndone
        <5> QED
          BY <1>1, <2>4, <5>1, <5>2
      <4>4. q \notin sendList'
        BY <1>4, <4>1
      <4> QED
        BY <2>2, <4>2, <4>3, <4>4
    <3> QED
      BY <3>2, <3>3
  <2> QED
    BY <1>4, <2>3, <2>5 DEF UndoneIsRetracted, Way
<1> QED
  BY <1>7, <1>8

\* What is taken off the queue is not sent yet.
LEMMA RemoveRetractable ==
    ASSUME IRetracted, IRetracted', Findable, UndoneIsRetracted, RemoveQueued
    PROVE  Findable' /\ UndoneIsRetracted'
<1>1. IType /\ IType' /\ issued \subseteq Request
  BY DEF IRetracted, IType, TypeOK
<1>2. /\ Way' \subseteq Way /\ OnWire' = OnWire
      /\ \A x \in Way : ~IsRequest(x) => x \in Way'
  BY <1>1, WayAtRemoval
<1>3. UNCHANGED <<issued, undone, fGVT, sendList, recorded>>
  BY DEF RemoveQueued, agentVars, clpVars
<1>0. SentOrNot /\ SentOrNot'
  BY SentTyped, PTL
<1>4. Sent' \subseteq Request /\ Sent' \subseteq recorded' \cup Way' /\ Sent' = Sent
  BY <1>0, <1>2, <1>3 DEF Sent, SentOrNot
<1>5. \A q \in Request : ~IsRequest(AntiOf(q))
  BY DEF AntiOf, Request, IsRequest
<1> QED
  BY <1>1, <1>2, <1>3, <1>4, <1>5, StaysRetracted

\* The actions that keep what is issued and undone.
LEMMA IssuedOnceNext ==
    ASSUME IRetracted, IRetracted', IssuedOnce, [Next]_vars
    PROVE  IssuedOnce'
<1> USE DEF agentVars, sendVars, clpVars
<1>1. ASSUME NEW a \in Agent, AgentThread(a) PROVE IssuedOnce'
  <2>1. CASE \E kind \in {"read", "write"}, t \in Time : SendRequest(a, kind, t)
    BY <2>1, RequestRetractable
  <2>2. CASE TakeResponse(a) \/ Aborts(a) \/ BodyReturns(a)
    BY <2>2, IssuedOnceStays DEF TakeResponse, Aborts, BodyReturns
  <2> QED
    BY <1>1, <2>1, <2>2 DEF AgentThread
<1>2. CASE SendThread
  BY <1>2, IssuedOnceStays DEF SendThread, TakeFromQueue, ListRequest, Transmit
<1>3. CASE ReceiveResponse \/ DismissRollback
  BY <1>3, IssuedOnceStays DEF ReceiveResponse, DismissRollback
<1>4. CASE UndoSent
  BY <1>4, UndoRetractable
<1>5. CASE BeginRollback \/ JoinAgent \/ RemoveQueued \/ UndoBeforeGvt \/ RestartAgent
  BY <1>5, IssuedOnceStays DEF BeginRollback, JoinAgent, RemoveQueued, UndoBeforeGvt, RestartAgent
<1>6. CASE \/ Clp \/ UNCHANGED vars
           \/ \E gvt \in GvtTimes : SetGvt(gvt)
           \/ \E q \in recorded, tag \in Tag : ClpRollsBack(q, tag)
  BY <1>6, IssuedOnceStays DEF Clp, ClpAnswers, ClpRetracts, vars, SetGvt, ClpRollsBack
<1> QED
  BY <1>1, <1>2, <1>3, <1>4, <1>5, <1>6 DEF Next, Main, CarryOutRollback

LEMMA NextUndone == IUndone /\ [Next]_vars => IUndone'
<1> SUFFICES ASSUME IUndone, [Next]_vars PROVE IUndone'
  OBVIOUS
<1>1. IOwn' /\ IRetracted /\ IRetracted' /\ IType /\ IType'
  BY NextOwn DEF IUndone, IOwn, IAnswers, IRetracted
<1>2. IssuedOnce /\ IssuedOnce'
  BY <1>1, IssuedOnceNext DEF IUndone
<1>3. met \subseteq met'
  BY DEF Next, vars, AgentThread, SendThread, Main, CarryOutRollback, Clp
<1> SUFFICES ASSUME met' = {} PROVE Findable' /\ UndoneIsRetracted'
  BY <1>1, <1>2 DEF IUndone
<1>4. Findable /\ UndoneIsRetracted /\ NothingUnsent /\ IAnswers
  BY <1>3 DEF IUndone, IOwn, AllOwn
<1>5. CarryOutRollback => ~Meets("beforeGvt")
  BY DEF CarryOutRollback, Meetable
<1> USE DEF agentVars, sendVars, clpVars
<1>6. ASSUME NEW a \in Agent, AgentThread(a) PROVE Findable' /\ UndoneIsRetracted'
  <2>1. CASE \E kind \in {"read", "write"}, t \in Time : SendRequest(a, kind, t)
    BY <1>1, <1>2, <1>4, <2>1, RequestRetractable
  <2>2. CASE TakeResponse(a) \/ Aborts(a) \/ BodyReturns(a)
    <3>1. UNCHANGED <<issued, undone, fGVT, recorded, sendList, wire, hand, sendQueue>>
      BY <2>2 DEF TakeResponse, Aborts, BodyReturns
    <3>2. Way' = Way /\ OnWire' = OnWire
      BY <3>1, WayStays
    <3> QED
      BY <1>1, <1>4, <3>1, <3>2, StaysRetractedOnWay
  <2> QED
    BY <1>6, <2>1, <2>2 DEF AgentThread
<1>7. CASE SendThread
  <2>1. UNCHANGED <<issued, undone, fGVT, recorded>>
    BY <1>7 DEF SendThread, TakeFromQueue, ListRequest, Transmit
  <2> QED
    BY <1>1, <1>4, <1>7, <2>1, WayAtSend, StaysRetractedOnWay
<1>8. CASE ReceiveResponse
  BY <1>1, <1>4, <1>8, ReceiveRetractable
<1>9. CASE CarryOutRollback
  <2>1. CASE RemoveQueued
    BY <1>1, <1>4, <2>1, RemoveRetractable
  <2>2. CASE UndoSent
    BY <1>1, <1>2, <1>4, <1>5, <1>9, <2>2, UndoRetractable
  \* What it finds is not before the time of the rollback.
  <2>3. CASE UndoBeforeGvt
    <3>1. main.at = "undo" /\ main # Idle /\ main.rollback \in Rollback
      <4>1. MainTypes
        BY <1>1, TypesByPart
      <4> QED
        BY <2>3, <4>1 DEF UndoBeforeGvt, MainTypes, MainState, Idle
    <3>2. PICK q \in sendList : IsUndone(q, main.rollback) /\ q.time < fGVT
      BY <2>3 DEF UndoBeforeGvt
    <3>3. q.time \in Int /\ main.rollback.time \in Int /\ fGVT \in Int
      <4>1. main.rollback.time \in Time /\ fGVT \in Lvt /\ q \in Request
        BY <1>1, <3>1 DEF Rollback, IType, TypeOK
      <4>2. Time \subseteq Int /\ Lvt \subseteq Int
        BY ConstantFacts DEF Time
      <4>3. q.time \in Int
        BY <4>1, RequestNumbers
      <4> QED
        BY <4>1, <4>2, <4>3
    <3>4. q.time >= main.rollback.time
      BY <3>2, <3>3 DEF IsUndone
    <3>5. main.rollback.time < fGVT
      BY <3>2, <3>3, <3>4
    <3> QED
      BY <1>5, <1>9, <3>1, <3>5 DEF Meets
  <2>4. CASE BeginRollback \/ JoinAgent \/ RestartAgent
    <3>1. UNCHANGED <<issued, undone, fGVT, recorded, sendList, wire, hand, sendQueue>>
      BY <2>4 DEF BeginRollback, JoinAgent, RestartAgent
    <3>2. Way' = Way /\ OnWire' = OnWire
      BY <3>1, WayStays
    <3> QED
      BY <1>1, <1>4, <3>1, <3>2, StaysRetractedOnWay
  <2> QED
    BY <1>9, <2>1, <2>2, <2>3, <2>4 DEF CarryOutRollback
<1>10. CASE Clp
  BY <1>1, <1>4, <1>10, ClpRetractable
<1>11. ASSUME NEW gvt \in GvtTimes, SetGvt(gvt) PROVE Findable' /\ UndoneIsRetracted'
  BY <1>1, <1>4, <1>11, GvtRetractable
<1>12. CASE \/ DismissRollback \/ UNCHANGED vars
            \/ \E q \in recorded, tag \in Tag : ClpRollsBack(q, tag)
  <2>1. /\ UNCHANGED <<issued, undone, fGVT, sendList, wire, hand, sendQueue>>
        /\ recorded' \subseteq recorded
    BY <1>12 DEF DismissRollback, vars, ClpRollsBack
  <2>2. Way' = Way /\ OnWire' = OnWire
    BY <2>1, WayStays
  <2> QED
    BY <1>1, <1>4, <2>1, <2>2, StaysRetractedOnWay
<1> QED
  BY <1>6, <1>7, <1>8, <1>9, <1>10, <1>11, <1>12 DEF Next, Main

\* As long as no rollback has met the send thread with a message in its hand or
\* gone back before GVT, a request that a rollback has undone is neither in the
\* CLP's history nor on its way there without the anti-message that retracts it
\* (Alp.cpp:393-467).
THEOREM UndoneAlwaysRetracted == Spec => []UndoneIsRetractedUnlessRaced
<1>1. IUndone => UndoneIsRetractedUnlessRaced
  BY DEF IUndone, UndoneIsRetractedUnlessRaced
<1> QED
  BY <1>1, InitUndone, NextUndone, PTL DEF Spec
=============================================================================
