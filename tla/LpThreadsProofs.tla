-------------------------- MODULE LpThreadsProofs --------------------------
(***************************************************************************)
(* Proofs about LpThreads, for any number of LPs and every bound: the      *)
(* types, the receive semaphore, who holds the mutexes, and that the       *)
(* threads of an LP stop only when every LP has come to the end.           *)
(***************************************************************************)
EXTENDS LpThreads, TLAPS

(***************************************************************************)
(* The inductive invariant.                                                *)
(***************************************************************************)
\* The send thread has a message in its hand exactly while it transmits.
HandIsFull == \A r \in Rank : sender[r] \in {"transmit", "test"} <=> hand[r] # None

IType == TypeOK /\ HandIsFull

-----------------------------------------------------------------------------
LEMMA RankFacts ==
    /\ Starter \in Rank
    /\ Alp \subseteq Rank
    /\ \A r \in Rank : (r + 1) % N \in Rank
    /\ 1..(N - 1) \subseteq Rank
    /\ N - 1 \in Nat
  BY ConstantsAssumption DEF Starter, Rank, Alp

\* None is not a message, so that taking it from the hand is seen.
LEMMA NoneIsNoMessage == None \notin Message
<1>1. \A m \in Message : m.type # "none"
  BY DEF Message, SimTypes, ControlTypes
<1> QED
  BY <1>1 DEF None

LEMMA QueuedKeepsTypes ==
    ASSUME TypeOK, NEW r \in Rank, NEW messages \in Seq(Message), Queued(r, messages)
    PROVE  /\ sendQueue' \in [Rank -> Seq(Message)]
           /\ controlQueue' \in [Rank -> Seq(Message)]
           /\ sendSemaphore' \in [Rank -> Nat]
<1>1. sendQueue \in [Rank -> Seq(Message)] /\ controlQueue \in [Rank -> Seq(Message)]
  BY DEF TypeOK
<1>2. sendSemaphore \in [Rank -> Nat]
  BY DEF TypeOK
<1>3. \A q \in Seq(Message) : q \o messages \in Seq(Message)
  OBVIOUS
<1>4. \/ sendQueue' = [sendQueue EXCEPT ![r] = @ \o messages] /\ controlQueue' = controlQueue
      \/ controlQueue' = [controlQueue EXCEPT ![r] = @ \o messages] /\ sendQueue' = sendQueue
  BY DEF Queued
<1>5. sendQueue' \in [Rank -> Seq(Message)] /\ controlQueue' \in [Rank -> Seq(Message)]
  BY <1>1, <1>3, <1>4
<1>6. sendSemaphore' \in [Rank -> Nat]
  BY <1>2, Len(messages) \in Nat DEF Queued
<1> QED
  BY <1>5, <1>6

LEMMA InitType == Init => IType
<1> SUFFICES ASSUME Init PROVE IType
  OBVIOUS
<1>1. << >> \in Seq(Message)
  OBVIOUS
<1>2. /\ sendQueue \in [Rank -> Seq(Message)] /\ controlQueue \in [Rank -> Seq(Message)]
      /\ recvQueue \in [Rank -> Seq(Message)]
  BY <1>1 DEF Init
<1>3. channel \in [Rank -> [Rank -> Seq(Message)]]
  BY <1>1 DEF Init
<1>4. budget \in [{"request", "gvtRequest"} -> Nat]
  BY ConstantsAssumption DEF Init
<1>5. TypeOK
  BY <1>2, <1>3, <1>4 DEF Init, TypeOK
<1>6. HandIsFull
  BY DEF Init, HandIsFull
<1> QED
  BY <1>5, <1>6 DEF IType

-----------------------------------------------------------------------------
\* The types are kept, action by action.
ThreadTypes ==
    /\ main \in [Rank -> {"wait", "lock", "handle", "yield", "relock", "lockMpi",
                          "barrier", "passed", "unlock", "cut", "finalise", "stop", "join", "done"}]
    /\ sender \in [Rank -> {"wait", "woken", "lockMpi", "send", "transmit", "test", "exited"}]
    /\ receiver \in [Rank -> {"probe", "lockMpi", "lockLp", "receive", "signal", "exited"}]
    /\ lpMutex \in [Rank -> {Nobody, "main", "receive"}]
    /\ mpiMutex \in [Rank -> {Nobody, "main", "send", "receive"}]

SendTypes ==
    /\ sendSemaphore \in [Rank -> Nat]
    /\ sendQueue \in [Rank -> Seq(Message)]
    /\ controlQueue \in [Rank -> Seq(Message)]

ReceiveTypes ==
    /\ recvSemaphore \in [Rank -> Nat]
    /\ recvQueue \in [Rank -> Seq(Message)]

TransferTypes ==
    /\ hand \in [Rank -> Message \cup {None}]
    /\ channel \in [Rank -> [Rank -> Seq(Message)]]
    /\ HandIsFull

FlagTypes ==
    /\ accepting \in BOOLEAN /\ final \in BOOLEAN
    /\ ended \in [Rank -> BOOLEAN] /\ running \in [Rank -> BOOLEAN]
    /\ outstanding \in [Rank -> Nat \cup {NoCut}]
    /\ budget \in [{"request", "gvtRequest"} -> Nat]

LEMMA TypesByPart ==
    IType <=> ThreadTypes /\ SendTypes /\ ReceiveTypes /\ TransferTypes /\ FlagTypes
  BY DEF IType, TypeOK, ThreadTypes, SendTypes, ReceiveTypes, TransferTypes, FlagTypes

\* A queue of messages stays one when it loses its first or gets another.
LEMMA QueueFacts ==
    ASSUME NEW q \in Seq(Message)
    PROVE  /\ q # << >> => Head(q) \in Message /\ Tail(q) \in Seq(Message)
           /\ \A m \in Message : Append(q, m) \in Seq(Message)
  OBVIOUS

LEMMA SendThreadKeepsTypes ==
    ASSUME IType, NEW r \in Rank, SendThread(r)
    PROVE  IType'
<1> SUFFICES ThreadTypes' /\ SendTypes' /\ ReceiveTypes' /\ TransferTypes' /\ FlagTypes'
  BY TypesByPart, PTL
<1>0. ThreadTypes /\ SendTypes /\ ReceiveTypes /\ TransferTypes /\ FlagTypes
  BY TypesByPart
<1>1. CASE /\ SendWait(r)
           /\ UNCHANGED <<main, receiver, mutexVars, sendQueue, controlQueue, recvVars,
                          hand, channel, stopVars, budget>>
  <2>1. ThreadTypes'
    BY <1>0, <1>1 DEF ThreadTypes, SendWait, SenderGoes, mutexVars
  <2>2. SendTypes'
    BY <1>0, <1>1 DEF SendTypes, SendWait, SenderGoes, IsSignalled
  <2>3. ReceiveTypes'
    BY <1>0, <1>1 DEF ReceiveTypes, recvVars
  <2>4. TransferTypes'
    <3>1. /\ sender[r] \in {"wait", "woken"}
          /\ \E to \in {"woken", "lockMpi", "exited"} : sender' = [sender EXCEPT ![r] = to]
      BY <1>1 DEF SendWait, SenderGoes
    <3>2. \A q \in Rank :
            sender[q] \in {"transmit", "test"} <=> sender'[q] \in {"transmit", "test"}
      BY <1>0, <3>1 DEF ThreadTypes
    <3> QED
      BY <1>0, <1>1, <3>2 DEF TransferTypes, HandIsFull
  <2>5. FlagTypes'
    BY <1>0, <1>1 DEF FlagTypes, stopVars, gvtVars
  <2> QED
    BY <2>1, <2>2, <2>3, <2>4, <2>5
<1>2. CASE /\ SendLocksMpi(r)
           /\ UNCHANGED <<main, receiver, lpMutex, sendVars, recvVars, hand, channel,
                          stopVars, budget>>
  <2>1. ThreadTypes'
    BY <1>0, <1>2 DEF ThreadTypes, SendLocksMpi, SenderGoes
  <2>2. SendTypes' /\ ReceiveTypes' /\ FlagTypes'
    BY <1>0, <1>2 DEF SendTypes, ReceiveTypes, FlagTypes, sendVars, recvVars, stopVars, gvtVars
  <2>3. TransferTypes'
    BY <1>0, <1>2 DEF TransferTypes, ThreadTypes, HandIsFull, SendLocksMpi, SenderGoes
  <2> QED
    BY <2>1, <2>2, <2>3
<1>3. CASE /\ Dequeues(r)
           /\ UNCHANGED <<main, receiver, lpMutex, sendSemaphore, recvVars, channel,
                          stopVars, budget>>
  <2>1. ThreadTypes'
    BY <1>0, <1>3 DEF ThreadTypes, Dequeues, SenderGoes
  <2> DEFINE TakenFrom(q) == q # << >> => Head(q) \in Message /\ Tail(q) \in Seq(Message)
  <2>a. TakenFrom(controlQueue[r]) /\ TakenFrom(sendQueue[r])
    BY <1>0, QueueFacts DEF SendTypes
  <2>2. SendTypes'
    BY <1>0, <1>3, <2>a DEF SendTypes, Dequeues
  <2>3. ReceiveTypes' /\ FlagTypes'
    BY <1>0, <1>3 DEF ReceiveTypes, FlagTypes, recvVars, stopVars, gvtVars
  <2>4. TransferTypes'
    <3>1. channel' = channel
      BY <1>3
    <3>2. ASSUME NEW m \in Message, hand' = [hand EXCEPT ![r] = m], SenderGoes(r, "send", "transmit")
          PROVE  TransferTypes'
      BY <1>0, <3>1, <3>2, NoneIsNoMessage
         DEF TransferTypes, ThreadTypes, HandIsFull, SenderGoes
    <3>3. ASSUME hand' = hand, SenderGoes(r, "send", "wait")
          PROVE  TransferTypes'
      BY <1>0, <3>1, <3>3 DEF TransferTypes, ThreadTypes, HandIsFull, SenderGoes
    <3> QED
      BY <1>3, <2>a, <3>2, <3>3 DEF Dequeues
  <2> QED
    BY <2>1, <2>2, <2>3, <2>4
<1>4. CASE /\ Transmits(r) \/ Completes(r)
           /\ UNCHANGED <<main, receiver, lpMutex, sendVars, recvVars, stopVars, budget>>
  <2>1. ThreadTypes'
    BY <1>0, <1>4 DEF ThreadTypes, Transmits, Completes, SenderGoes
  <2>2. SendTypes' /\ ReceiveTypes' /\ FlagTypes'
    BY <1>0, <1>4 DEF SendTypes, ReceiveTypes, FlagTypes, sendVars, recvVars, stopVars, gvtVars
  <2>3. hand' \in [Rank -> Message \cup {None}] /\ HandIsFull'
    <3>1. ASSUME Transmits(r) PROVE HandIsFull' /\ hand' = hand
      BY <1>0, <3>1 DEF TransferTypes, ThreadTypes, HandIsFull, Transmits, SenderGoes
    <3>2. ASSUME Completes(r) PROVE HandIsFull' /\ hand' \in [Rank -> Message \cup {None}]
      BY <1>0, <3>2 DEF TransferTypes, ThreadTypes, HandIsFull, Completes, SenderGoes
    <3> QED
      BY <1>0, <1>4, <3>1, <3>2 DEF TransferTypes
  <2>4. channel' \in [Rank -> [Rank -> Seq(Message)]]
    <3>1. CASE Transmits(r)
      <4>1. hand[r] \in Message
        BY <1>0, <3>1 DEF TransferTypes, HandIsFull, Transmits, SenderGoes
      <4>2. channel[r] \in [Rank -> Seq(Message)]
        BY <1>0 DEF TransferTypes
      <4>3. [channel[r] EXCEPT ![hand[r].dest] = Append(@, hand[r])] \in [Rank -> Seq(Message)]
        BY <4>1, <4>2, QueueFacts
      <4> QED
        BY <1>0, <3>1, <4>3 DEF TransferTypes, Transmits
    <3>2. CASE Completes(r)
      BY <1>0, <3>2 DEF TransferTypes, Completes
    <3> QED
      BY <1>4, <3>1, <3>2
  <2> QED
    BY <2>1, <2>2, <2>3, <2>4 DEF TransferTypes
<1> QED
  BY <1>1, <1>2, <1>3, <1>4 DEF SendThread

LEMMA ReceiveThreadKeepsTypes ==
    ASSUME IType, NEW r \in Rank, ReceiveThread(r)
    PROVE  IType'
<1> SUFFICES ThreadTypes' /\ SendTypes' /\ ReceiveTypes' /\ TransferTypes' /\ FlagTypes'
  BY TypesByPart, PTL
<1>0. ThreadTypes /\ SendTypes /\ ReceiveTypes /\ TransferTypes /\ FlagTypes
  BY TypesByPart
<1>1. ThreadTypes'
  BY <1>0 DEF ThreadTypes, ReceiveThread, Probes, ReceiveLocks, Receives, ReceiverGoes, mutexVars
<1>2. SendTypes' /\ FlagTypes'
  BY <1>0 DEF SendTypes, FlagTypes, ReceiveThread, sendVars, stopVars, gvtVars
<1>3. recvSemaphore' \in [Rank -> Nat]
  BY <1>0 DEF ReceiveTypes, ReceiveThread, SignalsReceived
<1>4. CASE Receives(r)
  <2>1. PICK s \in Rank :
          /\ channel[s][r] # << >>
          /\ channel' = [channel EXCEPT ![s][r] = Tail(@)]
          /\ recvQueue' = [recvQueue EXCEPT ![r] = Append(@, Head(channel[s][r]))]
    BY <1>4 DEF Receives
  <2>2. channel[s] \in [Rank -> Seq(Message)] /\ recvQueue[r] \in Seq(Message)
    BY <1>0 DEF TransferTypes, ReceiveTypes
  <2>3. Head(channel[s][r]) \in Message /\ Tail(channel[s][r]) \in Seq(Message)
    BY <2>1, <2>2, QueueFacts
  <2>4. Append(recvQueue[r], Head(channel[s][r])) \in Seq(Message)
    BY <2>2, <2>3, QueueFacts
  <2>5. recvQueue' \in [Rank -> Seq(Message)]
    BY <1>0, <2>1, <2>4 DEF ReceiveTypes
  <2>6. [channel[s] EXCEPT ![r] = Tail(@)] \in [Rank -> Seq(Message)]
    BY <2>2, <2>3
  <2>7. channel' \in [Rank -> [Rank -> Seq(Message)]]
    BY <1>0, <2>1, <2>6 DEF TransferTypes
  <2> QED
    BY <1>0, <1>1, <1>2, <1>3, <2>5, <2>7 DEF ReceiveThread, ReceiveTypes, TransferTypes, HandIsFull
<1>5. CASE ~Receives(r)
  <2>1. channel' = channel /\ recvQueue' = recvQueue
    BY <1>5 DEF ReceiveThread
  <2> QED
    BY <1>0, <1>1, <1>2, <1>3, <2>1 DEF ReceiveThread, ReceiveTypes, TransferTypes, HandIsFull
<1> QED
  BY <1>4, <1>5

LEMMA MainKeepsTypes ==
    ASSUME IType, NEW r \in Rank, Main(r)
    PROVE  IType'
<1> SUFFICES ThreadTypes' /\ SendTypes' /\ ReceiveTypes' /\ TransferTypes' /\ FlagTypes'
  BY TypesByPart, PTL
<1>0. ThreadTypes /\ SendTypes /\ ReceiveTypes /\ TransferTypes /\ FlagTypes
  BY TypesByPart
<1>1. UNCHANGED <<sender, receiver, hand, channel>>
  BY DEF Main, MainWaits, MainLocks, HandleMessage, HandleControl, HandleGvtValue,
         HandleGvtRequest, HandleSecond, CutWaits, LetsGo, CutEnds, Handled, EndRound,
         SendAndSetGvt, MainYields, MainLocksMpi, MainSetsGvt, MainUnlocks,
         MainSendsEnd, MainStops, MainJoins
<1>2. TransferTypes'
  BY <1>0, <1>1 DEF TransferTypes, HandIsFull
<1>3. \E to \in {"wait", "lock", "handle", "yield", "relock", "lockMpi", "barrier", "passed",
                 "unlock", "cut", "finalise", "stop", "join", "done"} : main' = [main EXCEPT ![r] = to]
  BY DEF Main, MainWaits, MainLocks, HandleMessage, HandleControl, HandleGvtValue, AfterValue,
         HandleGvtRequest, HandleSecond, CutWaits, LetsGo, CutEnds, Handled, EndRound,
         SendAndSetGvt, MainYields, Yields, MainLocksMpi, MainSetsGvt, MainUnlocks,
         MainSendsEnd, MainStops, MainJoins, MainGoes
<1>4. /\ lpMutex' \in [Rank -> {Nobody, "main", "receive"}]
      /\ mpiMutex' \in [Rank -> {Nobody, "main", "send", "receive"}]
  BY <1>0
     DEF ThreadTypes, mutexVars, Main, MainWaits, MainLocks, HandleMessage, HandleControl,
         HandleGvtValue, HandleGvtRequest, HandleSecond, CutWaits, LetsGo, CutEnds, Handled, EndRound,
         SendAndSetGvt, MainYields, Yields, MainLocksMpi,
         MainSetsGvt, MainUnlocks, MainSendsEnd, MainStops, MainJoins
<1>5. ThreadTypes'
  BY ZenonT(30), <1>0, <1>1, <1>3, <1>4 DEF ThreadTypes
<1>6. FlagTypes'
  <2>1. outstanding' \in [Rank -> Nat \cup {NoCut}]
    <3>0. outstanding \in [Rank -> Nat \cup {NoCut}]
      BY <1>0 DEF FlagTypes
    <3>1. \/ UNCHANGED outstanding
          \/ \E k \in Nat \cup {NoCut} : outstanding' = [outstanding EXCEPT ![r] = k]
      <4>1. HandleMessage(r) => \/ UNCHANGED outstanding
                                \/ \E k \in Nat : outstanding' = [outstanding EXCEPT ![r] = k]
        <5>1. outstanding[r] \in Int
          BY <3>0 DEF NoCut
        <5>2. \A k \in {outstanding[r], outstanding[r] - 1} : 0 <= k => k \in Nat
          BY <5>1
        <5> QED
          BY <5>2 DEF HandleMessage, CountsOff
      <4>2. HandleSecond(r) => \E k \in Nat : outstanding' = [outstanding EXCEPT ![r] = k]
        <5>1. \A k \in 0..OnTheWay(r) : k \in Nat
          OBVIOUS
        <5> QED
          BY <5>1 DEF HandleSecond
      <4>3. CutEnds(r) => outstanding' = [outstanding EXCEPT ![r] = NoCut]
        BY DEF CutEnds
      <4> QED
        BY <4>1, <4>2, <4>3
           DEF stopVars, gvtVars, Main, MainWaits, MainLocks, HandleControl, HandleGvtValue,
               HandleGvtRequest, CutWaits, EndRound, MainYields, MainLocksMpi, MainSetsGvt,
               MainUnlocks, MainSendsEnd, MainStops, MainJoins
    <3> QED
      BY <3>0, <3>1
  <2>2. /\ accepting' \in BOOLEAN /\ final' \in BOOLEAN
        /\ ended' \in [Rank -> BOOLEAN] /\ running' \in [Rank -> BOOLEAN]
        /\ budget' \in [{"request", "gvtRequest"} -> Nat]
    BY <1>0
       DEF FlagTypes, stopVars, gvtVars, Main, MainWaits, MainLocks, HandleMessage, HandleControl,
           HandleGvtValue, HandleGvtRequest, HandleSecond, CutWaits, LetsGo, CutEnds, Handled, EndRound,
           SendAndSetGvt, MainYields, MainLocksMpi,
           MainSetsGvt, MainUnlocks, MainSendsEnd, MainStops, MainJoins
  <2> QED
    BY <2>1, <2>2 DEF FlagTypes
<1>7. recvQueue' = recvQueue \/ \E types : Takes(r, types)
  BY DEF recvVars, Main, MainWaits, MainLocks, HandleMessage, HandleControl,
         HandleGvtValue, HandleGvtRequest, HandleSecond, CutWaits, LetsGo, CutEnds, Handled, EndRound,
         SendAndSetGvt, MainYields, MainLocksMpi,
         MainSetsGvt, MainUnlocks, MainSendsEnd, MainStops, MainJoins
<1>8. \/ recvSemaphore' = recvSemaphore
      \/ recvSemaphore[r] > 0 /\ recvSemaphore' = [recvSemaphore EXCEPT ![r] = @ - 1]
  <2>1. MainWaits(r) => /\ recvSemaphore[r] > 0
                        /\ recvSemaphore' = [recvSemaphore EXCEPT ![r] = @ - 1]
    BY DEF MainWaits
  <2>2. ~MainWaits(r) => recvSemaphore' = recvSemaphore
    BY DEF recvVars, Main, MainLocks, HandleMessage, HandleControl, HandleGvtValue,
           HandleGvtRequest, HandleSecond, CutWaits, LetsGo, CutEnds, Handled, EndRound,
         SendAndSetGvt, MainYields, MainLocksMpi, MainSetsGvt, MainUnlocks,
           MainSendsEnd, MainStops, MainJoins
  <2> QED
    BY <2>1, <2>2
<1>9. ReceiveTypes'
  <2>1. recvQueue[r] # << >> => Tail(recvQueue[r]) \in Seq(Message)
    BY <1>0, QueueFacts DEF ReceiveTypes
  <2>2. recvQueue' \in [Rank -> Seq(Message)]
    BY <1>0, <1>7, <2>1 DEF ReceiveTypes, Takes
  <2>3. recvSemaphore \in [Rank -> Nat]
    BY <1>0 DEF ReceiveTypes
  <2>4. recvSemaphore[r] > 0 => recvSemaphore[r] - 1 \in Nat
    BY <2>3
  <2>5. recvSemaphore' \in [Rank -> Nat]
    BY <1>8, <2>3, <2>4
  <2> QED
    BY <2>2, <2>5 DEF ReceiveTypes
<1>10. \/ UNCHANGED sendVars
       \/ \E m \in Message : Queued(r, <<m>>)
       \/ \E type \in {"value", "final"} : Queued(r, [i \in 1..(N - 1) |-> [type |-> type, dest |-> i]])
       \/ UNCHANGED <<sendQueue, controlQueue>> /\ sendSemaphore' = [sendSemaphore EXCEPT ![r] = @ + 1]
  <2>1. \A type \in SimTypes \cup ControlTypes, d \in Rank : [type |-> type, dest |-> d] \in Message
    BY DEF Message
  <2>2. {"answer", "control", "second", "end"} \subseteq SimTypes \cup ControlTypes
    BY DEF SimTypes, ControlTypes
  <2>3. HandleMessage(r) => UNCHANGED sendVars \/ \E m \in Message : Queued(r, <<m>>)
    BY <2>1, <2>2, RankFacts DEF HandleMessage
  <2>4. HandleGvtRequest(r) \/ HandleControl(r) \/ MainSendsEnd(r) \/ (CutEnds(r) /\ r # Starter)
          => UNCHANGED sendVars \/ \E m \in Message : Queued(r, <<m>>)
    BY <2>1, <2>2, RankFacts DEF HandleGvtRequest, HandleControl, MainSendsEnd, CutEnds
  <2> QED
    BY <2>3, <2>4
       DEF sendVars, Main, MainWaits, MainLocks, HandleGvtValue, HandleSecond, CutWaits, CutEnds,
           EndRound, SendAndSetGvt, MainYields, MainLocksMpi, MainSetsGvt, MainUnlocks, MainStops,
           MainJoins
<1>11. SendTypes'
  <2>1. ASSUME NEW m \in Message, Queued(r, <<m>>)
        PROVE  SendTypes'
    BY <2>1, <<m>> \in Seq(Message), QueuedKeepsTypes DEF IType, SendTypes
  <2>2. ASSUME NEW type \in {"value", "final"},
               Queued(r, [i \in 1..(N - 1) |-> [type |-> type, dest |-> i]])
        PROVE  SendTypes'
    <3>1. type \in ControlTypes
      BY DEF ControlTypes
    <3>2. \A i \in 1..(N - 1) : [type |-> type, dest |-> i] \in Message
      BY <3>1, RankFacts DEF Message
    <3>3. [i \in 1..(N - 1) |-> [type |-> type, dest |-> i]] \in Seq(Message)
      BY <3>2, RankFacts
    <3> QED
      BY <2>2, <3>3, QueuedKeepsTypes DEF IType, SendTypes
  <2>3. CASE UNCHANGED sendVars
    BY <1>0, <2>3 DEF SendTypes, sendVars
  <2>4. CASE UNCHANGED <<sendQueue, controlQueue>>
             /\ sendSemaphore' = [sendSemaphore EXCEPT ![r] = @ + 1]
    BY <1>0, <2>4 DEF SendTypes
  <2> QED
    BY <1>10, <2>1, <2>2, <2>3, <2>4
<1> QED
  BY <1>2, <1>5, <1>6, <1>9, <1>11

LEMMA NextKeepsTypes == IType /\ [Next]_vars => IType'
<1> SUFFICES ASSUME IType, [Next]_vars PROVE IType'
  OBVIOUS
<1>0. ThreadTypes /\ SendTypes /\ ReceiveTypes /\ TransferTypes /\ FlagTypes
  BY TypesByPart
<1>1. ASSUME NEW a \in Alp, NEW type \in {"request", "gvtRequest"}, AgentSends(a, type)
      PROVE  IType'
  <2>1. [type |-> type, dest |-> Starter] \in Message
    BY RankFacts DEF Message, SimTypes, ControlTypes
  <2>2. a \in Rank
    BY RankFacts
  <2>3. SendTypes'
    BY <1>1, <2>1, <2>2, <<[type |-> type, dest |-> Starter]>> \in Seq(Message), QueuedKeepsTypes
       DEF AgentSends, IType, SendTypes
  <2>4. FlagTypes'
    BY <1>0, <1>1 DEF AgentSends, FlagTypes, stopVars, gvtVars
  <2>5. ThreadTypes' /\ ReceiveTypes' /\ TransferTypes'
    BY <1>0, <1>1 DEF AgentSends, ThreadTypes, ReceiveTypes, TransferTypes, HandIsFull,
                      threadVars, mutexVars, recvVars
  <2> QED
    BY <2>3, <2>4, <2>5, TypesByPart, PTL
<1>2. ASSUME NEW r \in Rank, SendThread(r) \/ ReceiveThread(r) \/ Main(r)
      PROVE  IType'
  BY <1>2, SendThreadKeepsTypes, ReceiveThreadKeepsTypes, MainKeepsTypes
<1>3. CASE BarrierOpens
  <2>1. ThreadTypes'
    BY <1>0, <1>3 DEF BarrierOpens, ThreadTypes, mutexVars
  <2>2. SendTypes' /\ ReceiveTypes' /\ TransferTypes' /\ FlagTypes'
    BY <1>0, <1>3
       DEF BarrierOpens, SendTypes, ReceiveTypes, TransferTypes, FlagTypes, HandIsFull,
           sendVars, recvVars, stopVars, gvtVars
  <2> QED
    BY <2>1, <2>2, TypesByPart, PTL
<1>4. CASE UNCHANGED vars
  BY <1>4 DEF IType, TypeOK, HandIsFull, vars
<1> QED
  BY <1>1, <1>2, <1>3, <1>4 DEF Next

\* Every variable keeps its type: what the send thread takes from a queue and puts in
\* MPI is a message with a rank to send it to, and a semaphore is never below zero.
THEOREM TypeCorrect == Spec => []TypeOK
<1>1. Spec => []IType
  BY InitType, NextKeepsTypes, PTL DEF Spec
<1>2. IType => TypeOK
  BY DEF IType
<1> QED
  BY <1>1, <1>2, PTL

-----------------------------------------------------------------------------
(***************************************************************************)
(* The receive semaphore.                                                  *)
(***************************************************************************)
AtHand == {"lock", "handle"}

Balanced(r) ==
    Len(recvQueue[r]) = recvSemaphore[r] + (IF main[r] \in AtHand THEN 1 ELSE 0)
                                         + (IF receiver[r] = "signal" THEN 1 ELSE 0)

\* The main loop takes one signal before the mutex and one message after it.
LEMMA MainTakesOneForOne ==
    ASSUME IType, NEW r \in Rank, Main(r)
    PROVE  /\ receiver' = receiver
           /\ \A q \in Rank \ {r} : main'[q] = main[q]
           /\ \/ /\ main[r] = "wait" /\ main'[r] = "lock"
                 /\ recvQueue' = recvQueue /\ recvSemaphore' = [recvSemaphore EXCEPT ![r] = @ - 1]
              \/ /\ main[r] = "lock" /\ main'[r] = "handle"
                 /\ recvQueue' = recvQueue /\ recvSemaphore' = recvSemaphore
              \/ /\ main[r] = "handle" /\ main'[r] \notin AtHand
                 /\ recvQueue[r] # << >>
                 /\ recvQueue' = [recvQueue EXCEPT ![r] = Tail(@)] /\ recvSemaphore' = recvSemaphore
              \/ /\ main[r] \notin AtHand /\ main'[r] \notin AtHand
                 /\ recvQueue' = recvQueue /\ recvSemaphore' = recvSemaphore
<1>0. main \in [Rank -> {"wait", "lock", "handle", "yield", "relock", "lockMpi",
                         "barrier", "passed", "unlock", "cut", "finalise", "stop", "join", "done"}]
  BY DEF IType, TypeOK
<1>1. CASE MainWaits(r)
  BY <1>0, <1>1 DEF MainWaits, MainGoes
<1>2. CASE MainLocks(r)
  BY <1>0, <1>2 DEF MainLocks, MainGoes, recvVars
<1>3. CASE HandleMessage(r) \/ HandleControl(r) \/ HandleSecond(r) \/ HandleGvtRequest(r)
  BY <1>0, <1>3 DEF HandleMessage, HandleControl, HandleSecond, HandleGvtRequest, Handled, Takes,
                    MainGoes, AtHand
<1>4. CASE HandleGvtValue(r) \/ (r = Starter /\ \E type \in {"value", "final"} : EndRound(type))
  BY <1>0, <1>4 DEF HandleGvtValue, AfterValue, Handled, EndRound, SendAndSetGvt, Takes, MainGoes,
                    AtHand
<1>7. CASE CutWaits(r) \/ CutEnds(r)
  BY <1>0, <1>7 DEF CutWaits, LetsGo, CutEnds, SendAndSetGvt, MainGoes, AtHand, recvVars
<1>5. CASE MainYields(r) \/ MainLocksMpi(r) \/ MainSetsGvt(r) \/ MainUnlocks(r)
  BY <1>0, <1>5
     DEF MainYields, Yields, MainLocksMpi, MainSetsGvt, Handled, MainUnlocks, MainGoes, AtHand,
         recvVars
<1>6. CASE MainSendsEnd(r) \/ MainStops(r) \/ MainJoins(r)
  BY <1>0, <1>6 DEF MainSendsEnd, MainStops, MainJoins, MainGoes, AtHand, recvVars
<1> QED
  BY <1>1, <1>2, <1>3, <1>4, <1>5, <1>6, <1>7 DEF Main

LEMMA MainKeepsBalance ==
    ASSUME IType, NEW r \in Rank, Main(r), NEW q \in Rank, Balanced(q)
    PROVE  Balanced(q)'
<1>1. recvSemaphore \in [Rank -> Nat] /\ recvQueue \in [Rank -> Seq(Message)]
  BY DEF IType, TypeOK
<1>2. CASE q = r
  <2>1. recvQueue[r] # << >> => Len(Tail(recvQueue[r])) = Len(recvQueue[r]) - 1
    BY <1>1
  <2>2. Len(recvQueue[r]) \in Nat /\ recvSemaphore[r] \in Nat
    BY <1>1
  <2> QED
    BY <1>1, <1>2, <2>1, <2>2, MainTakesOneForOne DEF Balanced, AtHand
<1>3. CASE q # r
  <2>1. recvQueue'[q] = recvQueue[q] /\ recvSemaphore'[q] = recvSemaphore[q]
    BY <1>1, <1>3, MainTakesOneForOne
  <2> QED
    BY <1>3, <2>1, MainTakesOneForOne DEF Balanced
<1> QED
  BY <1>2, <1>3

LEMMA ReceiveThreadKeepsBalance ==
    ASSUME IType, NEW r \in Rank, ReceiveThread(r), NEW q \in Rank, Balanced(q)
    PROVE  Balanced(q)'
<1>1. /\ recvSemaphore \in [Rank -> Nat] /\ recvQueue \in [Rank -> Seq(Message)]
      /\ channel \in [Rank -> [Rank -> Seq(Message)]]
      /\ receiver \in [Rank -> {"probe", "lockMpi", "lockLp", "receive", "signal", "exited"}]
  BY DEF IType, TypeOK
<1>2. Len(recvQueue[q]) \in Nat /\ recvSemaphore[q] \in Nat
  BY <1>1
<1>3. main' = main
  BY DEF ReceiveThread
<1>4. CASE Receives(r)
  <2>1. PICK s \in Rank : /\ channel[s][r] # << >>
                          /\ recvQueue' = [recvQueue EXCEPT ![r] = Append(@, Head(channel[s][r]))]
    BY <1>4 DEF Receives
  <2>2. recvQueue'[q] = IF q = r THEN Append(recvQueue[q], Head(channel[s][r])) ELSE recvQueue[q]
    BY <1>1, <2>1
  <2>3. Len(recvQueue'[q]) = Len(recvQueue[q]) + (IF q = r THEN 1 ELSE 0)
    BY <1>1, <1>2, <2>2
  <2>4. /\ receiver[r] = "receive"
        /\ receiver'[q] = IF q = r THEN "signal" ELSE receiver[q]
    BY <1>1, <1>4 DEF Receives, ReceiverGoes
  <2>5. recvSemaphore'[q] = recvSemaphore[q]
    BY <1>1, <2>4 DEF ReceiveThread, SignalsReceived
  <2> QED
    BY <1>2, <1>3, <2>3, <2>4, <2>5 DEF Balanced, AtHand
<1>5. CASE ReceiverGoes(r, "signal", "probe") /\ ~Receives(r)
  <2>1. recvQueue' = recvQueue
    BY <1>5 DEF ReceiveThread
  <2>2. receiver[r] = "signal" /\ receiver'[q] = IF q = r THEN "probe" ELSE receiver[q]
    BY <1>1, <1>5 DEF ReceiverGoes
  <2>3. recvSemaphore'[q] = recvSemaphore[q] + (IF q = r THEN 1 ELSE 0)
    BY <1>1, <2>2 DEF ReceiveThread, SignalsReceived
  <2> QED
    BY <1>2, <1>3, <2>1, <2>2, <2>3 DEF Balanced, AtHand
<1>6. CASE Probes(r) \/ ReceiveLocks(r)
  <2>1. receiver[r] # "signal" /\ receiver'[r] # "signal"
    BY <1>1, <1>6 DEF Probes, ReceiveLocks, ReceiverGoes
  <2>2. \A p \in Rank \ {r} : receiver'[p] = receiver[p]
    BY <1>1, <1>6 DEF Probes, ReceiveLocks, ReceiverGoes
  <2>3. recvSemaphore'[q] = recvSemaphore[q]
    BY <1>1, <2>1 DEF ReceiveThread, SignalsReceived
  <2>4. receiver'[r] # "probe" \/ receiver[r] # "signal"
    BY <2>1
  <2>5. ~Receives(r)
    BY <1>1, <2>1 DEF Receives, ReceiverGoes
  <2>6. recvQueue' = recvQueue
    BY <2>5 DEF ReceiveThread
  <2> QED
    BY <1>3, <2>1, <2>2, <2>3, <2>6 DEF Balanced
<1> QED
  BY <1>4, <1>5, <1>6 DEF ReceiveThread

\* DequeueMessage never meets an empty queue, however the receive thread and the
\* main loop interleave: one signal has been given for each message that is there.
THEOREM SemaphoreCounts == Spec => []SemaphoreCountsQueue
<1>1. Init => SemaphoreCountsQueue
  BY DEF Init, SemaphoreCountsQueue
<1>2. SemaphoreCountsQueue <=> \A q \in Rank : Balanced(q)
  BY DEF SemaphoreCountsQueue, Balanced, AtHand
<1>3. IType /\ SemaphoreCountsQueue /\ [Next]_vars => SemaphoreCountsQueue'
  <2> SUFFICES ASSUME IType, SemaphoreCountsQueue, [Next]_vars, NEW q \in Rank
               PROVE  Balanced(q)'
    BY DEF SemaphoreCountsQueue, Balanced, AtHand
  <2>0. Balanced(q)
    BY <1>2
  <2>1. ASSUME NEW a \in Alp, NEW type \in {"request", "gvtRequest"}, AgentSends(a, type)
        PROVE  Balanced(q)'
    BY <2>0, <2>1 DEF AgentSends, Balanced, threadVars, recvVars
  <2>2. ASSUME NEW r \in Rank, SendThread(r)
        PROVE  Balanced(q)'
    BY <2>0, <2>2 DEF SendThread, Balanced, recvVars
  <2>3. ASSUME NEW r \in Rank, ReceiveThread(r) \/ Main(r)
        PROVE  Balanced(q)'
    BY <2>0, <2>3, ReceiveThreadKeepsBalance, MainKeepsBalance
  <2>4. CASE BarrierOpens
    BY <2>0, <2>4 DEF BarrierOpens, Balanced, AtHand, recvVars
  <2>5. CASE UNCHANGED vars
    BY <2>0, <2>5 DEF vars, Balanced
  <2> QED
    BY <2>1, <2>2, <2>3, <2>4, <2>5 DEF Next
<1> QED
  BY <1>1, <1>3, InitType, NextKeepsTypes, PTL DEF Spec

-----------------------------------------------------------------------------
(***************************************************************************)
(* The end.  Once the barrier has opened, every LP has passed it.          *)
(***************************************************************************)
AfterBarrier ==
    (\E r \in Rank : ended[r] \/ main[r] = "passed") =>
      \A r \in Rank : ended[r] \/ main[r] = "passed"

\* Only the barrier lets a main loop pass, and only one that has passed ends.
LEMMA MainEndsAfterPassing ==
    ASSUME IType, NEW r \in Rank, Main(r)
    PROVE  /\ \A q \in Rank \ {r} : main'[q] = main[q] /\ ended'[q] = ended[q]
           /\ main'[r] # "passed"
           /\ ended'[r] = (ended[r] \/ main[r] = "passed")
<1>0. /\ main \in [Rank -> {"wait", "lock", "handle", "yield", "relock", "lockMpi",
                            "barrier", "passed", "unlock", "cut", "finalise", "stop", "join", "done"}]
      /\ ended \in [Rank -> BOOLEAN]
  BY DEF IType, TypeOK
<1>1. CASE MainSetsGvt(r)
  BY <1>0, <1>1 DEF MainSetsGvt, Handled, MainGoes
<1>2. CASE MainWaits(r) \/ MainLocks(r) \/ HandleMessage(r) \/ HandleControl(r) \/ HandleGvtRequest(r)
  BY <1>0, <1>2 DEF MainWaits, MainLocks, HandleMessage, HandleControl, HandleGvtRequest, Handled,
                    MainGoes, stopVars, gvtVars
<1>3. CASE HandleGvtValue(r) \/ (r = Starter /\ \E type \in {"value", "final"} : EndRound(type))
  BY <1>0, <1>3 DEF HandleGvtValue, AfterValue, Handled, EndRound, SendAndSetGvt, MainGoes, stopVars,
                    gvtVars
<1>6. CASE HandleSecond(r) \/ CutWaits(r) \/ CutEnds(r)
  BY <1>0, <1>6 DEF HandleSecond, CutWaits, LetsGo, CutEnds, SendAndSetGvt, MainGoes, stopVars,
                    gvtVars
<1>4. CASE MainYields(r) \/ MainLocksMpi(r) \/ MainUnlocks(r)
  BY <1>0, <1>4 DEF MainYields, Yields, MainLocksMpi, MainUnlocks, MainGoes, stopVars, gvtVars
<1>5. CASE MainSendsEnd(r) \/ MainStops(r) \/ MainJoins(r)
  BY <1>0, <1>5 DEF MainSendsEnd, MainStops, MainJoins, MainGoes, stopVars, gvtVars
<1> QED
  BY <1>1, <1>2, <1>3, <1>4, <1>5, <1>6 DEF Main

\* No LP leaves its main loop, and stops its threads, before every LP has learnt
\* that the end time is reached: there is nobody left to wait for it.
THEOREM NobodyStopsBeforeTheOthers == Spec => []NobodyStopsAlone
<1>1. Init => AfterBarrier
  BY DEF Init, AfterBarrier
<1>2. IType /\ AfterBarrier /\ [Next]_vars => AfterBarrier'
  <2> SUFFICES ASSUME IType, AfterBarrier, [Next]_vars
               PROVE  AfterBarrier'
    OBVIOUS
  <2>1. ASSUME NEW a \in Alp, NEW type \in {"request", "gvtRequest"}, AgentSends(a, type)
        PROVE  AfterBarrier'
    BY <2>1 DEF AgentSends, AfterBarrier, threadVars, stopVars, gvtVars
  <2>2. ASSUME NEW r \in Rank, SendThread(r) \/ ReceiveThread(r)
        PROVE  AfterBarrier'
    BY <2>2 DEF SendThread, ReceiveThread, AfterBarrier, stopVars, gvtVars
  <2>3. ASSUME NEW r \in Rank, Main(r)
        PROVE  AfterBarrier'
    BY <2>3, MainEndsAfterPassing DEF AfterBarrier
  <2>4. CASE BarrierOpens
    BY <2>4 DEF BarrierOpens, AfterBarrier
  <2>5. CASE UNCHANGED vars
    BY <2>5 DEF vars, AfterBarrier
  <2> QED
    BY <2>1, <2>2, <2>3, <2>4, <2>5 DEF Next
<1>3. AfterBarrier => NobodyStopsAlone
  BY DEF AfterBarrier, NobodyStopsAlone
<1> QED
  BY <1>1, <1>2, <1>3, InitType, NextKeepsTypes, PTL DEF Spec

-----------------------------------------------------------------------------
(***************************************************************************)
(* The barrier of the starter.                                             *)
(***************************************************************************)
IsValue(m) == m.type \in {"value", "final"}

ForOthers(q) == \A i \in DOMAIN q : IsValue(q[i]) => q[i].dest # Starter
NoValues(q) == \A i \in DOMAIN q : ~IsValue(q[i])
NoFinal(q) == \A i \in DOMAIN q : q[i].type # "final"

\* The starter sends the GVT to the others only ...
ValuesAreForOthers ==
    /\ \A r \in Rank : ForOthers(sendQueue[r]) /\ ForOthers(controlQueue[r])
    /\ \A r \in Rank : hand[r] # None /\ IsValue(hand[r]) => hand[r].dest # Starter
    /\ \A s \in Rank : NoValues(channel[s][Starter])
    /\ NoValues(recvQueue[Starter])

\* ... so that it comes to the barrier by way of the mutex of MPI, which one thread
\* at a time holds ...
AtBarrier(r) == r = Starter /\ main[r] \in {"barrier", "passed"}
MpiIsHeld ==
    \A r \in Rank :
      /\ main[r] \in {"yield", "relock", "lockMpi"} => r = Starter
      /\ sender[r] \in {"send", "transmit", "test"} <=> mpiMutex[r] = "send"
      /\ receiver[r] \in {"lockLp", "receive"} <=> mpiMutex[r] = "receive"
      /\ AtBarrier(r) <=> mpiMutex[r] = "main"

\* ... and after its control queue has been empty.
ControlIsEmptied == main[Starter] \in {"lockMpi", "barrier"} => NoFinal(controlQueue[Starter])

BarrierInv == ValuesAreForOthers /\ MpiIsHeld /\ ControlIsEmptied

LEMMA BarrierInvMeans == IType /\ BarrierInv => ValuesPrecedeBarrier
<1> SUFFICES ASSUME IType, BarrierInv, main[Starter] = "barrier"
             PROVE  hand[Starter] = None /\ NoFinal(controlQueue[Starter])
  BY DEF ValuesPrecedeBarrier, NoFinal
<1>1. AtBarrier(Starter)
  BY DEF AtBarrier
<1>2. sender[Starter] \notin {"transmit", "test"}
  BY <1>1, RankFacts DEF BarrierInv, MpiIsHeld
<1> QED
  BY <1>2, RankFacts DEF IType, HandIsFull, BarrierInv, ControlIsEmptied

LEMMA InitBarrier == Init => BarrierInv
  BY RankFacts
     DEF Init, BarrierInv, ValuesAreForOthers, MpiIsHeld, ControlIsEmptied, ForOthers, NoValues,
         AtBarrier, Nobody

\* What is left of a queue, or added to it.
LEMMA QueuesOfValues ==
    ASSUME NEW q \in Seq(Message), NEW m \in Message
    PROVE  /\ q # << >> => /\ ForOthers(q) => ForOthers(Tail(q)) /\ (IsValue(Head(q)) => Head(q).dest # Starter)
                           /\ NoValues(q) => NoValues(Tail(q)) /\ ~IsValue(Head(q))
                           /\ NoFinal(q) => NoFinal(Tail(q))
           /\ NoValues(q) /\ ~IsValue(m) => NoValues(Append(q, m))
<1>1. q # << >> => /\ Head(q) = q[1] /\ 1 \in DOMAIN q
                   /\ \A i \in DOMAIN Tail(q) : i + 1 \in DOMAIN q /\ Tail(q)[i] = q[i + 1]
  OBVIOUS
<1>2. \A i \in DOMAIN Append(q, m) : Append(q, m)[i] = m \/ (i \in DOMAIN q /\ Append(q, m)[i] = q[i])
  OBVIOUS
<1> QED
  BY <1>1, <1>2 DEF ForOthers, NoValues, NoFinal

LEMMA SendThreadKeepsBarrier ==
    ASSUME IType, BarrierInv, NEW r \in Rank, SendThread(r)
    PROVE  BarrierInv'
<1>0. /\ main \in [Rank -> {"wait", "lock", "handle", "yield", "relock", "lockMpi",
                            "barrier", "passed", "unlock", "cut", "finalise", "stop", "join", "done"}]
      /\ sender \in [Rank -> {"wait", "woken", "lockMpi", "send", "transmit", "test", "exited"}]
      /\ mpiMutex \in [Rank -> {Nobody, "main", "send", "receive"}]
  BY DEF IType, TypeOK
<1>1. /\ sendQueue \in [Rank -> Seq(Message)] /\ controlQueue \in [Rank -> Seq(Message)]
      /\ hand \in [Rank -> Message \cup {None}]
      /\ channel \in [Rank -> [Rank -> Seq(Message)]]
  BY DEF IType, TypeOK
<1>2. main' = main /\ receiver' = receiver /\ recvQueue' = recvQueue
  BY DEF SendThread, recvVars
<1>3. MpiIsHeld'
  <2>1. MpiIsHeld
    BY DEF BarrierInv
  <2>2. CASE SendWait(r) /\ mpiMutex' = mpiMutex
    BY <1>0, <1>2, <2>1, <2>2 DEF SendWait, SenderGoes, MpiIsHeld, AtBarrier
  <2>3. CASE SendLocksMpi(r)
    BY <1>0, <1>2, <2>1, <2>3 DEF SendLocksMpi, SenderGoes, MpiIsHeld, AtBarrier, Nobody
  <2>4. CASE Dequeues(r)
    BY <1>0, <1>2, <2>1, <2>4 DEF Dequeues, SenderGoes, MpiIsHeld, AtBarrier, Nobody
  <2>5. CASE Transmits(r) \/ Completes(r)
    BY <1>0, <1>2, <2>1, <2>5 DEF Transmits, Completes, SenderGoes, MpiIsHeld, AtBarrier, Nobody
  <2> QED
    BY <2>2, <2>3, <2>4, <2>5 DEF SendThread, mutexVars
<1>4. /\ ForOthers(sendQueue[r]) /\ ForOthers(controlQueue[r])
      /\ sendQueue[r] # << >> => /\ Head(sendQueue[r]) \in Message
                                 /\ ForOthers(Tail(sendQueue[r]))
                                 /\ IsValue(Head(sendQueue[r])) => Head(sendQueue[r]).dest # Starter
      /\ controlQueue[r] # << >> => /\ Head(controlQueue[r]) \in Message
                                    /\ ForOthers(Tail(controlQueue[r]))
                                    /\ IsValue(Head(controlQueue[r])) => Head(controlQueue[r]).dest # Starter
                                    /\ NoFinal(controlQueue[r]) => NoFinal(Tail(controlQueue[r]))
  <2>1. ForOthers(sendQueue[r]) /\ ForOthers(controlQueue[r])
    BY DEF BarrierInv, ValuesAreForOthers
  <2>2. sendQueue[r] # << >> => Head(sendQueue[r]) \in Message
    BY <1>1
  <2>3. controlQueue[r] # << >> => Head(controlQueue[r]) \in Message
    BY <1>1
  <2> QED
    BY <1>1, <2>1, <2>2, <2>3, QueuesOfValues
<1>5. CASE UNCHANGED <<sendQueue, controlQueue, hand, channel>>
  BY <1>2, <1>3, <1>5 DEF BarrierInv, ValuesAreForOthers, ControlIsEmptied
<1>6. CASE Dequeues(r) /\ channel' = channel
  <2>1. \A q \in Rank : ForOthers(sendQueue'[q]) /\ ForOthers(controlQueue'[q])
    BY <1>1, <1>4, <1>6 DEF Dequeues, BarrierInv, ValuesAreForOthers
  <2>2. \A q \in Rank : hand'[q] # None /\ IsValue(hand'[q]) => hand'[q].dest # Starter
    BY <1>1, <1>4, <1>6 DEF Dequeues, BarrierInv, ValuesAreForOthers
  <2>3. ControlIsEmptied'
    <3>1. \/ controlQueue'[Starter] = controlQueue[Starter]
          \/ /\ r = Starter /\ controlQueue[r] # << >>
             /\ controlQueue'[Starter] = Tail(controlQueue[Starter])
      BY <1>1, <1>6, RankFacts DEF Dequeues
    <3> QED
      BY <1>2, <1>4, <3>1 DEF BarrierInv, ControlIsEmptied
  <2> QED
    BY <1>2, <1>3, <1>6, <2>1, <2>2, <2>3 DEF BarrierInv, ValuesAreForOthers
<1>7. CASE Transmits(r) /\ UNCHANGED sendVars
  <2>1. hand[r] \in Message
    BY <1>1, <1>7 DEF IType, HandIsFull, Transmits, SenderGoes
  <2>2. hand[r].dest = Starter => ~IsValue(hand[r])
    BY <2>1, NoneIsNoMessage DEF BarrierInv, ValuesAreForOthers
  <2>3. NoValues(channel[r][Starter]) /\ channel[r][Starter] \in Seq(Message)
    BY <1>1, RankFacts DEF BarrierInv, ValuesAreForOthers
  <2>4. ~IsValue(hand[r]) => NoValues(Append(channel[r][Starter], hand[r]))
    BY <2>1, <2>3, QueuesOfValues
  <2>5. \A s \in Rank : \/ channel'[s][Starter] = channel[s][Starter]
                        \/ /\ s = r /\ hand[r].dest = Starter
                           /\ channel'[s][Starter] = Append(channel[r][Starter], hand[r])
    BY SMTT(30), <1>1, <1>7 DEF Transmits
  <2>6. \A s \in Rank : NoValues(channel'[s][Starter])
    BY <2>2, <2>3, <2>4, <2>5 DEF BarrierInv, ValuesAreForOthers
  <2>7. hand' = hand
    BY <1>7 DEF Transmits
  <2> QED
    BY <1>2, <1>3, <1>7, <2>6, <2>7
       DEF BarrierInv, ValuesAreForOthers, ControlIsEmptied, sendVars
<1>8. CASE Completes(r) /\ UNCHANGED sendVars
  <2>1. \A q \in Rank : hand'[q] # None => hand'[q] = hand[q]
    BY <1>1, <1>8 DEF Completes
  <2>2. channel' = channel
    BY <1>8 DEF Completes
  <2> QED
    BY <1>2, <1>3, <1>8, <2>1, <2>2
       DEF BarrierInv, ValuesAreForOthers, ControlIsEmptied, sendVars
<1> QED
  BY <1>5, <1>6, <1>7, <1>8 DEF SendThread, sendVars

LEMMA ReceiveThreadKeepsBarrier ==
    ASSUME IType, BarrierInv, NEW r \in Rank, ReceiveThread(r)
    PROVE  BarrierInv'
<1>0. /\ receiver \in [Rank -> {"probe", "lockMpi", "lockLp", "receive", "signal", "exited"}]
      /\ mpiMutex \in [Rank -> {Nobody, "main", "send", "receive"}]
  BY DEF IType, TypeOK
<1>1. recvQueue \in [Rank -> Seq(Message)] /\ channel \in [Rank -> [Rank -> Seq(Message)]]
  BY DEF IType, TypeOK
<1>2. /\ main' = main /\ sender' = sender /\ hand' = hand
      /\ sendQueue' = sendQueue /\ controlQueue' = controlQueue
  BY DEF ReceiveThread, sendVars
<1>3. MpiIsHeld'
  BY <1>0, <1>2
     DEF BarrierInv, MpiIsHeld, AtBarrier, ReceiveThread, Probes, ReceiveLocks, Receives,
         ReceiverGoes, mutexVars, Nobody
<1>4. CASE Receives(r)
  <2>1. PICK s \in Rank :
          /\ channel[s][r] # << >>
          /\ channel' = [channel EXCEPT ![s][r] = Tail(@)]
          /\ recvQueue' = [recvQueue EXCEPT ![r] = Append(@, Head(channel[s][r]))]
    BY <1>4 DEF Receives
  <2>2. channel[s][r] \in Seq(Message) /\ recvQueue[r] \in Seq(Message)
    BY <1>1
  <2>3. Head(channel[s][r]) \in Message
    BY <2>1, <2>2
  <2>4. CASE r = Starter
    <3>1. NoValues(channel[s][Starter]) /\ NoValues(recvQueue[Starter])
      BY DEF BarrierInv, ValuesAreForOthers
    <3>2. NoValues(Tail(channel[s][Starter])) /\ ~IsValue(Head(channel[s][Starter]))
      BY <2>1, <2>2, <2>3, <2>4, <3>1, QueuesOfValues
    <3>3. NoValues(Append(recvQueue[Starter], Head(channel[s][Starter])))
      BY <2>2, <2>3, <2>4, <3>1, <3>2, QueuesOfValues
    <3>4. \A p \in Rank : \/ channel'[p][Starter] = channel[p][Starter]
                          \/ p = s /\ channel'[p][Starter] = Tail(channel[s][Starter])
      BY <1>1, <2>1, <2>4
    <3>5. recvQueue'[Starter] = Append(recvQueue[Starter], Head(channel[s][Starter]))
      BY <1>1, <2>1, <2>4
    <3> QED
      BY <1>2, <1>3, <3>2, <3>3, <3>4, <3>5 DEF BarrierInv, ValuesAreForOthers, ControlIsEmptied
  <2>5. CASE r # Starter
    <3>1. \A p \in Rank : channel'[p][Starter] = channel[p][Starter]
      BY <1>1, <2>1, <2>5, RankFacts
    <3>2. recvQueue'[Starter] = recvQueue[Starter]
      BY <1>1, <2>1, <2>5, RankFacts
    <3> QED
      BY <1>2, <1>3, <3>1, <3>2 DEF BarrierInv, ValuesAreForOthers, ControlIsEmptied
  <2> QED
    BY <2>4, <2>5
<1>5. CASE ~Receives(r)
  <2>1. channel' = channel /\ recvQueue' = recvQueue
    BY <1>5 DEF ReceiveThread
  <2> QED
    BY <1>2, <1>3, <2>1 DEF BarrierInv, ValuesAreForOthers, ControlIsEmptied
<1> QED
  BY <1>4, <1>5

\* What the main loop queues is one message that is no value, or the values of a round.
LEMMA MainQueues ==
    ASSUME IType, BarrierInv, NEW r \in Rank, Main(r)
    PROVE  \/ sendQueue' = sendQueue /\ controlQueue' = controlQueue
           \/ /\ main[r] \in {"handle", "cut", "finalise"}
              /\ \E m \in Message : ~IsValue(m) /\ Queued(r, <<m>>)
           \/ /\ main[r] \in {"handle", "cut"}
              /\ \E messages \in Seq(Message) : ForOthers(messages) /\ Queued(r, messages)
<1>1. \A type \in SimTypes \cup ControlTypes, d \in Rank : [type |-> type, dest |-> d] \in Message
  BY DEF Message
<1>2. {"answer", "control", "second", "end"} \subseteq SimTypes \cup ControlTypes
  BY DEF SimTypes, ControlTypes
<1>3. \A type \in {"answer", "control", "second", "end"}, d \in Rank : ~IsValue([type |-> type, dest |-> d])
  BY DEF IsValue
<1>4. CASE \/ HandleMessage(r) \/ HandleGvtRequest(r) \/ HandleControl(r) \/ MainSendsEnd(r)
           \/ CutEnds(r) /\ r # Starter
  BY <1>1, <1>2, <1>3, <1>4, RankFacts
     DEF HandleMessage, HandleGvtRequest, HandleControl, MainSendsEnd, CutEnds, MainGoes, sendVars
<1>5. ASSUME NEW type \in {"value", "final"}, NEW from \in {"handle", "cut"},
             SendAndSetGvt(from, type), r = Starter
      PROVE  /\ main[r] \in {"handle", "cut"}
             /\ \E messages \in Seq(Message) : ForOthers(messages) /\ Queued(r, messages)
  <2> DEFINE values == [i \in 1..(N - 1) |-> [type |-> type, dest |-> i]]
  <2>1. type \in ControlTypes
    BY DEF ControlTypes
  <2>2. \A i \in 1..(N - 1) : values[i] \in Message /\ values[i].dest # Starter
    BY <2>1, RankFacts DEF Message, Starter
  <2>3. values \in Seq(Message) /\ DOMAIN values = 1..(N - 1)
    BY <2>2, RankFacts
  <2>4. ForOthers(values)
    BY <2>2, <2>3 DEF ForOthers
  <2>5. main[r] = from /\ Queued(r, values)
    BY <1>5 DEF SendAndSetGvt, MainGoes
  <2> QED
    BY <2>3, <2>4, <2>5
<1>6. CASE \/ MainWaits(r) \/ MainLocks(r) \/ HandleGvtValue(r) \/ MainYields(r)
           \/ HandleSecond(r) \/ CutWaits(r)
           \/ MainLocksMpi(r) \/ MainSetsGvt(r) \/ MainUnlocks(r) \/ MainStops(r) \/ MainJoins(r)
  BY <1>6 DEF MainWaits, MainLocks, HandleGvtValue, HandleSecond, CutWaits, MainYields,
              MainLocksMpi, MainSetsGvt, MainUnlocks, MainStops, MainJoins, sendVars
<1> QED
  BY <1>4, <1>5, <1>6 DEF Main, EndRound, CutEnds

\* What is queued is at the end of its queue.
LEMMA QueuedForOthers ==
    ASSUME IType, ValuesAreForOthers, NEW r \in Rank,
           NEW messages \in Seq(Message), ForOthers(messages), Queued(r, messages)
    PROVE  \A q \in Rank : ForOthers(sendQueue'[q]) /\ ForOthers(controlQueue'[q])
<1>1. sendQueue \in [Rank -> Seq(Message)] /\ controlQueue \in [Rank -> Seq(Message)]
  BY DEF IType, TypeOK
<1>2. ASSUME NEW q \in Seq(Message), ForOthers(q)
      PROVE  ForOthers(q \o messages)
  <2>1. \A i \in DOMAIN (q \o messages) :
          \/ i \in DOMAIN q /\ (q \o messages)[i] = q[i]
          \/ i - Len(q) \in DOMAIN messages /\ (q \o messages)[i] = messages[i - Len(q)]
    OBVIOUS
  <2> QED
    BY <1>2, <2>1 DEF ForOthers
<1>3. ForOthers(sendQueue[r] \o messages) /\ ForOthers(controlQueue[r] \o messages)
  BY <1>1, <1>2 DEF ValuesAreForOthers
<1>4. \/ sendQueue' = [sendQueue EXCEPT ![r] = @ \o messages] /\ controlQueue' = controlQueue
      \/ controlQueue' = [controlQueue EXCEPT ![r] = @ \o messages] /\ sendQueue' = sendQueue
  BY DEF Queued
<1> QED
  BY <1>1, <1>3, <1>4 DEF ValuesAreForOthers

LEMMA StarterHandlesNoValue ==
    ASSUME IType, ValuesAreForOthers
    PROVE  ~HandleGvtValue(Starter)
<1>1. recvQueue[Starter] \in Seq(Message)
  BY RankFacts DEF IType, TypeOK
<1>2. recvQueue[Starter] # << >> => ~IsValue(Head(recvQueue[Starter]))
  BY <1>1 DEF ValuesAreForOthers, NoValues
<1> QED
  BY <1>2 DEF HandleGvtValue, Takes, IsValue

LEMMA MainKeepsMpiHeld ==
    ASSUME IType, BarrierInv, NEW r \in Rank, Main(r)
    PROVE  MpiIsHeld'
<1>0. /\ main \in [Rank -> {"wait", "lock", "handle", "yield", "relock", "lockMpi",
                            "barrier", "passed", "unlock", "cut", "finalise", "stop", "join", "done"}]
      /\ mpiMutex \in [Rank -> {Nobody, "main", "send", "receive"}]
  BY DEF IType, TypeOK
<1>1. MpiIsHeld
  BY DEF BarrierInv
<1>2. sender' = sender /\ receiver' = receiver
  BY DEF Main, MainWaits, MainLocks, HandleMessage, HandleControl, HandleGvtValue,
         HandleGvtRequest, HandleSecond, CutWaits, LetsGo, CutEnds, Handled, EndRound,
         SendAndSetGvt, MainYields, MainLocksMpi, MainSetsGvt, MainUnlocks,
         MainSendsEnd, MainStops, MainJoins
<1>3. CASE \/ MainWaits(r) \/ MainLocks(r) \/ HandleMessage(r) \/ HandleControl(r)
           \/ HandleGvtRequest(r) \/ MainUnlocks(r) \/ HandleSecond(r) \/ CutWaits(r)
  BY <1>0, <1>1, <1>2, <1>3
     DEF MainWaits, MainLocks, HandleMessage, HandleControl, HandleSecond, HandleGvtRequest, Handled,
         CutWaits, LetsGo, MainUnlocks, MainGoes, MpiIsHeld, AtBarrier, mutexVars
<1>4. CASE MainSendsEnd(r) \/ MainStops(r) \/ MainJoins(r)
  BY <1>0, <1>1, <1>2, <1>4
     DEF MainSendsEnd, MainStops, MainJoins, MainGoes, MpiIsHeld, AtBarrier, mutexVars
<1>5. CASE HandleGvtValue(r)
  <2>1. r # Starter
    BY <1>5, StarterHandlesNoValue DEF BarrierInv
  <2>2. mpiMutex' = mpiMutex
    BY <1>5 DEF HandleGvtValue, mutexVars
  <2>3. \E to \in {"barrier", "unlock", "cut"} : main' = [main EXCEPT ![r] = to]
    BY <1>5 DEF HandleGvtValue, MainGoes, AfterValue, Handled
  <2> QED
    BY <1>0, <1>1, <1>2, <2>1, <2>2, <2>3 DEF MpiIsHeld, AtBarrier
<1>6. CASE CutEnds(r) \/ (r = Starter /\ \E type \in {"value", "final"} : EndRound(type))
  <2>1. main[r] \in {"handle", "cut"} /\ mpiMutex' = mpiMutex
    BY <1>6 DEF EndRound, CutEnds, SendAndSetGvt, MainGoes, mutexVars
  <2>2. \/ r = Starter /\ main' = [main EXCEPT ![r] = "yield"]
        \/ main' = [main EXCEPT ![r] = "unlock"]
    BY <1>6 DEF EndRound, CutEnds, SendAndSetGvt, MainGoes
  <2> QED
    BY <1>0, <1>1, <1>2, <2>1, <2>2 DEF MpiIsHeld, AtBarrier
<1>7. CASE MainYields(r) \/ MainLocksMpi(r)
  BY <1>0, <1>1, <1>2, <1>7
     DEF MainYields, Yields, MainLocksMpi, MpiIsFree, MainGoes, MpiIsHeld, AtBarrier, Nobody
<1>8. CASE MainSetsGvt(r)
  BY <1>0, <1>1, <1>2, <1>8 DEF MainSetsGvt, Handled, MainGoes, MpiIsHeld, AtBarrier, Nobody
<1> QED
  BY <1>3, <1>4, <1>5, <1>6, <1>7, <1>8 DEF Main

LEMMA MainKeepsBarrier ==
    ASSUME IType, BarrierInv, NEW r \in Rank, Main(r)
    PROVE  BarrierInv'
<1>0. /\ main \in [Rank -> {"wait", "lock", "handle", "yield", "relock", "lockMpi",
                            "barrier", "passed", "unlock", "cut", "finalise", "stop", "join", "done"}]
      /\ recvQueue \in [Rank -> Seq(Message)]
  BY DEF IType, TypeOK
<1>1. MpiIsHeld'
  BY MainKeepsMpiHeld
<1>2. hand' = hand /\ channel' = channel
  BY DEF Main, MainWaits, MainLocks, HandleMessage, HandleControl, HandleGvtValue,
         HandleGvtRequest, HandleSecond, CutWaits, LetsGo, CutEnds, Handled, EndRound,
         SendAndSetGvt, MainYields, MainLocksMpi, MainSetsGvt, MainUnlocks,
         MainSendsEnd, MainStops, MainJoins
<1>3. NoValues(recvQueue'[Starter])
  <2>1. NoValues(recvQueue[Starter]) /\ recvQueue[Starter] \in Seq(Message)
    BY <1>0, RankFacts DEF BarrierInv, ValuesAreForOthers
  <2>2. recvQueue[Starter] # << >> => NoValues(Tail(recvQueue[Starter]))
    BY <2>1 DEF NoValues
  <2> QED
    BY <1>0, <2>1, <2>2, MainTakesOneForOne, RankFacts
<1>4. \A q \in Rank : ForOthers(sendQueue'[q]) /\ ForOthers(controlQueue'[q])
  <2>1. ASSUME NEW m \in Message, ~IsValue(m), Queued(r, <<m>>)
        PROVE  \A q \in Rank : ForOthers(sendQueue'[q]) /\ ForOthers(controlQueue'[q])
    <3>1. <<m>> \in Seq(Message) /\ ForOthers(<<m>>)
      BY <2>1 DEF ForOthers
    <3> QED
      BY <2>1, <3>1, QueuedForOthers DEF BarrierInv
  <2>2. ASSUME NEW messages \in Seq(Message), ForOthers(messages), Queued(r, messages)
        PROVE  \A q \in Rank : ForOthers(sendQueue'[q]) /\ ForOthers(controlQueue'[q])
    BY <2>2, QueuedForOthers DEF BarrierInv
  <2>3. CASE sendQueue' = sendQueue /\ controlQueue' = controlQueue
    BY <2>3 DEF BarrierInv, ValuesAreForOthers
  <2> QED
    BY <2>1, <2>2, <2>3, MainQueues
<1>5. ValuesAreForOthers'
  BY <1>2, <1>3, <1>4 DEF BarrierInv, ValuesAreForOthers
<1>6. ControlIsEmptied'
  <2>1. \/ main'[Starter] = main[Starter]
        \/ r = Starter
    BY MainTakesOneForOne, RankFacts
  <2>2. main[r] \notin {"handle", "cut", "finalise"} => controlQueue' = controlQueue
    BY MainQueues
  <2>3. CASE r # Starter
    <3>1. controlQueue' = controlQueue \/ \E messages : Queued(r, messages)
      BY MainQueues
    <3>2. ASSUME NEW messages, Queued(r, messages)
          PROVE  controlQueue'[Starter] = controlQueue[Starter]
      <4>1. Starter \in Rank /\ DOMAIN controlQueue = Rank
        BY RankFacts DEF IType, TypeOK
      <4> QED
        BY <2>3, <3>2, <4>1 DEF Queued
    <3>3. controlQueue'[Starter] = controlQueue[Starter]
      BY <3>1, <3>2
    <3> QED
      BY <2>1, <2>3, <3>3 DEF BarrierInv, ControlIsEmptied
  <2>4. CASE r = Starter /\ main'[Starter] \in {"lockMpi", "barrier"}
    <3>1. ~HandleGvtValue(r)
      BY <2>4, StarterHandlesNoValue DEF BarrierInv
    <3>2. main'[r] \in {"lockMpi", "barrier"} /\ r \in DOMAIN main
      BY <1>0, <2>4
    <3>3. CASE \/ MainWaits(r) \/ MainLocks(r) \/ HandleMessage(r) \/ HandleControl(r)
               \/ HandleGvtRequest(r) \/ HandleSecond(r) \/ CutWaits(r)
      BY <3>2, <3>3 DEF MainWaits, MainLocks, HandleMessage, HandleControl, HandleSecond,
                        HandleGvtRequest, Handled, CutWaits, LetsGo, MainGoes
    <3>4. CASE CutEnds(r) \/ (r = Starter /\ \E type \in {"value", "final"} : EndRound(type))
      BY <3>2, <3>4 DEF EndRound, CutEnds, SendAndSetGvt, MainGoes
    <3>5. CASE MainSetsGvt(r) \/ MainUnlocks(r) \/ MainSendsEnd(r) \/ MainStops(r) \/ MainJoins(r)
      BY <3>2, <3>5 DEF MainSetsGvt, Handled, MainUnlocks, MainSendsEnd, MainStops, MainJoins, MainGoes
    <3>6. CASE MainYields(r)
      <4>1. main[r] = "yield" /\ controlQueue[r] = << >> /\ controlQueue' = controlQueue
        BY <3>2, <3>6 DEF MainYields, Yields, MainGoes, sendVars
      <4> QED
        BY <2>4, <4>1 DEF ControlIsEmptied, NoFinal
    <3>7. CASE MainLocksMpi(r)
      <4>1. main[r] = "lockMpi" /\ controlQueue' = controlQueue
        BY <3>7 DEF MainLocksMpi, MainGoes, sendVars
      <4> QED
        BY <2>4, <4>1 DEF BarrierInv, ControlIsEmptied, NoFinal
    <3> QED
      BY <3>1, <3>3, <3>4, <3>5, <3>6, <3>7 DEF Main
  <2> QED
    BY <2>3, <2>4 DEF ControlIsEmptied
<1> QED
  BY <1>1, <1>5, <1>6 DEF BarrierInv

LEMMA NextKeepsBarrier == IType /\ BarrierInv /\ [Next]_vars => BarrierInv'
<1> SUFFICES ASSUME IType, BarrierInv, [Next]_vars PROVE BarrierInv'
  OBVIOUS
<1>1. ASSUME NEW a \in Alp, NEW type \in {"request", "gvtRequest"}, AgentSends(a, type)
      PROVE  BarrierInv'
  <2> DEFINE m == [type |-> type, dest |-> Starter]
  <2>1. m \in Message /\ ~IsValue(m) /\ a \in Rank /\ a # Starter
    BY RankFacts, ConstantsAssumption DEF Message, SimTypes, ControlTypes, IsValue, Alp, Starter
  <2>2. <<m>> \in Seq(Message) /\ ForOthers(<<m>>)
    BY <2>1 DEF ForOthers
  <2>3. Queued(a, <<m>>)
    BY <1>1 DEF AgentSends
  <2> HIDE DEF m
  <2>4. \A q \in Rank : ForOthers(sendQueue'[q]) /\ ForOthers(controlQueue'[q])
    BY <2>1, <2>2, <2>3, QueuedForOthers DEF BarrierInv
  <2>5. controlQueue'[Starter] = controlQueue[Starter]
    BY <2>1, <2>3, RankFacts DEF Queued, IType, TypeOK
  <2>6. UNCHANGED <<main, sender, receiver, mpiMutex, hand, channel, recvQueue>>
    BY <1>1 DEF AgentSends, threadVars, mutexVars, recvVars
  <2> QED
    BY <2>4, <2>5, <2>6
       DEF BarrierInv, ValuesAreForOthers, MpiIsHeld, AtBarrier, ControlIsEmptied
<1>2. ASSUME NEW r \in Rank, SendThread(r) \/ ReceiveThread(r) \/ Main(r)
      PROVE  BarrierInv'
  BY <1>2, SendThreadKeepsBarrier, ReceiveThreadKeepsBarrier, MainKeepsBarrier
<1>3. CASE BarrierOpens
  <2>1. \A r \in Rank : main[r] = "barrier" /\ main'[r] = "passed"
    BY <1>3 DEF BarrierOpens
  <2>2. UNCHANGED <<sender, receiver, mpiMutex, sendQueue, controlQueue, hand, channel, recvQueue>>
    BY <1>3 DEF BarrierOpens, mutexVars, sendVars, recvVars
  <2> QED
    BY <2>1, <2>2, RankFacts
       DEF BarrierInv, ValuesAreForOthers, MpiIsHeld, AtBarrier, ControlIsEmptied
<1>4. CASE UNCHANGED vars
  BY <1>4 DEF vars, BarrierInv, ValuesAreForOthers, MpiIsHeld, AtBarrier, ControlIsEmptied
<1> QED
  BY <1>1, <1>2, <1>3, <1>4 DEF Next

\* The starter takes the mutex of MPI into the barrier only when every value of the
\* round has left its control queue and the send thread's hand: no LP is kept from the
\* barrier by a message that can no longer be sent.
THEOREM ValuesLeaveBeforeBarrier == Spec => []ValuesPrecedeBarrier
  BY InitType, NextKeepsTypes, InitBarrier, NextKeepsBarrier, BarrierInvMeans, PTL DEF Spec
=============================================================================
