----------------------------- MODULE LpThreads -----------------------------
(***************************************************************************)
(* The three threads of every LP, and how a simulation ends.               *)
(*                                                                         *)
(* The main loop (lp/Lp.cpp:47-74) handles what the receive thread has put *)
(* on the receive queue, holding the LP's mutex; the send thread transmits *)
(* what is on the send queues, holding the mutex of MPI; the receive       *)
(* thread holds both while it takes a message from MPI.  Two semaphores    *)
(* count messages.  When a GVT has reached the end time, the starter tells *)
(* every LP, all main loops meet in a barrier, and each LP stops its two   *)
(* threads.                                                                *)
(*                                                                         *)
(* What messages say is left out.  A GVT round is one trip of a control    *)
(* message round the ring, or two, and may find the end time when no       *)
(* simulation message is on the way.  In the second trip an LP receives    *)
(* messages within the handling of the control message until the white     *)
(* ones have come: some of the messages that are on the way to it (what    *)
(* they are, and when the count is wrong, is in GvtCalculator).  MPI keeps *)
(* the order between two ranks.                                            *)
(***************************************************************************)
EXTENDS Integers, FiniteSetsExt, SequencesExt

CONSTANTS
    N,            \* number of LPs; rank 0 is the GVT starter
    C,            \* number of CLPs, ranks 0 to C - 1; the others are ALPs
    MaxRequests,  \* bound: reads and writes of all agents
    MaxRounds,    \* bound: GVT requests of all agents
    Buffered      \* TRUE: MPI completes a send without waiting for the receive

ASSUME ConstantsAssumption ==
    /\ N \in Nat /\ C \in 1..(N - 1)
    /\ {MaxRequests, MaxRounds} \subseteq Nat
    /\ Buffered \in BOOLEAN

Rank == 0..(N - 1)
Alp == C..(N - 1)
Starter == 0

\* A control message is "second" in its second trip, a GVT value is "final" when it is
\* not before the end time.
SimTypes == {"request", "answer"}
ControlTypes == {"gvtRequest", "control", "second", "value", "final", "end"}
Message == [type: SimTypes \cup ControlTypes, dest: Rank]
None == [type |-> "none"]
Nobody == "nobody"
NoCut == -1

VARIABLES
    main,          \* where the main loop is
    sender,        \* where the send thread is
    receiver,      \* where the receive thread is
    lpMutex,       \* which thread holds Lp::fProcessMutex
    mpiMutex,      \* which thread holds MpiInterface::fMutex
    sendSemaphore,
    recvSemaphore,
    sendQueue,     \* fSendMessageQueue
    controlQueue,  \* fSendControlMessageQueue
    recvQueue,     \* fReceiveMessageQueue
    hand,          \* the message the send thread is transmitting
    channel,       \* channel[s][d]: messages in MPI
    accepting,     \* fIsAcceptingRequests of the starter
    final,         \* a GVT has reached the end time
    ended,         \* fGVT >= fEndTime
    outstanding,   \* the white messages that an LP in a second cut waits for
    running,       \* fIsSimulationRunning of the two threads
    budget         \* what is left of the bounds

vars == <<main, sender, receiver, lpMutex, mpiMutex, sendSemaphore, recvSemaphore,
          sendQueue, controlQueue, recvQueue, hand, channel, accepting, final, ended,
          outstanding, running, budget>>
threadVars == <<main, sender, receiver>>
mutexVars == <<lpMutex, mpiMutex>>
sendVars == <<sendSemaphore, sendQueue, controlQueue>>
recvVars == <<recvSemaphore, recvQueue>>
gvtVars == <<accepting, final, ended, outstanding>>
stopVars == <<gvtVars, running>>

TypeOK ==
    /\ main \in [Rank -> {"wait", "lock", "handle", "yield", "relock", "lockMpi",
                          "barrier", "passed", "unlock", "cut", "finalise", "stop", "join",
                          "done"}]
    /\ sender \in [Rank -> {"wait", "woken", "lockMpi", "send", "transmit", "test", "exited"}]
    /\ receiver \in [Rank -> {"probe", "lockMpi", "lockLp", "receive", "signal", "exited"}]
    /\ lpMutex \in [Rank -> {Nobody, "main", "receive"}]
    /\ mpiMutex \in [Rank -> {Nobody, "main", "send", "receive"}]
    /\ sendSemaphore \in [Rank -> Nat] /\ recvSemaphore \in [Rank -> Nat]
    /\ sendQueue \in [Rank -> Seq(Message)] /\ controlQueue \in [Rank -> Seq(Message)]
    /\ recvQueue \in [Rank -> Seq(Message)]
    /\ hand \in [Rank -> Message \cup {None}]
    /\ channel \in [Rank -> [Rank -> Seq(Message)]]
    /\ accepting \in BOOLEAN /\ final \in BOOLEAN
    /\ ended \in [Rank -> BOOLEAN] /\ running \in [Rank -> BOOLEAN]
    /\ outstanding \in [Rank -> Nat \cup {NoCut}]
    /\ budget \in [{"request", "gvtRequest"} -> Nat]

-----------------------------------------------------------------------------
\* After the start-up barriers: all threads run, nothing has been sent.
Init ==
    /\ main = [r \in Rank |-> "wait"]
    /\ sender = [r \in Rank |-> "wait"]
    /\ receiver = [r \in Rank |-> "probe"]
    /\ lpMutex = [r \in Rank |-> Nobody] /\ mpiMutex = [r \in Rank |-> Nobody]
    /\ sendSemaphore = [r \in Rank |-> 0] /\ recvSemaphore = [r \in Rank |-> 0]
    /\ sendQueue = [r \in Rank |-> << >>] /\ controlQueue = [r \in Rank |-> << >>]
    /\ recvQueue = [r \in Rank |-> << >>]
    /\ hand = [r \in Rank |-> None]
    /\ channel = [s \in Rank |-> [d \in Rank |-> << >>]]
    /\ accepting = TRUE /\ final = FALSE
    /\ ended = [r \in Rank |-> FALSE] /\ running = [r \in Rank |-> TRUE]
    /\ outstanding = [r \in Rank |-> NoCut]
    /\ budget = [request |-> MaxRequests, gvtRequest |-> MaxRounds]

MainGoes(r, from, to) == main[r] = from /\ main' = [main EXCEPT ![r] = to]
SenderGoes(r, from, to) == sender[r] = from /\ sender' = [sender EXCEPT ![r] = to]
ReceiverGoes(r, from, to) == receiver[r] = from /\ receiver' = [receiver EXCEPT ![r] = to]

\* SendToLp: a message goes on its queue, and the send thread is signalled.
Queued(r, messages) ==
    /\ IF messages[1].type \in SimTypes
       THEN /\ sendQueue' = [sendQueue EXCEPT ![r] = @ \o messages]
            /\ UNCHANGED controlQueue
       ELSE /\ controlQueue' = [controlQueue EXCEPT ![r] = @ \o messages]
            /\ UNCHANGED sendQueue
    /\ sendSemaphore' = [sendSemaphore EXCEPT ![r] = @ + Len(messages)]

\* An agent's thread asks for a read or a write, until it is at its end, or for
\* a GVT, until that has reached the end.
AgentSends(a, type) ==
    /\ type = "request" => ~final
    /\ ~ended[a]
    /\ budget[type] > 0
    /\ budget' = [budget EXCEPT ![type] = @ - 1]
    /\ Queued(a, <<[type |-> type, dest |-> Starter]>>)
    /\ UNCHANGED <<threadVars, mutexVars, recvVars, hand, channel, stopVars>>

(***************************************************************************)
(* The send thread.                                                        *)
(***************************************************************************)
\* Mutant: the send thread does not wait for a signal.
NeedsNoSignal(r) == TRUE

IsSignalled(r) == sendSemaphore[r] > 0

\* The flag is tested before the semaphore and after it.
SendWait(r) ==
    \/ /\ running[r]
       /\ IsSignalled(r)
       /\ SenderGoes(r, "wait", "woken")
       /\ sendSemaphore' = [sendSemaphore EXCEPT ![r] = @ - 1]
    \/ /\ running[r]
       /\ SenderGoes(r, "woken", "lockMpi")
       /\ UNCHANGED sendSemaphore
    \/ /\ ~running[r]
       /\ \/ SenderGoes(r, "woken", "exited")
          \/ IsSignalled(r) /\ SenderGoes(r, "wait", "exited")
       /\ UNCHANGED sendSemaphore

SendLocksMpi(r) ==
    /\ SenderGoes(r, "lockMpi", "send")
    /\ mpiMutex[r] = Nobody
    /\ mpiMutex' = [mpiMutex EXCEPT ![r] = "send"]

\* Send: control messages first.  There may be nothing left to send.
Dequeues(r) ==
    \/ /\ controlQueue[r] # << >>
       /\ SenderGoes(r, "send", "transmit")
       /\ hand' = [hand EXCEPT ![r] = Head(controlQueue[r])]
       /\ controlQueue' = [controlQueue EXCEPT ![r] = Tail(@)]
       /\ UNCHANGED <<sendQueue, mpiMutex>>
    \/ /\ controlQueue[r] = << >> /\ sendQueue[r] # << >>
       /\ SenderGoes(r, "send", "transmit")
       /\ hand' = [hand EXCEPT ![r] = Head(sendQueue[r])]
       /\ sendQueue' = [sendQueue EXCEPT ![r] = Tail(@)]
       /\ UNCHANGED <<controlQueue, mpiMutex>>
    \/ /\ controlQueue[r] = << >> /\ sendQueue[r] = << >>
       /\ SenderGoes(r, "send", "wait")
       /\ mpiMutex' = [mpiMutex EXCEPT ![r] = Nobody]
       /\ UNCHANGED <<hand, sendQueue, controlQueue>>

\* MPI_Isend ...
Transmits(r) ==
    /\ SenderGoes(r, "transmit", "test")
    /\ channel' = [channel EXCEPT ![r][hand[r].dest] = Append(@, hand[r])]
    /\ UNCHANGED <<hand, mpiMutex>>

\* ... and MPI_Test, with the mutex held, until the send is complete: at once when MPI
\* has buffered the message, else when it has been received.
IsSent(r) == Buffered \/ channel[r][hand[r].dest] = << >>

Completes(r) ==
    /\ SenderGoes(r, "test", "wait")
    /\ IsSent(r) \/ ~running[r]
    /\ hand' = [hand EXCEPT ![r] = None]
    /\ mpiMutex' = [mpiMutex EXCEPT ![r] = Nobody]
    /\ UNCHANGED channel

SendThread(r) ==
    \/ /\ SendWait(r)
       /\ UNCHANGED <<main, receiver, mutexVars, sendQueue, controlQueue, recvVars,
                      hand, channel, stopVars, budget>>
    \/ /\ SendLocksMpi(r)
       /\ UNCHANGED <<main, receiver, lpMutex, sendVars, recvVars, hand, channel,
                      stopVars, budget>>
    \/ /\ Dequeues(r)
       /\ UNCHANGED <<main, receiver, lpMutex, sendSemaphore, recvVars, channel,
                      stopVars, budget>>
    \/ /\ Transmits(r) \/ Completes(r)
       /\ UNCHANGED <<main, receiver, lpMutex, sendVars, recvVars, stopVars, budget>>

(***************************************************************************)
(* The receive thread.                                                     *)
(***************************************************************************)
\* MPI_Iprobe under the mutex of MPI; it sees a message or it does not.
Probes(r) ==
    \/ ~running[r] /\ ReceiverGoes(r, "probe", "exited")
    \/ /\ running[r]
       /\ mpiMutex[r] = Nobody
       /\ \E s \in Rank : channel[s][r] # << >>
       /\ ReceiverGoes(r, "probe", "lockMpi")

ReceiveLocks(r) ==
    \/ /\ ReceiverGoes(r, "lockMpi", "lockLp")
       /\ mpiMutex[r] = Nobody
       /\ mpiMutex' = [mpiMutex EXCEPT ![r] = "receive"]
       /\ UNCHANGED lpMutex
    \/ /\ ReceiverGoes(r, "lockLp", "receive")
       /\ lpMutex[r] = Nobody
       /\ lpMutex' = [lpMutex EXCEPT ![r] = "receive"]
       /\ UNCHANGED mpiMutex

\* MPI_Recv from any source, ReceiveToLp, and both mutexes are released.
Receives(r) ==
    /\ ReceiverGoes(r, "receive", "signal")
    /\ \E s \in Rank :
         /\ channel[s][r] # << >>
         /\ channel' = [channel EXCEPT ![s][r] = Tail(@)]
         /\ recvQueue' = [recvQueue EXCEPT ![r] = Append(@, Head(channel[s][r]))]
    /\ lpMutex' = [lpMutex EXCEPT ![r] = Nobody]
    /\ mpiMutex' = [mpiMutex EXCEPT ![r] = Nobody]

\* Mutant: the main loop is woken when a message is probed, not when it is
\* on the queue.
SignalsEarly(r) ==
    recvSemaphore' = [recvSemaphore EXCEPT ![r] =
                        IF receiver[r] = "probe" /\ receiver'[r] = "lockMpi"
                        THEN @ + 1 ELSE @]

SignalsReceived(r) ==
    recvSemaphore' = [recvSemaphore EXCEPT ![r] =
                        IF receiver[r] = "signal" THEN @ + 1 ELSE @]

ReceiveThread(r) ==
    /\ \/ Probes(r) /\ UNCHANGED <<mutexVars, channel, recvQueue>>
       \/ ReceiveLocks(r) /\ UNCHANGED <<channel, recvQueue>>
       \/ Receives(r)
       \/ ReceiverGoes(r, "signal", "probe") /\ UNCHANGED <<mutexVars, channel, recvQueue>>
    /\ SignalsReceived(r)
    /\ UNCHANGED <<main, sender, sendVars, hand, stopVars, budget>>

(***************************************************************************)
(* The main loop.                                                          *)
(***************************************************************************)
\* ReceiveWait, then the LP's mutex.
MainWaits(r) ==
    /\ recvSemaphore[r] > 0
    /\ MainGoes(r, "wait", "lock")
    /\ recvSemaphore' = [recvSemaphore EXCEPT ![r] = @ - 1]
    /\ UNCHANGED <<sender, receiver, mutexVars, sendVars, recvQueue, hand, channel,
                   stopVars, budget>>

MainLocks(r) ==
    /\ MainGoes(r, "lock", "handle")
    /\ lpMutex[r] = Nobody
    /\ lpMutex' = [lpMutex EXCEPT ![r] = "main"]
    /\ UNCHANGED <<sender, receiver, mpiMutex, sendVars, recvVars, hand, channel,
                   stopVars, budget>>

Takes(r, types) ==
    /\ recvQueue[r] # << >> /\ Head(recvQueue[r]).type \in types
    /\ recvQueue' = [recvQueue EXCEPT ![r] = Tail(@)]

\* When a message has been handled: back to the loop of the LP, or of its second cut.
Handled(r) == IF outstanding[r] = NoCut THEN "unlock" ELSE "cut"

\* The simulation messages that have been counted as sent to r and are not handled yet.
SimIn(seq) == {i \in DOMAIN seq : seq[i].type \in SimTypes}

OnTheWay(r) ==
    Cardinality(SimIn(recvQueue[r]))
    + Cardinality({s \in Rank : /\ sender[s] = "transmit" /\ hand[s].dest = r
                               /\ hand[s].type \in SimTypes})
    + Cardinality(UNION {{s} \X SimIn(channel[s][r]) : s \in Rank})

\* A message that is handled within a second cut may be one of those it waits for; it is
\* when all that are left on the way are.
CountsOff(r) == \E k \in {outstanding[r], outstanding[r] - 1} :
    /\ 0 <= k /\ k < OnTheWay(r)
    /\ outstanding' = [outstanding EXCEPT ![r] = k]

\* A read or write is answered, an answer goes to an agent, and an end message
\* is only forwarded when there are more CLPs.
HandleMessage(r) ==
    /\ Takes(r, SimTypes \cup {"end"})
    /\ MainGoes(r, "handle", Handled(r))
    /\ IF outstanding[r] # NoCut /\ Head(recvQueue[r]).type \in SimTypes
       THEN CountsOff(r) ELSE UNCHANGED outstanding
    /\ IF Head(recvQueue[r]).type = "request"
       THEN \E a \in Alp : Queued(r, <<[type |-> "answer", dest |-> a]>>)
       ELSE UNCHANGED sendVars
    /\ UNCHANGED <<sender, receiver, mutexVars, recvSemaphore, hand, channel,
                   accepting, final, ended, running, budget>>

\* ProcessMessage(GvtRequestMessage).
HandleGvtRequest(r) ==
    /\ Takes(r, {"gvtRequest"})
    /\ MainGoes(r, "handle", Handled(r))
    /\ IF accepting
       THEN /\ Queued(r, <<[type |-> "control", dest |-> (r + 1) % N]>>)
            /\ accepting' = FALSE
       ELSE UNCHANGED <<sendVars, accepting>>
    /\ UNCHANGED <<sender, receiver, mutexVars, recvSemaphore, hand, channel, final,
                   ended, outstanding, running, budget>>

\* ProcessFirstCutGvtControl passes the message on; when white ones may be on the way
\* the starter makes it the message of the second cut ...
HandleControl(r) ==
    /\ Takes(r, {"control"})
    /\ MainGoes(r, "handle", Handled(r))
    /\ Queued(r, <<[type |-> IF r = Starter THEN "second" ELSE "control",
                     dest |-> (r + 1) % N]>>)
    /\ UNCHANGED <<sender, receiver, mutexVars, recvSemaphore, hand, channel,
                   stopVars, budget>>

NoSimMessage == \A r \in Rank : sendQueue[r] = << >> /\ OnTheWay(r) = 0

\* ... or ends the round, SendAndSetGvt: the value goes to all others.
SendAndSetGvt(from, type) == LET r == Starter IN
    /\ type = "final" => NoSimMessage
    /\ MainGoes(r, from, IF type = "final" THEN "yield" ELSE "unlock")
    /\ Queued(r, [i \in 1..(N - 1) |-> [type |-> type, dest |-> i]])
    /\ accepting' = TRUE
    /\ final' = (type = "final")
    /\ UNCHANGED <<sender, receiver, mutexVars, recvSemaphore, hand, channel, ended,
                   running, budget>>

EndRound(type) ==
    /\ Takes(Starter, {"control"})
    /\ SendAndSetGvt("handle", type)
    /\ UNCHANGED outstanding

\* ProcessSecondCutGvtControl: the LP looks what is outstanding; while there is something
\* it unlocks, waits for a message, locks and handles it ...
HandleSecond(r) ==
    /\ Takes(r, {"second"})
    /\ MainGoes(r, "handle", "cut")
    /\ \E k \in 0..OnTheWay(r) : outstanding' = [outstanding EXCEPT ![r] = k]
    /\ UNCHANGED <<sender, receiver, mutexVars, sendVars, recvSemaphore, hand, channel,
                   accepting, final, ended, running, budget>>

\* Mutant: it waits with the mutex held.
KeepsLock(r) == MainGoes(r, "cut", "wait")

LetsGo(r) == MainGoes(r, "cut", "unlock")

CutWaits(r) ==
    /\ outstanding[r] > 0
    /\ LetsGo(r)
    /\ UNCHANGED <<sender, receiver, mutexVars, sendVars, recvVars, hand, channel,
                   stopVars, budget>>

\* ... and passes the message on, or ends the round, when there is no more.
CutEnds(r) ==
    /\ outstanding[r] = 0
    /\ outstanding' = [outstanding EXCEPT ![r] = NoCut]
    /\ UNCHANGED recvQueue
    /\ \/ /\ r # Starter
          /\ MainGoes(r, "cut", "unlock")
          /\ Queued(r, <<[type |-> "second", dest |-> (r + 1) % N]>>)
          /\ UNCHANGED <<sender, receiver, mutexVars, recvSemaphore, hand, channel,
                         accepting, final, ended, running, budget>>
       \/ /\ r = Starter
          /\ \E type \in {"value", "final"} : SendAndSetGvt("cut", type)

\* Mutant: an LP that hears of the end does not wait for the others.
SkipsBarrier(r, m) == IF m.type = "final" THEN "passed" ELSE Handled(r)

\* ProcessMessage(GvtValueMessage): with the LP's mutex held, into the barrier
\* if the end time is reached.
AfterValue(r, m) == IF m.type = "final" THEN "barrier" ELSE Handled(r)

HandleGvtValue(r) ==
    /\ Takes(r, {"value", "final"})
    /\ MainGoes(r, "handle", AfterValue(r, Head(recvQueue[r])))
    /\ UNCHANGED <<sender, receiver, mutexVars, sendVars, recvSemaphore, hand, channel,
                   stopVars, budget>>

\* "Yield all control messages": the mutex is released and taken again until
\* the control queue is empty.
Yields(r) ==
    \/ /\ controlQueue[r] # << >>
       /\ MainGoes(r, "yield", "relock")
       /\ lpMutex' = [lpMutex EXCEPT ![r] = Nobody]
    \/ /\ MainGoes(r, "relock", "yield")
       /\ lpMutex[r] = Nobody
       /\ lpMutex' = [lpMutex EXCEPT ![r] = "main"]
    \/ /\ controlQueue[r] = << >>
       /\ MainGoes(r, "yield", "lockMpi")
       /\ UNCHANGED lpMutex

MainYields(r) ==
    /\ Yields(r)
    /\ UNCHANGED <<sender, receiver, mpiMutex, sendVars, recvVars, hand, channel,
                   stopVars, budget>>

\* Mutant: the starter enters the barrier without the mutex of MPI.
NeedsNoMutex(r) == TRUE

MpiIsFree(r) == mpiMutex[r] = Nobody

MainLocksMpi(r) ==
    /\ MainGoes(r, "lockMpi", "barrier")
    /\ MpiIsFree(r)
    /\ mpiMutex' = [mpiMutex EXCEPT ![r] = "main"]
    /\ UNCHANGED <<sender, receiver, lpMutex, sendVars, recvVars, hand, channel,
                   stopVars, budget>>

\* MPI_Barrier: all have entered.
BarrierOpens ==
    /\ \A r \in Rank : main[r] = "barrier"
    /\ main' = [r \in Rank |-> "passed"]
    /\ UNCHANGED <<sender, receiver, mutexVars, sendVars, recvVars, hand, channel,
                   stopVars, budget>>

\* The starter releases MPI; every LP sets its GVT.
MainSetsGvt(r) ==
    /\ MainGoes(r, "passed", Handled(r))
    /\ mpiMutex' = [mpiMutex EXCEPT ![r] = IF r = Starter THEN Nobody ELSE @]
    /\ ended' = [ended EXCEPT ![r] = TRUE]
    /\ UNCHANGED <<sender, receiver, lpMutex, sendVars, recvVars, hand, channel,
                   accepting, final, outstanding, running, budget>>

MainUnlocks(r) ==
    /\ MainGoes(r, "unlock", IF ended[r] /\ outstanding[r] = NoCut THEN "finalise" ELSE "wait")
    /\ lpMutex' = [lpMutex EXCEPT ![r] = Nobody]
    /\ UNCHANGED <<sender, receiver, mpiMutex, sendVars, recvVars, hand, channel,
                   stopVars, budget>>

\* Finalise: an ALP queues its end message ...
MainSendsEnd(r) ==
    /\ MainGoes(r, "finalise", "stop")
    /\ IF r \in Alp THEN Queued(r, <<[type |-> "end", dest |-> Starter]>>)
                    ELSE UNCHANGED sendVars
    /\ UNCHANGED <<sender, receiver, mutexVars, recvVars, hand, channel, stopVars,
                   budget>>

\* ... StopSimulation clears the flag of both threads and wakes the send thread ...
MainStops(r) ==
    /\ MainGoes(r, "stop", "join")
    /\ running' = [running EXCEPT ![r] = FALSE]
    /\ sendSemaphore' = [sendSemaphore EXCEPT ![r] = @ + 1]
    /\ UNCHANGED <<sender, receiver, mutexVars, sendQueue, controlQueue, recvVars, hand,
                   channel, gvtVars, budget>>

\* ... and both are joined.
MainJoins(r) ==
    /\ MainGoes(r, "join", "done")
    /\ sender[r] = "exited" /\ receiver[r] = "exited"
    /\ UNCHANGED <<sender, receiver, mutexVars, sendVars, recvVars, hand, channel,
                   stopVars, budget>>

Main(r) ==
    \/ MainWaits(r) \/ MainLocks(r)
    \/ HandleMessage(r) \/ HandleControl(r) \/ HandleSecond(r) \/ HandleGvtValue(r)
    \/ CutWaits(r) \/ CutEnds(r)
    \/ r = Starter /\ HandleGvtRequest(r)
    \/ r = Starter /\ \E type \in {"value", "final"} : EndRound(type)
    \/ MainYields(r) \/ MainLocksMpi(r) \/ MainSetsGvt(r) \/ MainUnlocks(r)
    \/ MainSendsEnd(r) \/ MainStops(r) \/ MainJoins(r)

Next ==
    \/ \E a \in Alp, type \in {"request", "gvtRequest"} : AgentSends(a, type)
    \/ \E r \in Rank : SendThread(r) \/ ReceiveThread(r) \/ Main(r)
    \/ BarrierOpens

Spec == Init /\ [][Next]_vars

\* Every thread is scheduled, and the receive thread, which holds the mutex of MPI while
\* it waits for that of the LP, gets the latter when it is free again and again.
FairSpec ==
    /\ Spec
    /\ WF_vars(BarrierOpens)
    /\ \A r \in Rank : WF_vars(SendThread(r)) /\ SF_vars(ReceiveThread(r)) /\ WF_vars(Main(r))

-----------------------------------------------------------------------------
(***************************************************************************)
(* Properties.                                                             *)
(***************************************************************************)
\* The receive semaphore counts the messages on the receive queue, whichever
\* step the receive thread and the main loop are at: DequeueMessage, which does
\* not look, always finds one (MessageQueue.cpp:30-36).
SemaphoreCountsQueue ==
    \A r \in Rank :
      Len(recvQueue[r]) = recvSemaphore[r]
                          + (IF main[r] \in {"lock", "handle"} THEN 1 ELSE 0)
                          + (IF receiver[r] = "signal" THEN 1 ELSE 0)

\* The barrier of the starter holds the mutex of MPI, and nothing of the round
\* is left behind it: every other LP's final value is on its way by then
\* (GvtCalculator.cpp:231-243).
ValuesPrecedeBarrier ==
    main[Starter] = "barrier" =>
      /\ hand[Starter] = None
      /\ \A i \in DOMAIN controlQueue[Starter] :
           controlQueue[Starter][i].type # "final"

\* No LP stops its threads before every LP has heard that the end is reached:
\* nobody waits for an LP that has gone (GvtCalculator.cpp:46-60, Lp.cpp:52-72).
NobodyStopsAlone ==
    (\E r \in Rank : ended[r]) =>
      \A r \in Rank : ended[r] \/ main[r] = "passed"

\* No message stays on a queue until the LP has come to its end: what is queued is sent
\* and what is received is handled, by the main loop or within a second cut, which lets
\* the receive thread in while it waits (GvtCalculator.cpp:185-190).  That MPI completes
\* a send before the receiver takes part in it (Buffered) is assumed.
QueuesDrain ==
    \A r \in Rank :
      /\ []<>(sendQueue[r] = << >> \/ ended[r])
      /\ []<>(controlQueue[r] = << >> \/ ended[r])
      /\ []<>(recvQueue[r] = << >> \/ ended[r])

\* "when GVT=end_time the simulation can be safely terminated"
\* (EndMessage.h:10-11): once a GVT has reached the end time, every LP comes to
\* its end.
Terminates == final ~> \A r \in Rank : main[r] = "done"
=============================================================================
