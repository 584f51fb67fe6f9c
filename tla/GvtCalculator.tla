--------------------------- MODULE GvtCalculator ---------------------------
(***************************************************************************)
(* Global virtual time: Mattern's two-cut algorithm on a ring of all LPs   *)
(* (lp/GvtCalculator.cpp), with the colouring and counting of simulation   *)
(* messages that every send and receive takes part in (Lp.cpp:28-45).      *)
(*                                                                         *)
(* Rank 0 starts a round on request: a control message visits every LP and *)
(* gathers the least LVT and, per destination, the number of white         *)
(* messages sent and not received.  When white messages are in transit a   *)
(* second cut waits for them and gathers the times of the red ones.        *)
(*                                                                         *)
(* Per LP: the send thread takes control messages before simulation        *)
(* messages; the main loop handles one received message at a time.  MPI    *)
(* keeps the order between two ranks, and nothing more.  The receive queue *)
(* of an LP is a merge of its incoming channels in any order, so the main  *)
(* loop takes the head of any channel.                                     *)
(*                                                                         *)
(* Environment: the ALPs send requests (reads, writes, range queries) to   *)
(* CLP 0, which answers and may roll back an ALP to the time of the        *)
(* request or later; a rollback undoes them by anti-messages.              *)
(* CLPs pass messages on.  What a rollback does at its ALP besides is in   *)
(* AlpRollback, where an anti-message goes in RangeQueries, the barrier    *)
(* and the end of the simulation in LpThreads.                             *)
(***************************************************************************)
EXTENDS Integers, FiniteSetsExt, SequencesExt

CONSTANTS
    N,              \* number of LPs, ranks 0 to N - 1
    C,              \* number of CLPs, ranks 0 to C - 1; the others are ALPs
    Towards,        \* Towards[r][d]: where r sends what is for d (see Routing)
    MaxTime,        \* bound: last timestamp of a request
    MaxRequests,    \* bound: simulation requests of each ALP
    MaxEvents,      \* bound: GVT requests and rollbacks, together
    SendAtomically  \* TRUE: the colour cannot change while a message is
                    \* stamped and counted

ASSUME ConstantsAssumption ==
    /\ N \in Nat /\ C \in 1..(N - 1)
    /\ {MaxTime, MaxRequests, MaxEvents} \subseteq Nat
    /\ SendAtomically \in BOOLEAN
    /\ Towards \in [0..(N - 1) -> [0..(N - 1) -> 0..(N - 1)]]
    /\ \A r, d \in 0..(N - 1) : r # d => Towards[r][d] # r

Rank == 0..(N - 1)
Clp == 0..(C - 1)
Alp == C..(N - 1)
Starter == 0
NextInRing(r) == (r + 1) % N

LONG_MAX == MaxTime + 2
ULONG_MAX == MaxTime + 3
Time == 0..ULONG_MAX

Colour == {"white", "red"}
\* An "undo" is the anti-message of a read or a write, an "anti" that of a range query.
\* The agent is known by its ALP.
SimTypes == {"request", "response", "rollback", "undo", "anti"}
SimMessage == [type: SimTypes, agent: Alp, dest: Rank, time: Time, colour: Colour]
ControlMessage == [type: {"control"}, dest: Rank, cut: {"first", "second"},
                   min: Time, red: Time, count: [Rank -> Int]]
ValueMessage == [type: {"value"}, dest: Rank, gvt: Time]
GvtRequest == [type: {"gvtRequest"}, dest: Rank]
RingMessage == ControlMessage \cup ValueMessage \cup GvtRequest
Message == SimMessage \cup RingMessage
NoMessage == [type |-> "none"]
None == -1

VARIABLES
    colour,      \* fColour
    redTime,     \* fRedTime
    counter,     \* fWhiteTransientMessageCounter, 0 where there is no entry
    entries,     \* the ranks that have an entry in it
    accepting,   \* fIsAcceptingRequests of the starter
    gvt,         \* fGVT
    lvt,         \* what GetLvt of an ALP returns (one agent each)
    awaited,     \* the timestamp of the request the agent waits for
    sendList,    \* the timestamps of the requests on fSendList
    sendQueue,   \* fSendMessageQueue
    controlQueue,\* fSendControlMessageQueue
    sending,     \* the message the send thread has stamped and not counted
    channel,     \* channel[s][d]: messages from s to d, in order
    held,        \* the control message an LP holds while it waits in a
                 \* second cut
    excess,      \* history: messages to a rank that were counted though not
                 \* white, less the white ones that were not counted
    budget       \* what is left of the bounds

vars == <<colour, redTime, counter, entries, accepting, gvt, lvt, awaited,
          sendList, sendQueue, controlQueue, sending, channel, held, excess, budget>>
agentVars == <<lvt, awaited, sendList>>
countVars == <<colour, redTime, counter, entries>>

IsSim(m) == m.type \in SimTypes
IsControl(m) == m.type = "control"

TypeOK ==
    /\ colour \in [Rank -> Colour]
    /\ redTime \in [Rank -> Time]
    /\ counter \in [Rank -> [Rank -> Int]]
    /\ entries \in [Rank -> SUBSET Rank]
    /\ accepting \in BOOLEAN
    /\ gvt \in [Rank -> Time]
    /\ lvt \in [Rank -> Time]
    /\ awaited \in [Rank -> Time \cup {None}]
    /\ sendList \in [Rank -> SUBSET Time]
    /\ sendQueue \in [Rank -> Seq(SimMessage)]
    /\ controlQueue \in [Rank -> Seq(RingMessage)]
    /\ sending \in [Rank -> SimMessage \cup {NoMessage}]
    /\ channel \in [Rank -> [Rank -> Seq(Message)]]
    /\ held \in [Rank -> ControlMessage \cup {NoMessage}]
    /\ excess \in [Rank -> Int]
    /\ budget \in [requests: [Alp -> Nat], events: Nat]

\* GetWhiteTransientMessageCounter: -1 for a rank that has no entry.
CounterOf(r, d) == IF d \in entries[r] THEN counter[r][d] ELSE -1

\* A CLP's LVT is ULONG_MAX.
LvtOf(r) == IF r \in Alp THEN lvt[r] ELSE ULONG_MAX

Least(a, b) == IF a < b THEN a ELSE b

Count(r, d, by) ==
    /\ counter' = [counter EXCEPT ![r][d] = @ + by]
    /\ entries' = [entries EXCEPT ![r] = @ \cup {d}]

\* White messages sent to d and not yet received there.
InTransit(d) ==
    UNION {{<<s, i>> : i \in {j \in DOMAIN channel[s][d] :
                                /\ IsSim(channel[s][d][j])
                                /\ channel[s][d][j].colour = "white"}} : s \in Rank}

-----------------------------------------------------------------------------
Init ==
    /\ colour = [r \in Rank |-> "white"]
    /\ redTime = [r \in Rank |-> ULONG_MAX]
    /\ counter = [r \in Rank |-> [d \in Rank |-> 0]]
    /\ entries = [r \in Rank |-> {}]
    /\ accepting = TRUE
    /\ gvt = [r \in Rank |-> 0]
    /\ lvt = [r \in Rank |-> 0]
    /\ awaited = [r \in Rank |-> None]
    /\ sendList = [r \in Rank |-> {}]
    /\ sendQueue = [r \in Rank |-> << >>]
    /\ controlQueue = [r \in Rank |-> << >>]
    /\ sending = [r \in Rank |-> NoMessage]
    /\ channel = [s \in Rank |-> [d \in Rank |-> << >>]]
    /\ held = [r \in Rank |-> NoMessage]
    /\ excess = [d \in Rank |-> 0]
    /\ budget = [requests |-> [a \in Alp |-> MaxRequests], events |-> MaxEvents]

SpendEvent == budget.events > 0 /\ budget' = [budget EXCEPT !.events = @ - 1]

(***************************************************************************)
(* Environment: agents ask for a GVT and for reads and writes.             *)
(***************************************************************************)
SendGvtRequest(a) ==
    /\ SpendEvent
    /\ controlQueue' = [controlQueue EXCEPT ![a] =
                          Append(@, [type |-> "gvtRequest", dest |-> Starter])]
    /\ UNCHANGED <<countVars, accepting, gvt, agentVars, sendQueue, sending, channel,
                   held, excess>>

SendRequest(a, t) ==
    /\ awaited[a] = None
    /\ t >= lvt[a]
    /\ budget.requests[a] > 0
    /\ budget' = [budget EXCEPT !.requests[a] = @ - 1]
    /\ awaited' = [awaited EXCEPT ![a] = t]
    /\ sendQueue' = [sendQueue EXCEPT ![a] =
                       Append(@, [type |-> "request", agent |-> a, time |-> t,
                                  dest |-> Towards[a][Starter], colour |-> "white"])]
    /\ UNCHANGED <<countVars, accepting, gvt, lvt, sendList, controlQueue, sending, channel,
                   held, excess>>

(***************************************************************************)
(* The send thread: Send of an ALP or a CLP, with PreProcessSendMessage,   *)
(* which reads the colour twice, once to stamp the message and once to     *)
(* decide between counting it and taking its time into the red time.  A    *)
(* CLP leaves that out for the anti-message of a range query, which keeps  *)
(* the colour it came with.                                                *)
(***************************************************************************)
SendControl(r) ==
    /\ sending[r] = NoMessage
    /\ controlQueue[r] # << >>
    /\ LET m == Head(controlQueue[r])
       IN  channel' = [channel EXCEPT ![r][m.dest] = Append(@, m)]
    /\ controlQueue' = [controlQueue EXCEPT ![r] = Tail(@)]
    /\ UNCHANGED <<countVars, accepting, gvt, agentVars, sendQueue, sending, held, excess,
                   budget>>

IsPreProcessed(r, m) == r \in Alp \/ m.type # "anti"

SendStamp(r) == LET m == Head(sendQueue[r]) IN
    /\ sending[r] = NoMessage
    /\ controlQueue[r] = << >>
    /\ sendQueue[r] # << >>
    /\ sending' = [sending EXCEPT ![r] =
                     IF IsPreProcessed(r, m) THEN [m EXCEPT !.colour = colour[r]] ELSE m]
    /\ sendQueue' = [sendQueue EXCEPT ![r] = Tail(@)]
    /\ sendList' = IF r \in Alp /\ m.type = "request"
                   THEN [sendList EXCEPT ![r] = @ \cup {m.time}] ELSE sendList
    /\ UNCHANGED <<countVars, accepting, gvt, lvt, awaited, controlQueue, channel, held,
                   excess, budget>>

CountsSent(r, m) == IsPreProcessed(r, m) /\ colour[r] = "white"

TakesRedTime(r, m) == IsPreProcessed(r, m) /\ colour[r] = "red"

SendCount(r) == LET m == sending[r] IN
    /\ m # NoMessage
    /\ IF CountsSent(r, m) THEN Count(r, m.dest, 1) ELSE UNCHANGED <<counter, entries>>
    /\ redTime' = IF TakesRedTime(r, m)
                  THEN [redTime EXCEPT ![r] = Least(@, m.time)] ELSE redTime
    /\ channel' = [channel EXCEPT ![r][m.dest] = Append(@, m)]
    /\ sending' = [sending EXCEPT ![r] = NoMessage]
    /\ excess' = [excess EXCEPT ![m.dest] =
                    @ + (IF CountsSent(r, m) THEN 1 ELSE 0)
                      - (IF m.colour = "white" THEN 1 ELSE 0)]
    /\ UNCHANGED <<colour, accepting, gvt, agentVars, sendQueue, controlQueue, held,
                   budget>>

(***************************************************************************)
(* The main loop: the head of channel[s][r] is handled.                    *)
(***************************************************************************)
\* Mutant: the wait does not see what has been received since the first cut.
OutstandingAtFirstCut(r, m) == m.count[r]

Outstanding(r, m) == m.count[r] + CounterOf(r, r)

\* An LP that holds a control message goes on receiving while messages are
\* outstanding.
Arrives(s, r, m) ==
    /\ held[r] # NoMessage => Outstanding(r, held[r]) > 0
    /\ channel[s][r] # << >>
    /\ m = Head(channel[s][r])
    /\ SendAtomically => sending[r] = NoMessage
    /\ channel' = [channel EXCEPT ![s][r] = Tail(@)]

\* Mutant: every message is counted off.
CountAnyReceived(r, m) == Count(r, r, -1)

\* PreProcessReceiveMessage: a white message is counted off.
CountReceived(r, m) ==
    IF m.colour = "white" THEN Count(r, r, -1) ELSE UNCHANGED <<counter, entries>>

PutOnSendQueue(r, messages) ==
    sendQueue' = [sendQueue EXCEPT ![r] = @ \o messages]

\* A request at CLP 0 is answered; it, or the anti-message of one, may mean that an ALP
\* has to be rolled back.
ReceiveRequest(s, m) == LET r == Starter IN
    /\ Arrives(s, r, m) /\ m.type \in {"request", "undo"}
    /\ CountReceived(r, m)
    /\ LET For(type, a, t) == [type |-> type, agent |-> a, dest |-> Towards[r][a],
                               time |-> t, colour |-> "white"]
           answer == IF m.type = "request" THEN << For("response", m.agent, m.time) >>
                                           ELSE << >>
       IN \/ PutOnSendQueue(r, answer) /\ UNCHANGED budget
          \/ \E a \in Alp : \E t \in m.time..MaxTime :
               /\ SpendEvent
               /\ PutOnSendQueue(r, Append(answer, For("rollback", a, t)))
    /\ UNCHANGED <<colour, redTime, accepting, gvt, agentVars, controlQueue, sending,
                   held, excess>>

\* A CLP passes on what is for CLP 0, and what is for an agent.
PassOn(s, r, m) ==
    LET target == IF m.type \in {"request", "undo"} THEN Starter ELSE m.agent IN
    /\ Arrives(s, r, m) /\ m.type \in SimTypes \ {"anti"}
    /\ m.type \in {"request", "undo"} => r # Starter
    /\ CountReceived(r, m)
    /\ PutOnSendQueue(r, << [m EXCEPT !.dest = Towards[r][target]] >>)
    /\ UNCHANGED <<colour, redTime, accepting, gvt, agentVars, controlQueue, sending,
                   held, excess, budget>>

Neighbours(r) == {Towards[r][q] : q \in Clp \ {r}}

\* The one way to count the numbers of S in their order.
InOrder(S) == {f \in [1..Cardinality(S) -> S] : \A i, j \in DOMAIN f : i < j => f[i] < f[j]}

\* ProcessMessage(RangeQueryAntiMessage): unless it is from before GVT, it goes on to
\* the CLPs that the query went to, but not back to the agent.
ReceiveAnti(s, r, m) ==
    /\ Arrives(s, r, m) /\ m.type = "anti"
    /\ CountReceived(r, m)
    /\ \/ gvt[r] > m.time /\ UNCHANGED sendQueue
       \/ /\ gvt[r] <= m.time
          /\ \E on \in SUBSET (Neighbours(r) \ {Towards[r][m.agent]}) :
             \E port \in InOrder(on) :
               PutOnSendQueue(r, [i \in DOMAIN port |-> [m EXCEPT !.dest = port[i]]])
    /\ UNCHANGED <<colour, redTime, accepting, gvt, agentVars, controlQueue, sending,
                   held, excess, budget>>

\* The response that is awaited moves the LVT on.
ReceiveResponse(s, r, m) ==
    /\ Arrives(s, r, m) /\ m.type = "response"
    /\ CountReceived(r, m)
    /\ IF m.time = awaited[r]
       THEN /\ lvt' = [lvt EXCEPT ![r] = m.time + 1]
            /\ awaited' = [awaited EXCEPT ![r] = None]
       ELSE UNCHANGED <<lvt, awaited>>
    /\ UNCHANGED <<colour, redTime, accepting, gvt, sendList, sendQueue, controlQueue,
                   sending, held, excess, budget>>

\* A rollback moves it back and undoes the requests from its time on by anti-messages.
\* When one of them is from before GVT it is given up: the LVT becomes the GVT, and the
\* agent, whose thread stays aborted, asks for nothing more.
ReceiveRollback(s, r, m) ==
    LET undone == {t \in sendList[r] : t >= m.time}
        Anti(type, t) == [type |-> type, agent |-> r, dest |-> Towards[r][Starter],
                          time |-> t, colour |-> "white"]
        RollsBackTo(t) == /\ lvt' = [lvt EXCEPT ![r] = t]
                          /\ awaited' = [awaited EXCEPT ![r] = None]
                          /\ sendList' = [sendList EXCEPT ![r] = @ \ undone]
    IN
    /\ Arrives(s, r, m) /\ m.type = "rollback"
    /\ CountReceived(r, m)
    /\ \/ m.time >= lvt[r] /\ UNCHANGED <<agentVars, sendQueue, budget>>
       \/ /\ m.time < lvt[r] /\ \A t \in undone : t >= gvt[r]
          /\ RollsBackTo(m.time)
          /\ \E queries \in SUBSET undone : \E t \in InOrder(undone) :
               PutOnSendQueue(r, [i \in DOMAIN t |->
                 Anti(IF t[i] \in queries THEN "anti" ELSE "undo", t[i])])
          /\ UNCHANGED budget
       \/ /\ m.time < lvt[r] /\ \E t \in undone : t < gvt[r]
          /\ RollsBackTo(gvt[r])
          /\ budget' = [budget EXCEPT !.requests[r] = 0]
          /\ UNCHANGED sendQueue
    /\ UNCHANGED <<colour, redTime, accepting, gvt, controlQueue, sending, held, excess>>

PutOnControlQueue(r, m) ==
    controlQueue' = [controlQueue EXCEPT ![r] = Append(@, m)]

\* Mutant: a request starts a round whether one is on or not.
AlwaysMayStart(r) == r = Starter

RoundMayStart(r) == r = Starter /\ accepting

\* ProcessMessage(GvtRequestMessage): only when no round is on.
ReceiveGvtRequest(s, m) == LET r == Starter IN
    /\ Arrives(s, r, m) /\ m.type = "gvtRequest"
    /\ IF RoundMayStart(r)
       THEN /\ accepting' = FALSE
            /\ colour' = [colour EXCEPT ![r] = "white"]
            /\ PutOnControlQueue(r, [type |-> "control", dest |-> NextInRing(r),
                                     cut |-> "first", min |-> LONG_MAX,
                                     red |-> LONG_MAX,
                                     count |-> [d \in Rank |-> 0]])
       ELSE UNCHANGED <<accepting, colour, controlQueue>>
    /\ UNCHANGED <<redTime, counter, entries, gvt, agentVars, sendQueue, sending, held, excess,
                   budget>>

\* ProcessMessage(GvtValueMessage).
ReceiveGvtValue(s, r, m) ==
    /\ Arrives(s, r, m) /\ m.type = "value"
    /\ gvt' = [gvt EXCEPT ![r] = m.gvt]
    /\ colour' = [colour EXCEPT ![r] = "white"]
    /\ sendList' = [sendList EXCEPT ![r] = {t \in @ : t >= m.gvt}]
    /\ UNCHANGED <<redTime, counter, entries, accepting, lvt, awaited, sendQueue,
                   controlQueue, sending, held, excess, budget>>

\* SendAndSetGvt of the starter: the new GVT goes to every other LP.
SendAndSetGvt(m) ==
    LET value == Least(m.min, m.red) IN
    /\ accepting' = TRUE
    /\ controlQueue' = [controlQueue EXCEPT ![Starter] =
         @ \o [r \in 1..(N - 1) |-> [type |-> "value", dest |-> r, gvt |-> value]]]
    /\ gvt' = [gvt EXCEPT ![Starter] = value]

\* ProcessFirstCutGvtControl: what LP r adds to the control message.
AtFirstCut(r, m) ==
    [m EXCEPT !.min = Least(LvtOf(r), @),
              !.count = [d \in Rank |-> @[d] + CounterOf(r, d)]]

\* The starter looks for white messages among the ranks it has entries for.
HasWhiteTransients(m) == \E d \in entries[Starter] : m.count[d] > 0

FirstCut(s, r, m) == LET new == AtFirstCut(r, m) IN
    /\ Arrives(s, r, m) /\ m.type = "control" /\ m.cut = "first"
    /\ redTime' = [redTime EXCEPT ![r] = LONG_MAX]
    /\ IF r = Starter /\ ~HasWhiteTransients(new)
       THEN /\ colour' = [colour EXCEPT ![r] = "white"]
            /\ SendAndSetGvt(new)
       ELSE /\ colour' = [colour EXCEPT ![r] = "red"]
            /\ PutOnControlQueue(r, [new EXCEPT !.dest = NextInRing(r),
                   !.cut = IF r = Starter THEN "second" ELSE "first"])
            /\ UNCHANGED <<accepting, gvt>>
    /\ UNCHANGED <<counter, entries, agentVars, sendQueue, sending, held, excess, budget>>

\* ProcessSecondCutGvtControl: the LP handles other messages until it has
\* seen the white ones ...
SecondCutArrives(s, r, m) ==
    /\ Arrives(s, r, m) /\ m.type = "control" /\ m.cut = "second"
    /\ held' = [held EXCEPT ![r] = m]
    /\ UNCHANGED <<countVars, accepting, gvt, agentVars, sendQueue, controlQueue,
                   sending, excess, budget>>

AtSecondCut(r, m) ==
    [m EXCEPT !.min = Least(LvtOf(r), @),
              !.red = Least(redTime[r], @),
              !.count[r] = 0]

\* ... and goes on with it then.
SecondCutContinues(r) == LET m == held[r] new == AtSecondCut(r, m) IN
    /\ m # NoMessage
    /\ Outstanding(r, m) <= 0
    /\ SendAtomically => sending[r] = NoMessage
    /\ held' = [held EXCEPT ![r] = NoMessage]
    /\ colour' = [colour EXCEPT ![r] = "white"]
    /\ IF r = Starter
       THEN SendAndSetGvt(new)
       ELSE /\ PutOnControlQueue(r, [new EXCEPT !.dest = NextInRing(r)])
            /\ UNCHANGED <<accepting, gvt>>
    /\ UNCHANGED <<redTime, counter, entries, agentVars, sendQueue, sending, channel,
                   excess, budget>>

Receive(s, r) ==
    \E m \in ToSet(channel[s][r]) :
      \/ r = Starter /\ ReceiveRequest(s, m)
      \/ r \in Clp /\ (PassOn(s, r, m) \/ ReceiveAnti(s, r, m))
      \/ r \in Alp /\ (ReceiveResponse(s, r, m) \/ ReceiveRollback(s, r, m))
      \/ r = Starter /\ ReceiveGvtRequest(s, m)
      \/ ReceiveGvtValue(s, r, m)
      \/ FirstCut(s, r, m)
      \/ SecondCutArrives(s, r, m)

Send(r) == SendControl(r) \/ SendStamp(r) \/ SendCount(r)

\* A step of an LP itself.
Goes(r) == Send(r) \/ SecondCutContinues(r) \/ \E s \in Rank : Receive(s, r)

Next ==
    \/ \E a \in Alp : SendGvtRequest(a) \/ \E t \in 0..MaxTime : SendRequest(a, t)
    \/ \E r \in Rank : Goes(r)

Spec == Init /\ [][Next]_vars

\* ENABLED \E r \in Rank : Goes(r).
SomeLpCanGo ==
    \E r \in Rank :
      \/ sending[r] # NoMessage \/ controlQueue[r] # << >> \/ sendQueue[r] # << >>
      \/ IF held[r] # NoMessage /\ Outstanding(r, held[r]) <= 0 THEN TRUE
         ELSE \E s \in Rank : channel[s][r] # << >>

\* WF_vars(\E r \in Rank : Goes(r)) in terms of what such a step changes.  While there is
\* something to send, to receive or to go on with, some LP does so: a send thread runs,
\* MPI delivers, or a main loop handles what has arrived.
Fairness == []<>~SomeLpCanGo \/ []<><<TRUE>>_<<sending, channel, held>>

FairSpec == Spec /\ Fairness

-----------------------------------------------------------------------------
(***************************************************************************)
(* Properties.                                                             *)
(***************************************************************************)
ControlIn(seq) == {i \in DOMAIN seq : IsControl(seq[i])}

ControlMessages ==
    (UNION {{<<"queue", r, i>> : i \in ControlIn(controlQueue[r])} : r \in Rank})
    \cup (UNION {{<<"channel", sd, i>> : i \in ControlIn(channel[sd[1]][sd[2]])} :
                   sd \in Rank \X Rank})
    \cup {<<"held", r>> : r \in {q \in Rank : held[q] # NoMessage}}

\* There is one control message while a round is on and none between rounds:
\* requests from several agents never start two rounds at once, and no round
\* loses its message (GvtCalculator.cpp:21-44).
OneControlMessage ==
    Cardinality(ControlMessages) = IF accepting THEN 0 ELSE 1

\* The counters of all LPs for a destination add up to the white messages in
\* transit to it, across cuts, colour changes and overlapping rounds, but for what two
\* weaknesses have cost: messages stamped in one colour and counted in the other
\* (Lp.cpp:29-31), and white anti-messages that a CLP passes on and does not count
\* (Clp.cpp:173), though the next one counts them off.
CountersAddUp ==
    \A d \in Rank :
      MapThenSumSet(LAMBDA r : counter[r][d], Rank) = Cardinality(InTransit(d)) + excess[d]

\* What Mattern's algorithm is for (GvtCalculator.h:15-19): no GVT that the
\* starter computes is later than an LVT or than a message still to be handled.
Unhandled ==
    (UNION {ToSet(sendQueue[r]) : r \in Rank})
    \cup {sending[r] : r \in {q \in Rank : sending[q] # NoMessage}}
    \cup (UNION {{m \in ToSet(channel[sd[1]][sd[2]]) : IsSim(m)} : sd \in Rank \X Rank})
GvtIsLowerBound ==
    [][gvt'[Starter] # gvt[Starter] =>
         /\ \A a \in Alp : gvt'[Starter] <= lvt[a]
         /\ \A m \in Unhandled : gvt'[Starter] <= m.time]_vars

\* What an LP waits for in the second cut (GvtCalculator.cpp:182-185) is really on its
\* way, but for what was counted to it in excess: the -1 of missing entries, receipts
\* that are taken off twice and colours that turn back early only shorten the wait.
WaitIsForTransit ==
    \A r \in Rank :
      held[r] # NoMessage =>
        Outstanding(r, held[r]) <= Cardinality(InTransit(r)) + excess[r]

\* A message that was stamped red and counted never comes off the count.  An LP that has
\* only such messages to wait for, and no white one on its way, is stopped, unless white
\* ones come that are yet to be sent.
WaitsInVain ==
    \E r \in Rank :
      /\ held[r] # NoMessage
      /\ Outstanding(r, held[r]) \in 1..excess[r]
      /\ InTransit(r) = {}

\* Every round ends and the starter accepts requests again, unless an LP comes to wait in
\* vain: the wait of the second cut blocks the ring for no other reason, whatever the
\* order of receipts, colour changes, anti-messages and GVT requests.
RoundsEnd == ~accepting ~> accepting \/ WaitsInVain
=============================================================================
