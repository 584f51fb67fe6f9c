------------------------ MODULE GvtCalculatorProofs ------------------------
(***************************************************************************)
(* Proofs about GvtCalculator, for every number of LPs and every bound,    *)
(* with sends that are atomic or not: the ring has one control message     *)
(* while a round is on and none between rounds, and the counters add up to *)
(* the white messages in transit.                                          *)
(*                                                                         *)
(* What lies where is proved for sequences: a control message is on a send *)
(* queue, in a channel or held by an LP, and each step keeps it in its     *)
(* place, moves it to another place, or begins or ends the round.          *)
(***************************************************************************)
EXTENDS GvtCalculator, ListLemmas, FunctionTheorems

(***************************************************************************)
(* Types.                                                                  *)
(***************************************************************************)
\* An agent waits for a request it has made, so an answer moves its LVT to
\* MaxTime + 1 at most.  No LP sends a simulation message to itself.
ToOthers(r) == {m \in SimMessage : m.dest # r}

TypeInv ==
    /\ TypeOK
    /\ awaited \in [Rank -> 0..MaxTime \cup {None}]
    /\ \A r \in Rank : /\ sendQueue[r] \in Seq(ToOthers(r))
                       /\ sending[r] \in ToOthers(r) \cup {NoMessage}

LEMMA Bounds ==
    /\ N \in Nat /\ 1 <= N - 1 /\ C \in Nat /\ 1 <= C /\ C <= N - 1
    /\ MaxTime \in Nat /\ MaxRequests \in Nat /\ MaxEvents \in Nat
    /\ Starter \in Rank /\ Starter \in Clp /\ Alp \subseteq Rank /\ Clp \subseteq Rank
    /\ Clp \cap Alp = {}
    /\ \A r \in Rank : NextInRing(r) \in Rank
    /\ 0 \in Time /\ LONG_MAX \in Time /\ ULONG_MAX \in Time
    /\ 0..MaxTime \subseteq Time
<1>1. /\ N \in Nat /\ 1 <= N - 1 /\ C \in Nat /\ 1 <= C /\ C <= N - 1
      /\ MaxTime \in Nat /\ MaxRequests \in Nat /\ MaxEvents \in Nat
  BY ConstantsAssumption
<1>2. \A r \in Rank : NextInRing(r) \in Rank
  BY <1>1 DEF NextInRing, Rank
<1> QED
  BY <1>1, <1>2 DEF Starter, Alp, Clp, Rank, Time, LONG_MAX, ULONG_MAX

LEMMA WaysThere == \A r, d \in Rank : r # d => Towards[r][d] \in Rank /\ Towards[r][d] # r
BY ConstantsAssumption DEF Rank

\* The kinds of message that can be told apart by their type.
LEMMA Kinds ==
    ASSUME NEW m \in Message
    PROVE  /\ m.dest \in Rank
           /\ IsControl(m) => m \in ControlMessage
           /\ IsSim(m) => m \in SimMessage /\ ~IsControl(m)
           /\ m.type = "value" => m \in ValueMessage
BY DEF Message, RingMessage, SimMessage, SimTypes, ControlMessage, ValueMessage, GvtRequest,
   IsControl, IsSim

LEMMA RingKinds == \A m \in RingMessage : m \in Message /\ ~IsSim(m)
BY DEF Message, RingMessage, ControlMessage, ValueMessage, GvtRequest, IsSim, SimTypes

LEMMA NoMessageIsNone ==
    /\ NoMessage \notin SimMessage
    /\ NoMessage \notin ControlMessage
    /\ \A m \in SimMessage : ~IsControl(m) /\ m \in Message
    /\ \A m \in ControlMessage : IsControl(m)
<1>1. NoMessage.type = "none"
  BY DEF NoMessage
<1> QED
  BY <1>1 DEF SimMessage, SimTypes, ControlMessage, IsControl, Message

LEMMA IsToOthers ==
    ASSUME NEW r \in Rank, NEW m
    PROVE  m \in ToOthers(r) <=> m \in SimMessage /\ m.dest # r
BY DEF ToOthers

\* The operations on queues and channels.
LEMMA QueueTypes ==
    ASSUME NEW S, NEW q \in [Rank -> Seq(S)], NEW r \in Rank
    PROVE  /\ \A m \in S : [q EXCEPT ![r] = Append(@, m)] \in [Rank -> Seq(S)]
           /\ q[r] # << >> => /\ Head(q[r]) \in S
                              /\ [q EXCEPT ![r] = Tail(@)] \in [Rank -> Seq(S)]
           /\ \A t \in Seq(S) : [q EXCEPT ![r] = @ \o t] \in [Rank -> Seq(S)]
OBVIOUS

LEMMA ControlQueueTypes ==
    ASSUME TypeOK, NEW r \in Rank
    PROVE  /\ \A m \in RingMessage :
                [controlQueue EXCEPT ![r] = Append(@, m)] \in [Rank -> Seq(RingMessage)]
           /\ controlQueue[r] # << >> =>
                /\ Head(controlQueue[r]) \in RingMessage
                /\ [controlQueue EXCEPT ![r] = Tail(@)] \in [Rank -> Seq(RingMessage)]
           /\ \A t \in Seq(RingMessage) :
                [controlQueue EXCEPT ![r] = @ \o t] \in [Rank -> Seq(RingMessage)]
<1>1. controlQueue \in [Rank -> Seq(RingMessage)]
  BY DEF TypeOK
<1> QED
  BY <1>1, QueueTypes

LEMMA SendQueueTypes ==
    ASSUME TypeInv, NEW r \in Rank
    PROVE  /\ sendQueue[r] # << >> =>
                /\ Head(sendQueue[r]) \in ToOthers(r)
                /\ Tail(sendQueue[r]) \in Seq(ToOthers(r))
           /\ \A t \in Seq(ToOthers(r)) : sendQueue[r] \o t \in Seq(ToOthers(r))
<1>1. sendQueue[r] \in Seq(ToOthers(r))
  BY DEF TypeInv
<1> QED
  BY <1>1

\* What an LP puts on its own send queue, or leaves of it.
LEMMA NewSendQueue ==
    ASSUME TypeInv, NEW r \in Rank, NEW q \in Seq(ToOthers(r)),
           sendQueue' = [sendQueue EXCEPT ![r] = q]
    PROVE  /\ sendQueue' \in [Rank -> Seq(SimMessage)]
           /\ \A x \in Rank : sendQueue'[x] \in Seq(ToOthers(x))
<1>1. /\ sendQueue \in [Rank -> Seq(SimMessage)]
      /\ \A x \in Rank : sendQueue[x] \in Seq(ToOthers(x))
  BY DEF TypeInv, TypeOK
<1>2. ToOthers(r) \subseteq SimMessage
  BY DEF ToOthers
<1>3. q \in Seq(SimMessage)
  BY <1>2
<1> QED
  BY <1>1, <1>3

LEMMA PutTypes ==
    ASSUME TypeInv, NEW r \in Rank, NEW t \in Seq(ToOthers(r)), PutOnSendQueue(r, t)
    PROVE  /\ sendQueue' \in [Rank -> Seq(SimMessage)]
           /\ \A x \in Rank : sendQueue'[x] \in Seq(ToOthers(x))
<1>1. PICK q \in Seq(ToOthers(r)) : q = sendQueue[r] \o t
  BY SendQueueTypes
<1>2. sendQueue' = [sendQueue EXCEPT ![r] = q]
  BY <1>1 DEF PutOnSendQueue
<1> QED
  BY <1>2, NewSendQueue

LEMMA InOrderTypes ==
    ASSUME NEW S, IsFiniteSet(S), NEW f \in InOrder(S)
    PROVE  \E n \in Nat : DOMAIN f = 1..n /\ f \in [1..n -> S]
BY FS_CardinalityType DEF InOrder

LEMMA TimesAreFinite == \A S \in SUBSET Time : IsFiniteSet(S)
<1>1. IsFiniteSet(Time)
  BY Bounds, FS_Interval DEF Time, ULONG_MAX
<1> QED
  BY <1>1, FS_Subset

LEMMA RanksAreFinite == \A S \in SUBSET Rank : IsFiniteSet(S)
<1>1. IsFiniteSet(Rank)
  BY Bounds, FS_Interval DEF Rank
<1> QED
  BY <1>1, FS_Subset

LEMMA ChannelTypes ==
    ASSUME TypeOK, NEW s \in Rank, NEW r \in Rank
    PROVE  /\ \A m \in Message : [channel EXCEPT ![s][r] = Append(@, m)]
                                   \in [Rank -> [Rank -> Seq(Message)]]
           /\ channel[s][r] # << >> =>
                /\ Head(channel[s][r]) \in Message
                /\ [channel EXCEPT ![s][r] = Tail(@)] \in [Rank -> [Rank -> Seq(Message)]]
<1>1. channel \in [Rank -> [Rank -> Seq(Message)]]
  BY DEF TypeOK
<1> QED
  BY <1>1

LEMMA CountTypes ==
    ASSUME TypeOK, NEW r \in Rank, NEW d \in Rank, NEW by \in Int, Count(r, d, by)
    PROVE  counter' \in [Rank -> [Rank -> Int]] /\ entries' \in [Rank -> SUBSET Rank]
<1>1. counter \in [Rank -> [Rank -> Int]] /\ entries \in [Rank -> SUBSET Rank]
  BY DEF TypeOK
<1>2. [counter[r] EXCEPT ![d] = @ + by] \in [Rank -> Int]
  BY <1>1
<1>3. counter' = [counter EXCEPT ![r] = [counter[r] EXCEPT ![d] = @ + by]]
  BY DEF Count
<1>4. entries' = [entries EXCEPT ![r] = @ \cup {d}]
  BY DEF Count
<1> QED
  BY <1>1, <1>2, <1>3, <1>4

LEMMA SpendTypes ==
    ASSUME TypeOK, SpendEvent
    PROVE  budget' \in [requests: [Alp -> Nat], events: Nat]
<1>1. budget \in [requests: [Alp -> Nat], events: Nat] /\ budget.events > 0
  BY DEF TypeOK, SpendEvent
<1>2. PICK n \in Nat : n = budget.events - 1
  BY <1>1
<1>3. budget' = [budget EXCEPT !.events = n]
  BY <1>2 DEF SpendEvent
<1> QED
  BY <1>1, <1>3

LEMMA InitTypes == Init => TypeInv
<1> SUFFICES ASSUME Init PROVE TypeInv
  OBVIOUS
<1>1. budget \in [requests: [Alp -> Nat], events: Nat]
  BY Bounds DEF Init
<1>2. /\ counter \in [Rank -> [Rank -> Int]]
      /\ channel \in [Rank -> [Rank -> Seq(Message)]]
  BY DEF Init
<1>3. /\ sendQueue \in [Rank -> Seq(SimMessage)]
      /\ controlQueue \in [Rank -> Seq(RingMessage)]
  BY DEF Init
<1>4. /\ colour \in [Rank -> Colour] /\ redTime \in [Rank -> Time]
      /\ entries \in [Rank -> SUBSET Rank]
      /\ gvt \in [Rank -> Time] /\ lvt \in [Rank -> Time]
  BY Bounds DEF Init, Colour
<1>5. /\ awaited \in [Rank -> Time \cup {None}]
      /\ awaited \in [Rank -> 0..MaxTime \cup {None}]
      /\ sendList \in [Rank -> SUBSET Time]
      /\ sending \in [Rank -> SimMessage \cup {NoMessage}]
      /\ held \in [Rank -> ControlMessage \cup {NoMessage}]
      /\ accepting \in BOOLEAN /\ excess \in [Rank -> Int]
  BY DEF Init
<1>6. \A r \in Rank : /\ sendQueue[r] \in Seq(ToOthers(r))
                      /\ sending[r] \in ToOthers(r) \cup {NoMessage}
  BY DEF Init
<1> QED
  BY <1>1, <1>2, <1>3, <1>4, <1>5, <1>6 DEF TypeInv, TypeOK

-----------------------------------------------------------------------------
(***************************************************************************)
(* Types are kept.                                                         *)
(***************************************************************************)
LEMMA EnvironmentKeepsTypes ==
    ASSUME TypeInv, NEW a \in Alp,
           SendGvtRequest(a) \/ \E t \in 0..MaxTime : SendRequest(a, t)
    PROVE  TypeInv'
<1>1. TypeOK /\ a \in Rank
  BY Bounds DEF TypeInv
<1>2. CASE SendGvtRequest(a)
  <2>1. budget' \in [requests: [Alp -> Nat], events: Nat]
    BY <1>1, <1>2, SpendTypes DEF SendGvtRequest
  <2>2. [type |-> "gvtRequest", dest |-> Starter] \in RingMessage
    BY Bounds DEF RingMessage, GvtRequest
  <2>3. controlQueue' \in [Rank -> Seq(RingMessage)]
    BY <1>1, <1>2, <2>2, ControlQueueTypes DEF SendGvtRequest
  <2> QED
    BY <1>2, <2>1, <2>3 DEF SendGvtRequest, TypeInv, TypeOK, countVars, agentVars
<1>3. ASSUME NEW t \in 0..MaxTime, SendRequest(a, t) PROVE TypeInv'
  <2>1. budget' \in [requests: [Alp -> Nat], events: Nat]
    <3>1. budget \in [requests: [Alp -> Nat], events: Nat] /\ budget.requests[a] > 0
      BY <1>1, <1>3 DEF TypeOK, SendRequest
    <3>2. PICK g \in [Alp -> Nat] : g = budget.requests
      BY <3>1
    <3>3. PICK f \in [Alp -> Nat] : f = [g EXCEPT ![a] = g[a] - 1]
      <4>1. g[a] - 1 \in Nat
        BY <3>1, <3>2
      <4> QED
        BY <4>1
    <3>4. budget' = [budget EXCEPT !.requests = f]
      BY <1>3, <3>1, <3>2, <3>3 DEF SendRequest
    <3> QED
      BY <3>1, <3>4
  <2>2. PICK m : m = [type |-> "request", agent |-> a, time |-> t,
                      dest |-> Towards[a][Starter], colour |-> "white"]
    OBVIOUS
  <2>3. m \in ToOthers(a)
    BY <1>1, <2>2, Bounds, WaysThere DEF ToOthers, SimMessage, SimTypes, Colour
  <2>4. PICK q \in Seq(ToOthers(a)) : q = Append(sendQueue[a], m)
    <3>1. PICK q \in Seq(ToOthers(a)) : q = sendQueue[a]
      BY <1>1 DEF TypeInv
    <3>2. Append(q, m) \in Seq(ToOthers(a))
      BY <2>3
    <3> QED
      BY <3>1, <3>2
  <2>5. sendQueue' = [sendQueue EXCEPT ![a] = q]
    BY <1>3, <2>2, <2>4 DEF SendRequest
  <2>6. /\ sendQueue' \in [Rank -> Seq(SimMessage)]
        /\ \A x \in Rank : sendQueue'[x] \in Seq(ToOthers(x))
    BY <1>1, <2>5, NewSendQueue
  <2>7. /\ awaited' \in [Rank -> 0..MaxTime \cup {None}]
        /\ awaited' \in [Rank -> Time \cup {None}]
    BY <1>1, <1>3, Bounds DEF SendRequest, TypeOK, TypeInv
  <2> QED
    BY <1>3, <2>1, <2>6, <2>7 DEF SendRequest, TypeInv, TypeOK, countVars
<1> QED
  BY <1>2, <1>3

LEMMA SendKeepsTypes ==
    ASSUME TypeInv, NEW r \in Rank, Send(r)
    PROVE  TypeInv'
<1>1. TypeOK
  BY DEF TypeInv
<1>2. CASE SendControl(r)
  <2>1. /\ Head(controlQueue[r]) \in RingMessage
        /\ controlQueue' \in [Rank -> Seq(RingMessage)]
    BY <1>1, <1>2, ControlQueueTypes DEF SendControl
  <2>2. channel' \in [Rank -> [Rank -> Seq(Message)]]
    BY <1>1, <1>2, <2>1, RingKinds, Kinds, ChannelTypes DEF SendControl
  <2> QED
    BY <1>2, <2>1, <2>2 DEF SendControl, TypeInv, TypeOK, countVars, agentVars
<1>3. CASE SendStamp(r)
  <2>1. PICK m \in ToOthers(r), q \in Seq(ToOthers(r)) :
          m = Head(sendQueue[r]) /\ q = Tail(sendQueue[r])
    BY <1>3, SendQueueTypes DEF SendStamp
  <2>2. /\ sendQueue' \in [Rank -> Seq(SimMessage)]
        /\ \A x \in Rank : sendQueue'[x] \in Seq(ToOthers(x))
    <3>1. sendQueue' = [sendQueue EXCEPT ![r] = q]
      BY <1>3, <2>1 DEF SendStamp
    <3> QED
      BY <3>1, NewSendQueue
  <2>3. PICK w \in ToOthers(r) : sending' = [sending EXCEPT ![r] = w]
    <3>1. colour[r] \in Colour
      BY <1>1 DEF TypeOK
    <3>2. [m EXCEPT !.colour = colour[r]] \in ToOthers(r)
      BY <3>1 DEF ToOthers, SimMessage
    <3> QED
      BY <1>3, <2>1, <3>2 DEF SendStamp
  <2>4. /\ sending' \in [Rank -> SimMessage \cup {NoMessage}]
        /\ \A x \in Rank : sending'[x] \in ToOthers(x) \cup {NoMessage}
    <3>1. w \in SimMessage
      BY IsToOthers
    <3>2. /\ sending \in [Rank -> SimMessage \cup {NoMessage}]
          /\ \A x \in Rank : sending[x] \in ToOthers(x) \cup {NoMessage}
      BY DEF TypeInv, TypeOK
    <3> QED
      BY <2>3, <3>1, <3>2
  <2>5. sendList' \in [Rank -> SUBSET Time]
    <3>1. m.time \in Time
      BY DEF ToOthers, SimMessage
    <3> QED
      BY <1>1, <1>3, <2>1, <3>1 DEF SendStamp, TypeOK
  <2> QED
    BY <1>3, <2>2, <2>4, <2>5 DEF SendStamp, TypeInv, TypeOK, countVars
<1>4. CASE SendCount(r)
  <2>1. PICK m : m = sending[r]
    OBVIOUS
  <2>2. m \in SimMessage /\ m \in Message /\ m.dest \in Rank /\ m.time \in Time
    BY <1>1, <1>4, <2>1 DEF SendCount, TypeOK, Message, SimMessage
  <2>3. channel' \in [Rank -> [Rank -> Seq(Message)]]
    <3>1. channel' = [channel EXCEPT ![r][m.dest] = Append(@, m)]
      BY <1>4, <2>1 DEF SendCount
    <3>2. \A d \in Rank, x \in Message : [channel EXCEPT ![r][d] = Append(@, x)]
                                               \in [Rank -> [Rank -> Seq(Message)]]
      BY <1>1, ChannelTypes
    <3> QED
      BY <2>2, <3>1, <3>2
  <2>4. counter' \in [Rank -> [Rank -> Int]] /\ entries' \in [Rank -> SUBSET Rank]
    <3>1. Count(r, m.dest, 1) \/ UNCHANGED <<counter, entries>>
      BY <1>4, <2>1, Zenon DEF SendCount
    <3>2. CASE Count(r, m.dest, 1)
      BY <1>1, <2>2, <3>2, CountTypes
    <3> QED
      BY <1>1, <3>1, <3>2 DEF TypeOK
  <2>5. redTime' \in [Rank -> Time]
    <3>1. redTime[r] \in Time /\ redTime \in [Rank -> Time]
      BY <1>1 DEF TypeOK
    <3>2. Least(redTime[r], m.time) \in Time
      BY <2>2, <3>1 DEF Least
    <3> QED
      BY <1>4, <2>1, <3>1, <3>2 DEF SendCount
  <2>6. excess' \in [Rank -> Int]
    <3>1. PICK up \in Int : up = IF CountsSent(r, m) THEN 1 ELSE 0
      OBVIOUS
    <3>2. PICK down \in Int : down = IF m.colour = "white" THEN 1 ELSE 0
      OBVIOUS
    <3>3. excess' = [excess EXCEPT ![m.dest] = @ + up - down]
      BY <1>4, <2>1, <3>1, <3>2 DEF SendCount
    <3> QED
      BY <1>1, <2>2, <3>3 DEF TypeOK
  <2>7. /\ sending' \in [Rank -> SimMessage \cup {NoMessage}]
        /\ \A x \in Rank : sending'[x] \in ToOthers(x) \cup {NoMessage}
    BY <1>1, <1>4 DEF SendCount, TypeOK, TypeInv
  <2> QED
    BY <1>4, <2>3, <2>4, <2>5, <2>6, <2>7 DEF SendCount, TypeInv, TypeOK, agentVars
<1> QED
  BY <1>2, <1>3, <1>4 DEF Send

\* The channel a message has arrived from.
LEMMA Arriving ==
    ASSUME TypeOK, NEW s \in Rank, NEW r \in Rank, NEW m, Arrives(s, r, m)
    PROVE  /\ m \in Message /\ channel[s][r] # << >> /\ m = Head(channel[s][r])
           /\ channel' \in [Rank -> [Rank -> Seq(Message)]]
BY ChannelTypes DEF Arrives

LEMMA CountingReceived ==
    ASSUME TypeOK, NEW r \in Rank, NEW m, CountReceived(r, m)
    PROVE  counter' \in [Rank -> [Rank -> Int]] /\ entries' \in [Rank -> SUBSET Rank]
<1>1. CASE m.colour = "white"
  BY <1>1, CountTypes DEF CountReceived
<1>2. CASE m.colour # "white"
  BY <1>2 DEF CountReceived, TypeOK
<1> QED
  BY <1>1, <1>2

\* What all receipts of simulation messages have in common.
ReceivesSim(s, r, m) ==
    \/ r = Starter /\ ReceiveRequest(s, m)
    \/ r \in Clp /\ (PassOn(s, r, m) \/ ReceiveAnti(s, r, m))
    \/ r \in Alp /\ (ReceiveResponse(s, r, m) \/ ReceiveRollback(s, r, m))

LEMMA Receiving ==
    ASSUME NEW s \in Rank, NEW r \in Rank, NEW m, ReceivesSim(s, r, m)
    PROVE  /\ Arrives(s, r, m) /\ CountReceived(r, m) /\ IsSim(m)
           /\ UNCHANGED <<colour, redTime, accepting, gvt, controlQueue, sending, held, excess>>
<1>1. CASE r = Starter /\ ReceiveRequest(s, m)
  BY <1>1 DEF ReceiveRequest, IsSim, SimTypes
<1>2. CASE PassOn(s, r, m)
  BY <1>2 DEF PassOn, IsSim, SimTypes
<1>3. CASE ReceiveAnti(s, r, m)
  BY <1>3 DEF ReceiveAnti, IsSim, SimTypes
<1>4. CASE ReceiveResponse(s, r, m)
  BY <1>4 DEF ReceiveResponse, IsSim, SimTypes
<1>5. CASE ReceiveRollback(s, r, m)
  BY <1>5 DEF ReceiveRollback, IsSim, SimTypes
<1> QED
  BY <1>1, <1>2, <1>3, <1>4, <1>5 DEF ReceivesSim

\* What is left to show of the types then.
ReceiverTypes(r) ==
    /\ lvt' \in [Rank -> Time]
    /\ awaited' \in [Rank -> 0..MaxTime \cup {None}]
    /\ sendList' \in [Rank -> SUBSET Time]
    /\ sendQueue' \in [Rank -> Seq(SimMessage)]
    /\ \A x \in Rank : sendQueue'[x] \in Seq(ToOthers(x))
    /\ budget' \in [requests: [Alp -> Nat], events: Nat]

LEMMA RequestTypes ==
    ASSUME TypeInv, NEW s \in Rank, NEW m \in SimMessage, ReceiveRequest(s, m)
    PROVE  ReceiverTypes(Starter)
<1> DEFINE For(type, a, t) == [type |-> type, agent |-> a, dest |-> Towards[Starter][a],
                               time |-> t, colour |-> "white"]
           answer == IF m.type = "request" THEN << For("response", m.agent, m.time) >>
                                           ELSE << >>
<1>1. TypeOK /\ m.agent \in Alp /\ m.time \in Time
  BY DEF TypeInv, SimMessage
<1>2. \A type \in SimTypes, a \in Alp, t \in Time : For(type, a, t) \in ToOthers(Starter)
  <2>1. \A a \in Alp : a \in Rank /\ a # Starter
    BY Bounds
  <2> QED
    BY <2>1, Bounds, WaysThere DEF ToOthers, SimMessage, Colour
<1>3. answer \in Seq(ToOthers(Starter))
  <2>1. For("response", m.agent, m.time) \in ToOthers(Starter)
    BY <1>1, <1>2 DEF SimTypes
  <2> QED
    BY <2>1
<1>4. \A a \in Alp, t \in m.time..MaxTime : For("rollback", a, t) \in ToOthers(Starter)
  <2>1. \A t \in m.time..MaxTime : t \in Time
    BY <1>1, Bounds DEF Time, ULONG_MAX
  <2> QED
    BY <1>2, <2>1 DEF SimTypes
<1>5. \/ PutOnSendQueue(Starter, answer) /\ UNCHANGED budget
      \/ \E a \in Alp : \E t \in m.time..MaxTime :
           SpendEvent /\ PutOnSendQueue(Starter, Append(answer, For("rollback", a, t)))
  BY Zenon DEF ReceiveRequest
<1> HIDE DEF answer, For
<1>6. /\ sendQueue' \in [Rank -> Seq(SimMessage)]
      /\ \A x \in Rank : sendQueue'[x] \in Seq(ToOthers(x))
      /\ budget' \in [requests: [Alp -> Nat], events: Nat]
  <2>1. ASSUME PutOnSendQueue(Starter, answer), UNCHANGED budget
        PROVE  /\ sendQueue' \in [Rank -> Seq(SimMessage)]
               /\ \A x \in Rank : sendQueue'[x] \in Seq(ToOthers(x))
               /\ budget' \in [requests: [Alp -> Nat], events: Nat]
    BY <1>1, <1>3, <2>1, Bounds, PutTypes DEF TypeOK
  <2>2. ASSUME NEW a \in Alp, NEW t \in m.time..MaxTime, SpendEvent,
               PutOnSendQueue(Starter, Append(answer, For("rollback", a, t)))
        PROVE  /\ sendQueue' \in [Rank -> Seq(SimMessage)]
               /\ \A x \in Rank : sendQueue'[x] \in Seq(ToOthers(x))
               /\ budget' \in [requests: [Alp -> Nat], events: Nat]
    <3>1. PICK b : b = For("rollback", a, t)
      OBVIOUS
    <3>2. Append(answer, b) \in Seq(ToOthers(Starter))
      BY <1>3, <1>4, <3>1
    <3> QED
      BY <1>1, <2>2, <3>1, <3>2, Bounds, PutTypes, SpendTypes
  <2> QED
    BY <1>5, <2>1, <2>2
<1> QED
  BY <1>6 DEF ReceiveRequest, agentVars, ReceiverTypes, TypeInv, TypeOK

LEMMA PassOnTypes ==
    ASSUME TypeInv, NEW s \in Rank, NEW r \in Clp, NEW m \in SimMessage, PassOn(s, r, m)
    PROVE  ReceiverTypes(r)
<1>1. r \in Rank /\ TypeOK
  BY Bounds DEF TypeInv
<1>2. PICK target : target = IF m.type \in {"request", "undo"} THEN Starter ELSE m.agent
  OBVIOUS
<1>3. target \in Rank /\ target # r
  BY <1>2, Bounds DEF PassOn, SimMessage
<1>4. PICK b : b = [m EXCEPT !.dest = Towards[r][target]]
  OBVIOUS
<1>5. b \in ToOthers(r)
  BY <1>1, <1>3, <1>4, WaysThere DEF ToOthers, SimMessage
<1>6. << b >> \in Seq(ToOthers(r))
  BY <1>5
<1>7. PutOnSendQueue(r, << b >>)
  BY <1>2, <1>4 DEF PassOn
<1> QED
  BY <1>1, <1>6, <1>7, PutTypes DEF PassOn, agentVars, ReceiverTypes, TypeInv, TypeOK

LEMMA AntiTypes ==
    ASSUME TypeInv, NEW s \in Rank, NEW r \in Clp, NEW m \in SimMessage, ReceiveAnti(s, r, m)
    PROVE  ReceiverTypes(r)
<1>1. r \in Rank /\ TypeOK
  BY Bounds DEF TypeInv
<1>2. ASSUME NEW on \in SUBSET (Neighbours(r) \ {Towards[r][m.agent]}),
             NEW port \in InOrder(on),
             PutOnSendQueue(r, [i \in DOMAIN port |-> [m EXCEPT !.dest = port[i]]])
      PROVE  /\ sendQueue' \in [Rank -> Seq(SimMessage)]
             /\ \A x \in Rank : sendQueue'[x] \in Seq(ToOthers(x))
  <2>1. on \in SUBSET Rank /\ \A q \in on : q # r
    BY <1>1, Bounds, WaysThere DEF Neighbours
  <2>2. PICK n \in Nat : DOMAIN port = 1..n /\ port \in [1..n -> on]
    BY <2>1, RanksAreFinite, InOrderTypes
  <2>3. \A q \in on : [m EXCEPT !.dest = q] \in ToOthers(r)
    BY <2>1 DEF ToOthers, SimMessage
  <2>4. PICK t : t = [i \in DOMAIN port |-> [m EXCEPT !.dest = port[i]]]
    OBVIOUS
  <2>5. t \in Seq(ToOthers(r))
    BY <2>2, <2>3, <2>4
  <2> QED
    BY <1>1, <1>2, <2>4, <2>5, PutTypes
<1>3. /\ sendQueue' \in [Rank -> Seq(SimMessage)]
      /\ \A x \in Rank : sendQueue'[x] \in Seq(ToOthers(x))
  BY <1>1, <1>2 DEF ReceiveAnti, TypeInv, TypeOK
<1> QED
  BY <1>3 DEF ReceiveAnti, agentVars, ReceiverTypes, TypeInv, TypeOK

LEMMA ResponseTypes ==
    ASSUME TypeInv, NEW s \in Rank, NEW r \in Alp, NEW m \in SimMessage, ReceiveResponse(s, r, m)
    PROVE  ReceiverTypes(r)
<1>1. r \in Rank /\ m.time \in Time
  BY Bounds DEF SimMessage
<1>2. /\ lvt \in [Rank -> Time] /\ awaited \in [Rank -> 0..MaxTime \cup {None}]
      /\ awaited[r] \in 0..MaxTime \cup {None}
  BY <1>1 DEF TypeInv, TypeOK
<1>3. lvt' \in [Rank -> Time] /\ awaited' \in [Rank -> 0..MaxTime \cup {None}]
  <2>1. CASE m.time = awaited[r] /\ lvt' = [lvt EXCEPT ![r] = m.time + 1]
             /\ awaited' = [awaited EXCEPT ![r] = None]
    <3>1. m.time \in 0..MaxTime
      BY <1>1, <1>2, <2>1, Bounds DEF Time, None
    <3>2. m.time + 1 \in Time
      BY <3>1, Bounds DEF Time, ULONG_MAX
    <3> QED
      BY <1>2, <2>1, <3>2
  <2> QED
    BY <1>2, <2>1 DEF ReceiveResponse
<1> QED
  BY <1>3 DEF ReceiveResponse, ReceiverTypes, TypeInv, TypeOK

LEMMA RollbackTypes ==
    ASSUME TypeInv, NEW s \in Rank, NEW r \in Alp, NEW m \in SimMessage, ReceiveRollback(s, r, m)
    PROVE  ReceiverTypes(r)
<1> DEFINE undone == {t \in sendList[r] : t >= m.time}
           Anti(type, t) == [type |-> type, agent |-> r, dest |-> Towards[r][Starter],
                             time |-> t, colour |-> "white"]
           RollsBackTo(t) == /\ lvt' = [lvt EXCEPT ![r] = t]
                             /\ awaited' = [awaited EXCEPT ![r] = None]
                             /\ sendList' = [sendList EXCEPT ![r] = @ \ undone]
<1>1. r \in Rank /\ r # Starter /\ m.time \in Time /\ TypeOK
  BY Bounds DEF SimMessage, TypeInv
<1>2. /\ lvt \in [Rank -> Time] /\ awaited \in [Rank -> 0..MaxTime \cup {None}]
      /\ sendList \in [Rank -> SUBSET Time] /\ gvt[r] \in Time
      /\ budget \in [requests: [Alp -> Nat], events: Nat]
  BY <1>1 DEF TypeInv, TypeOK
<1>3. undone \in SUBSET Time
  BY <1>1, <1>2
<1>4. \A t \in Time, type \in {"anti", "undo"} : Anti(type, t) \in ToOthers(r)
  BY <1>1, Bounds, WaysThere DEF ToOthers, SimMessage, SimTypes, Colour
<1>5. \/ UNCHANGED <<agentVars, sendQueue, budget>>
      \/ /\ RollsBackTo(m.time)
         /\ \E queries \in SUBSET undone : \E t \in InOrder(undone) :
              PutOnSendQueue(r, [i \in DOMAIN t |->
                Anti(IF t[i] \in queries THEN "anti" ELSE "undo", t[i])])
         /\ UNCHANGED budget
      \/ /\ RollsBackTo(gvt[r])
         /\ budget' = [budget EXCEPT !.requests[r] = 0]
         /\ UNCHANGED sendQueue
  BY Zenon DEF ReceiveRollback
<1> HIDE DEF undone, Anti
<1>6. \A t \in Time : RollsBackTo(t) =>
        /\ lvt' \in [Rank -> Time] /\ awaited' \in [Rank -> 0..MaxTime \cup {None}]
        /\ sendList' \in [Rank -> SUBSET Time]
  BY <1>2
<1> HIDE DEF RollsBackTo
<1>7. ASSUME NEW queries \in SUBSET undone, NEW t \in InOrder(undone),
             PutOnSendQueue(r, [i \in DOMAIN t |->
               Anti(IF t[i] \in queries THEN "anti" ELSE "undo", t[i])])
      PROVE  /\ sendQueue' \in [Rank -> Seq(SimMessage)]
             /\ \A x \in Rank : sendQueue'[x] \in Seq(ToOthers(x))
  <2>1. PICK n \in Nat : DOMAIN t = 1..n /\ t \in [1..n -> undone]
    BY <1>3, TimesAreFinite, InOrderTypes
  <2>2. PICK q : q = [i \in DOMAIN t |->
                        Anti(IF t[i] \in queries THEN "anti" ELSE "undo", t[i])]
    OBVIOUS
  <2>3. q \in Seq(ToOthers(r))
    BY <1>3, <1>4, <2>1, <2>2
  <2> QED
    BY <1>1, <1>7, <2>2, <2>3, PutTypes
<1>8. CASE UNCHANGED <<agentVars, sendQueue, budget>>
  BY <1>8 DEF agentVars, ReceiverTypes, TypeInv, TypeOK
<1>9. CASE /\ RollsBackTo(m.time)
           /\ \E queries \in SUBSET undone : \E t \in InOrder(undone) :
                PutOnSendQueue(r, [i \in DOMAIN t |->
                  Anti(IF t[i] \in queries THEN "anti" ELSE "undo", t[i])])
           /\ UNCHANGED budget
  BY <1>1, <1>2, <1>6, <1>7, <1>9 DEF ReceiverTypes
<1>10. CASE /\ RollsBackTo(gvt[r])
            /\ budget' = [budget EXCEPT !.requests[r] = 0]
            /\ UNCHANGED sendQueue
  <2>1. budget' \in [requests: [Alp -> Nat], events: Nat]
    BY <1>2, <1>10
  <2>2. /\ sendQueue' \in [Rank -> Seq(SimMessage)]
        /\ \A x \in Rank : sendQueue'[x] \in Seq(ToOthers(x))
    BY <1>10 DEF TypeInv, TypeOK
  <2> QED
    BY <1>2, <1>6, <1>10, <2>1, <2>2 DEF ReceiverTypes
<1> QED
  BY <1>5, <1>8, <1>9, <1>10

LEMMA ReceiveSimKeepsTypes ==
    ASSUME TypeInv, NEW s \in Rank, NEW r \in Rank, NEW m, ReceivesSim(s, r, m)
    PROVE  TypeInv'
<1>1. /\ Arrives(s, r, m) /\ CountReceived(r, m) /\ IsSim(m)
      /\ UNCHANGED <<colour, redTime, accepting, gvt, controlQueue, sending, held, excess>>
  BY Receiving
<1>2. TypeOK
  BY DEF TypeInv
<1>3. m \in SimMessage /\ channel' \in [Rank -> [Rank -> Seq(Message)]]
  BY <1>1, <1>2, Arriving, Kinds
<1>4. counter' \in [Rank -> [Rank -> Int]] /\ entries' \in [Rank -> SUBSET Rank]
  BY <1>1, <1>2, CountingReceived
<1>5. ReceiverTypes(r)
  BY <1>3, RequestTypes, PassOnTypes, AntiTypes, ResponseTypes, RollbackTypes DEF ReceivesSim
<1>6. awaited' \in [Rank -> Time \cup {None}]
  BY <1>5, Bounds DEF ReceiverTypes
<1> QED
  BY <1>1, <1>3, <1>4, <1>5, <1>6 DEF ReceiverTypes, TypeInv, TypeOK

\* What the handlers of the ring send on.
LEMMA Cuts ==
    ASSUME TypeOK, NEW m \in ControlMessage, NEW r \in Rank
    PROVE  /\ AtFirstCut(r, m) \in ControlMessage
           /\ AtSecondCut(r, m) \in ControlMessage
           /\ m.min \in Time /\ m.red \in Time
<1>1. /\ m.min \in Time /\ m.red \in Time /\ m.count \in [Rank -> Int]
      /\ redTime[r] \in Time /\ LvtOf(r) \in Time
  BY Bounds DEF ControlMessage, TypeOK, LvtOf, Alp
<1>2. \A d \in Rank : CounterOf(r, d) \in Int /\ m.count[d] \in Int
  BY SMTT(30), <1>1 DEF CounterOf, TypeOK
<1>3. Least(LvtOf(r), m.min) \in Time /\ Least(redTime[r], m.red) \in Time
  BY <1>1 DEF Least
<1>4. /\ [d \in Rank |-> m.count[d] + CounterOf(r, d)] \in [Rank -> Int]
      /\ [m.count EXCEPT ![r] = 0] \in [Rank -> Int]
  BY <1>1, <1>2
<1>5. AtFirstCut(r, m) = [m EXCEPT !.min = Least(LvtOf(r), m.min),
                          !.count = [d \in Rank |-> m.count[d] + CounterOf(r, d)]]
  BY DEF AtFirstCut, ControlMessage
<1>6. AtSecondCut(r, m) = [m EXCEPT !.min = Least(LvtOf(r), m.min),
                           !.red = Least(redTime[r], m.red),
                           !.count = [m.count EXCEPT ![r] = 0]]
  BY DEF AtSecondCut, ControlMessage
<1> QED
  BY <1>1, <1>3, <1>4, <1>5, <1>6 DEF ControlMessage

LEMMA SettingGvt ==
    ASSUME TypeOK, NEW m \in ControlMessage, SendAndSetGvt(m)
    PROVE  /\ controlQueue' \in [Rank -> Seq(RingMessage)]
           /\ gvt' \in [Rank -> Time] /\ accepting' = TRUE
<1> DEFINE value == Least(m.min, m.red)
           values == [r \in 1..(N - 1) |-> [type |-> "value", dest |-> r, gvt |-> value]]
<1>1. value \in Time
  BY DEF ControlMessage, Least
<1>2. controlQueue' = [controlQueue EXCEPT ![Starter] = @ \o values]
  BY DEF SendAndSetGvt
<1>3. /\ gvt' = [gvt EXCEPT ![Starter] = value]
      /\ accepting' = TRUE
  BY DEF SendAndSetGvt
<1> HIDE DEF value
<1>4. \A r \in 1..(N - 1) : [type |-> "value", dest |-> r, gvt |-> value] \in RingMessage
  BY <1>1, Bounds DEF RingMessage, ValueMessage, Rank
<1>5. values \in Seq(RingMessage)
  BY <1>4, Bounds
<1> HIDE DEF values
<1> QED
  BY <1>1, <1>2, <1>3, <1>5, Bounds, ControlQueueTypes DEF TypeOK

LEMMA ReceiveRoundKeepsTypes ==
    ASSUME TypeInv, NEW s \in Rank, NEW r \in Rank, NEW m,
           \/ r = Starter /\ ReceiveGvtRequest(s, m)
           \/ ReceiveGvtValue(s, r, m)
           \/ FirstCut(s, r, m)
           \/ SecondCutArrives(s, r, m)
    PROVE  TypeInv'
<1>1. TypeOK
  BY DEF TypeInv
<1>2. Arrives(s, r, m)
  BY DEF ReceiveGvtRequest, ReceiveGvtValue, FirstCut, SecondCutArrives
<1>3. m \in Message /\ channel' \in [Rank -> [Rank -> Seq(Message)]]
  BY <1>1, <1>2, Arriving
<1>4. CASE r = Starter /\ ReceiveGvtRequest(s, m)
  <2> DEFINE first == [type |-> "control", dest |-> NextInRing(r), cut |-> "first",
                       min |-> LONG_MAX, red |-> LONG_MAX, count |-> [d \in Rank |-> 0]]
  <2>1. first \in RingMessage
    BY Bounds DEF RingMessage, ControlMessage
  <2>2. \/ /\ accepting' = FALSE
           /\ colour' = [colour EXCEPT ![r] = "white"]
           /\ controlQueue' = [controlQueue EXCEPT ![r] = Append(@, first)]
        \/ UNCHANGED <<accepting, colour, controlQueue>>
    BY <1>4 DEF ReceiveGvtRequest, PutOnControlQueue
  <2> HIDE DEF first
  <2>3. controlQueue' \in [Rank -> Seq(RingMessage)]
    <3>1. CASE controlQueue' = [controlQueue EXCEPT ![r] = Append(@, first)]
      BY <1>1, <2>1, <3>1, ControlQueueTypes
    <3> QED
      BY <1>1, <2>2, <3>1 DEF TypeOK
  <2>4. colour' \in [Rank -> Colour] /\ accepting' \in BOOLEAN
    BY <1>1, <2>2 DEF TypeOK, Colour
  <2> QED
    BY <1>3, <1>4, <2>3, <2>4 DEF ReceiveGvtRequest, TypeInv, TypeOK, agentVars
<1>5. CASE ReceiveGvtValue(s, r, m)
  <2>1. m.gvt \in Time
    BY <1>3, <1>5, Kinds DEF ReceiveGvtValue, ValueMessage
  <2>2. gvt' \in [Rank -> Time] /\ colour' \in [Rank -> Colour]
    BY <1>1, <1>5, <2>1 DEF ReceiveGvtValue, TypeOK, Colour
  <2>3. sendList' \in [Rank -> SUBSET Time]
    BY <1>1, <1>5 DEF ReceiveGvtValue, TypeOK
  <2> QED
    BY <1>3, <1>5, <2>2, <2>3 DEF ReceiveGvtValue, TypeInv, TypeOK
<1>6. CASE FirstCut(s, r, m)
  <2> DEFINE new == AtFirstCut(r, m)
             next == [new EXCEPT !.dest = NextInRing(r),
                                 !.cut = IF r = Starter THEN "second" ELSE "first"]
  <2>1. m \in ControlMessage
    BY <1>3, <1>6, Kinds DEF FirstCut, IsControl
  <2>2. new \in ControlMessage
    BY <1>1, <2>1, Cuts
  <2>3. /\ redTime' = [redTime EXCEPT ![r] = LONG_MAX]
        /\ \/ /\ colour' = [colour EXCEPT ![r] = "white"]
              /\ SendAndSetGvt(new)
           \/ /\ colour' = [colour EXCEPT ![r] = "red"]
              /\ controlQueue' = [controlQueue EXCEPT ![r] = Append(@, next)]
              /\ UNCHANGED <<accepting, gvt>>
    BY <1>6 DEF FirstCut, PutOnControlQueue
  <2> HIDE DEF new
  <2>4. next \in RingMessage
    BY <2>2, Bounds DEF ControlMessage, RingMessage
  <2> HIDE DEF next
  <2>5. /\ controlQueue' \in [Rank -> Seq(RingMessage)]
        /\ gvt' \in [Rank -> Time] /\ accepting' \in BOOLEAN
    <3>1. CASE /\ controlQueue' = [controlQueue EXCEPT ![r] = Append(@, next)]
               /\ UNCHANGED <<accepting, gvt>>
      <4>1. controlQueue' \in [Rank -> Seq(RingMessage)]
        BY <1>1, <2>4, <3>1, ControlQueueTypes
      <4> QED
        BY <1>1, <3>1, <4>1 DEF TypeOK
    <3> QED
      BY <1>1, <2>2, <2>3, <3>1, SettingGvt
  <2>6. colour' \in [Rank -> Colour] /\ redTime' \in [Rank -> Time]
    BY <1>1, <2>3, Bounds DEF TypeOK, Colour
  <2> QED
    BY <1>3, <1>6, <2>5, <2>6 DEF FirstCut, TypeInv, TypeOK, agentVars
<1>7. CASE SecondCutArrives(s, r, m)
  <2>1. m \in ControlMessage
    BY <1>3, <1>7, Kinds DEF SecondCutArrives, IsControl
  <2>2. held' \in [Rank -> ControlMessage \cup {NoMessage}]
    BY <1>1, <1>7, <2>1 DEF SecondCutArrives, TypeOK
  <2> QED
    BY <1>3, <1>7, <2>2 DEF SecondCutArrives, TypeInv, TypeOK, countVars, agentVars
<1> QED
  BY <1>4, <1>5, <1>6, <1>7

LEMMA SecondCutKeepsTypes ==
    ASSUME TypeInv, NEW r \in Rank, SecondCutContinues(r)
    PROVE  TypeInv'
<1> DEFINE new == AtSecondCut(r, held[r])
           next == [new EXCEPT !.dest = NextInRing(r)]
<1>1. TypeOK
  BY DEF TypeInv
<1>2. held[r] \in ControlMessage
  BY <1>1 DEF SecondCutContinues, TypeOK
<1>3. new \in ControlMessage
  BY <1>1, <1>2, Cuts
<1>4. \/ SendAndSetGvt(new)
      \/ /\ controlQueue' = [controlQueue EXCEPT ![r] = Append(@, next)]
         /\ UNCHANGED <<accepting, gvt>>
  BY DEF SecondCutContinues, PutOnControlQueue
<1> HIDE DEF new
<1>5. next \in RingMessage
  BY <1>3, Bounds DEF ControlMessage, RingMessage
<1> HIDE DEF next
<1>6. /\ controlQueue' \in [Rank -> Seq(RingMessage)]
      /\ gvt' \in [Rank -> Time] /\ accepting' \in BOOLEAN
  <2>1. CASE /\ controlQueue' = [controlQueue EXCEPT ![r] = Append(@, next)]
             /\ UNCHANGED <<accepting, gvt>>
    <3>1. controlQueue' \in [Rank -> Seq(RingMessage)]
      BY <1>1, <1>5, <2>1, ControlQueueTypes
    <3> QED
      BY <1>1, <2>1, <3>1 DEF TypeOK
  <2> QED
    BY <1>1, <1>3, <1>4, <2>1, SettingGvt
<1>7. /\ held' \in [Rank -> ControlMessage \cup {NoMessage}]
      /\ colour' \in [Rank -> Colour]
  BY <1>1 DEF SecondCutContinues, TypeOK, Colour
<1> QED
  BY <1>6, <1>7 DEF SecondCutContinues, TypeInv, TypeOK, agentVars

LEMMA NextKeepsTypes == TypeInv /\ [Next]_vars => TypeInv'
<1> SUFFICES ASSUME TypeInv, [Next]_vars PROVE TypeInv'
  OBVIOUS
<1>1. ASSUME NEW s \in Rank, NEW r \in Rank, Receive(s, r) PROVE TypeInv'
  BY <1>1, ReceiveSimKeepsTypes, ReceiveRoundKeepsTypes DEF Receive, ReceivesSim
<1>2. CASE UNCHANGED vars
  BY <1>2 DEF vars, TypeInv, TypeOK, countVars, agentVars
<1> QED
  BY <1>1, <1>2, EnvironmentKeepsTypes, SendKeepsTypes, SecondCutKeepsTypes DEF Next, Goes

LEMMA TypesAlways == Spec => []TypeInv
  BY InitTypes, NextKeepsTypes, PTL DEF Spec

\* Every variable has its type (GvtCalculator.h:38-62).
THEOREM TypeCorrect == Spec => []TypeOK
<1>1. TypeInv => TypeOK
  BY DEF TypeInv
<1> QED
  BY <1>1, TypesAlways, PTL

-----------------------------------------------------------------------------
(***************************************************************************)
(* Sequences with no control message and with one.                         *)
(***************************************************************************)
Clear(seq) == \A i \in DOMAIN seq : ~IsControl(seq[i])
OnlyOne(seq, i) == IsControl(seq[i]) /\ \A j \in DOMAIN seq : IsControl(seq[j]) => j = i
Single(seq) == \E i \in DOMAIN seq : OnlyOne(seq, i)
Keeps(old, new) == (Clear(old) => Clear(new)) /\ (Single(old) => Single(new))

LEMMA AppendKeeps ==
    ASSUME NEW S, NEW q \in Seq(S), NEW m \in S, ~IsControl(m)
    PROVE  Keeps(q, Append(q, m))
<1>1. /\ Len(q) \in Nat /\ DOMAIN Append(q, m) = 1..(Len(q) + 1)
      /\ DOMAIN q = 1..Len(q)
      /\ Append(q, m)[Len(q) + 1] = m
      /\ \A i \in 1..Len(q) : Append(q, m)[i] = q[i]
  OBVIOUS
<1>2. \A i \in 1..(Len(q) + 1) : i \in 1..Len(q) \/ i = Len(q) + 1
  BY <1>1
<1>3. 1..Len(q) \subseteq 1..(Len(q) + 1)
  BY <1>1
<1>4. \A i \in 1..Len(q) : OnlyOne(q, i) => OnlyOne(Append(q, m), i)
  BY <1>1, <1>2, Zenon DEF OnlyOne
<1> QED
  BY <1>1, <1>2, <1>3, <1>4, Zenon DEF Keeps, Clear, Single

LEMMA AppendControl ==
    ASSUME NEW S, NEW q \in Seq(S), NEW m \in S, IsControl(m), Clear(q)
    PROVE  Single(Append(q, m))
<1>1. /\ Len(q) \in Nat /\ DOMAIN Append(q, m) = 1..(Len(q) + 1)
      /\ DOMAIN q = 1..Len(q)
      /\ Append(q, m)[Len(q) + 1] = m
      /\ \A i \in 1..Len(q) : Append(q, m)[i] = q[i]
  OBVIOUS
<1>2. \A i \in 1..(Len(q) + 1) : i \in 1..Len(q) \/ i = Len(q) + 1
  BY <1>1
<1>3. Len(q) + 1 \in 1..(Len(q) + 1)
  BY <1>1
<1> QED
  BY <1>1, <1>2, <1>3, Zenon DEF Clear, Single, OnlyOne

LEMMA TailElements ==
    ASSUME NEW S, NEW q \in Seq(S), q # << >>
    PROVE  /\ Len(q) \in Nat /\ 1 \in DOMAIN q /\ q[1] = Head(q)
           /\ DOMAIN q = 1..Len(q) /\ DOMAIN Tail(q) = 1..(Len(q) - 1)
           /\ \A i \in DOMAIN Tail(q) : /\ Tail(q)[i] = q[i + 1]
                                        /\ i + 1 \in DOMAIN q /\ i + 1 # 1
           /\ \A i \in DOMAIN q : i = 1 \/ i - 1 \in DOMAIN Tail(q)
<1>1. /\ Len(q) \in Nat /\ DOMAIN q = 1..Len(q) /\ q[1] = Head(q) /\ Len(q) >= 1
      /\ DOMAIN Tail(q) = 1..(Len(q) - 1)
      /\ \A i \in 1..(Len(q) - 1) : Tail(q)[i] = q[i + 1]
  OBVIOUS
<1> QED
  BY <1>1

LEMMA TailKeeps ==
    ASSUME NEW S, NEW q \in Seq(S), q # << >>, ~IsControl(Head(q))
    PROVE  Keeps(q, Tail(q))
<1>1. Clear(q) => Clear(Tail(q))
  BY TailElements, Zenon DEF Clear
<1>2. ASSUME NEW i \in DOMAIN q, OnlyOne(q, i) PROVE Single(Tail(q))
  <2>1. i - 1 \in DOMAIN Tail(q) /\ (i - 1) + 1 = i
    BY <1>2, TailElements DEF OnlyOne
  <2>2. IsControl(Tail(q)[i - 1])
    BY <1>2, <2>1, TailElements, Zenon DEF OnlyOne
  <2>3. ASSUME NEW j \in DOMAIN Tail(q), IsControl(Tail(q)[j]) PROVE j = i - 1
    <3>1. IsControl(q[j + 1]) /\ j + 1 \in DOMAIN q
      BY <2>3, TailElements, Zenon
    <3>2. j + 1 = i
      BY <1>2, <3>1, Zenon DEF OnlyOne
    <3>3. j \in Nat
      BY TailElements
    <3> QED
      BY <3>2, <3>3
  <2> QED
    BY <2>1, <2>2, <2>3, Zenon DEF Single, OnlyOne
<1> QED
  BY <1>1, <1>2, Zenon DEF Keeps, Single

LEMMA TailOfControl ==
    ASSUME NEW S, NEW q \in Seq(S), q # << >>, IsControl(Head(q))
    PROVE  /\ ~Clear(q)
           /\ Single(q) => Clear(Tail(q))
<1>1. 1 \in DOMAIN q /\ IsControl(q[1])
  BY TailElements, Zenon
<1>2. ASSUME NEW i \in DOMAIN q, OnlyOne(q, i) PROVE Clear(Tail(q))
  <2>1. \A j \in DOMAIN q : IsControl(q[j]) => j = 1
    BY <1>1, <1>2, Zenon DEF OnlyOne
  <2> QED
    BY <2>1, TailElements, Zenon DEF Clear
<1> QED
  BY <1>1, <1>2, Zenon DEF Clear, Single

LEMMA ConcatKeeps ==
    ASSUME NEW S, NEW q \in Seq(S), NEW t \in Seq(S), Clear(t)
    PROVE  Keeps(q, q \o t)
<1>1. /\ Len(q) \in Nat /\ Len(t) \in Nat /\ DOMAIN q = 1..Len(q) /\ DOMAIN t = 1..Len(t)
      /\ DOMAIN (q \o t) = 1..(Len(q) + Len(t))
      /\ \A i \in 1..Len(q) : (q \o t)[i] = q[i]
      /\ \A i \in (Len(q) + 1)..(Len(q) + Len(t)) : (q \o t)[i] = t[i - Len(q)]
  OBVIOUS
<1>2. \A i \in (Len(q) + 1)..(Len(q) + Len(t)) : i - Len(q) \in 1..Len(t)
  BY <1>1
<1>3. \A i \in (Len(q) + 1)..(Len(q) + Len(t)) : ~IsControl((q \o t)[i])
  BY <1>1, <1>2, Zenon DEF Clear
<1>4. /\ 1..Len(q) \subseteq 1..(Len(q) + Len(t))
      /\ \A i \in 1..(Len(q) + Len(t)) :
           i \in 1..Len(q) \/ i \in (Len(q) + 1)..(Len(q) + Len(t))
  BY <1>1
<1>5. Clear(q) => Clear(q \o t)
  BY <1>1, <1>3, <1>4, Zenon DEF Clear
<1>6. \A i \in 1..Len(q) : OnlyOne(q, i) => OnlyOne(q \o t, i)
  BY <1>1, <1>3, <1>4, Zenon DEF OnlyOne
<1> QED
  BY <1>1, <1>4, <1>5, <1>6, Zenon DEF Keeps, Single

-----------------------------------------------------------------------------
(***************************************************************************)
(* The places where a control message can be.                              *)
(***************************************************************************)
Place == [kind: {"queue", "held"}, lp: Rank] \cup [kind: {"channel"}, from: Rank, to: Rank]

Queue(r) == [kind |-> "queue", lp |-> r]
Hold(r) == [kind |-> "held", lp |-> r]
Link(s, r) == [kind |-> "channel", from |-> s, to |-> r]

HeldBy(r) == IF held[r] = NoMessage THEN << >> ELSE << held[r] >>
At(p) == CASE p.kind = "queue" -> controlQueue[p.lp]
           [] p.kind = "held" -> HeldBy(p.lp)
           [] OTHER -> channel[p.from][p.to]

OnlyAt(p) == Single(At(p)) /\ \A q \in Place \ {p} : Clear(At(q))

\* The inductive invariant: no control message anywhere between rounds, and one
\* while a round is on.
OneOnRing ==
    /\ accepting => \A p \in Place : Clear(At(p))
    /\ ~accepting => \E p \in Place : OnlyAt(p)

LEMMA Places ==
    /\ \A r \in Rank : /\ Queue(r) \in Place /\ Hold(r) \in Place
                       /\ At(Queue(r)) = controlQueue[r] /\ At(Hold(r)) = HeldBy(r)
    /\ \A s, r \in Rank : Link(s, r) \in Place /\ At(Link(s, r)) = channel[s][r]
    /\ \A p \in Place : \/ \E r \in Rank : p = Queue(r)
                        \/ \E r \in Rank : p = Hold(r)
                        \/ \E s, r \in Rank : p = Link(s, r)
    /\ \A q, r, s, t : /\ Queue(q) # Hold(r) /\ Queue(q) # Link(s, t)
                       /\ Hold(q) # Link(s, t)
                       /\ Queue(q) = Queue(r) => q = r
                       /\ Hold(q) = Hold(r) => q = r
                       /\ Link(q, r) = Link(s, t) => q = s /\ r = t
<1>1. \A r \in Rank : /\ Queue(r) \in Place /\ Hold(r) \in Place
                      /\ At(Queue(r)) = controlQueue[r] /\ At(Hold(r)) = HeldBy(r)
  BY DEF Place, Queue, Hold, At
<1>2. \A s, r \in Rank : Link(s, r) \in Place /\ At(Link(s, r)) = channel[s][r]
  BY DEF Place, Link, At
<1>3. \A p \in Place : \/ \E r \in Rank : p = Queue(r)
                       \/ \E r \in Rank : p = Hold(r)
                       \/ \E s, r \in Rank : p = Link(s, r)
  BY DEF Place, Queue, Hold, Link
<1>4. \A q, r, s, t : /\ Queue(q) # Hold(r) /\ Queue(q) # Link(s, t)
                      /\ Hold(q) # Link(s, t)
  <2>1. \A q, s, t : /\ Queue(q).kind = "queue" /\ Hold(q).kind = "held"
                     /\ Link(s, t).kind = "channel"
    BY DEF Queue, Hold, Link
  <2> QED
    BY <2>1
<1>5. \A q, r, s, t : /\ Queue(q) = Queue(r) => q = r
                      /\ Hold(q) = Hold(r) => q = r
                      /\ Link(q, r) = Link(s, t) => q = s /\ r = t
  <2>1. \A q, s, t : /\ Queue(q).lp = q /\ Hold(q).lp = q
                     /\ Link(s, t).from = s /\ Link(s, t).to = t
    BY DEF Queue, Hold, Link
  <2> QED
    BY <2>1
<1> QED
  BY <1>1, <1>2, <1>3, <1>4, <1>5

LEMMA PlacesNext ==
    /\ \A r \in Rank : At(Queue(r))' = controlQueue'[r] /\ At(Hold(r))' = HeldBy(r)'
    /\ \A s, r \in Rank : At(Link(s, r))' = channel'[s][r]
BY DEF At, Queue, Hold, Link

\* A step that leaves the control message where it is, or begins a round, moves
\* the message to another place, or takes it and ends the round.
LEMMA Unmoved ==
    ASSUME OneOnRing, accepting' = accepting,
           \A p \in Place : Keeps(At(p), At(p)')
    PROVE  OneOnRing'
BY DEF OneOnRing, OnlyAt, Keeps

LEMMA Begins ==
    ASSUME OneOnRing, accepting, ~accepting', NEW to \in Place,
           Clear(At(to)) => Single(At(to)'),
           \A p \in Place \ {to} : Keeps(At(p), At(p)')
    PROVE  OneOnRing'
BY DEF OneOnRing, OnlyAt, Keeps

LEMMA MovesOn ==
    ASSUME OneOnRing, accepting' = accepting, NEW from \in Place, NEW to \in Place,
           from # to, ~Clear(At(from)),
           Single(At(from)) => Clear(At(from)'),
           Clear(At(to)) => Single(At(to)'),
           \A p \in Place \ {from, to} : Keeps(At(p), At(p)')
    PROVE  OneOnRing'
<1>1. ~accepting /\ \E p \in Place : OnlyAt(p)
  BY DEF OneOnRing
<1>2. OnlyAt(from)
  BY <1>1 DEF OnlyAt
<1>3. Single(At(to)')
  BY <1>2 DEF OnlyAt
<1>4. \A q \in Place \ {to} : Clear(At(q)')
  BY <1>2 DEF OnlyAt, Keeps
<1> QED
  BY <1>1, <1>3, <1>4 DEF OneOnRing, OnlyAt

LEMMA Ends ==
    ASSUME OneOnRing, accepting', NEW from \in Place, ~Clear(At(from)),
           Single(At(from)) => Clear(At(from)'),
           \A p \in Place \ {from} : Keeps(At(p), At(p)')
    PROVE  OneOnRing'
<1>1. ~accepting /\ \E p \in Place : OnlyAt(p)
  BY DEF OneOnRing
<1>2. OnlyAt(from)
  BY <1>1 DEF OnlyAt
<1>4. \A q \in Place : Clear(At(q)')
  BY <1>2 DEF OnlyAt, Keeps
<1> QED
  BY <1>4 DEF OneOnRing

-----------------------------------------------------------------------------
(***************************************************************************)
(* The steps.                                                              *)
(***************************************************************************)
\* Queues, links and held messages after a step that changes one of them.
LEMMA PlacesKept ==
    ASSUME NEW P \in SUBSET Place,
           \A r \in Rank : Queue(r) \in P => Keeps(controlQueue[r], controlQueue'[r]),
           \A r \in Rank : Hold(r) \in P => Keeps(HeldBy(r), HeldBy(r)'),
           \A s, r \in Rank : Link(s, r) \in P => Keeps(channel[s][r], channel'[s][r])
    PROVE  \A p \in P : Keeps(At(p), At(p)')
<1> SUFFICES ASSUME NEW p \in P PROVE Keeps(At(p), At(p)')
  OBVIOUS
<1>1. ASSUME NEW r \in Rank, p = Queue(r) PROVE Keeps(At(p), At(p)')
  <2>1. At(Queue(r)) = controlQueue[r] /\ At(Queue(r))' = controlQueue'[r]
    BY Places, PlacesNext
  <2> QED
    BY <1>1, <2>1
<1>2. ASSUME NEW r \in Rank, p = Hold(r) PROVE Keeps(At(p), At(p)')
  <2>1. At(Hold(r)) = HeldBy(r) /\ At(Hold(r))' = HeldBy(r)'
    BY Places, PlacesNext
  <2> QED
    BY <1>2, <2>1
<1>3. ASSUME NEW s \in Rank, NEW r \in Rank, p = Link(s, r) PROVE Keeps(At(p), At(p)')
  <2>1. At(Link(s, r)) = channel[s][r] /\ At(Link(s, r))' = channel'[s][r]
    BY Places, PlacesNext
  <2> QED
    BY <1>3, <2>1
<1> QED
  BY <1>1, <1>2, <1>3, Places

LEMMA SameKeeps == \A q : Keeps(q, q)
BY DEF Keeps

\* The head of a link is taken.
LEMMA Taken ==
    ASSUME TypeOK, NEW s \in Rank, NEW r \in Rank, NEW m, Arrives(s, r, m)
    PROVE  /\ \A a, b \in Rank : Link(a, b) # Link(s, r) => channel'[a][b] = channel[a][b]
           /\ ~IsControl(m) => Keeps(channel[s][r], channel'[s][r])
           /\ IsControl(m) => /\ ~Clear(channel[s][r])
                              /\ Single(channel[s][r]) => Clear(channel'[s][r])
<1>1. /\ channel[s][r] \in Seq(Message) /\ channel[s][r] # << >>
      /\ m = Head(channel[s][r])
      /\ channel'[s][r] = Tail(channel[s][r])
  BY DEF TypeOK, Arrives
<1>2. \A a, b \in Rank : ~(a = s /\ b = r) => channel'[a][b] = channel[a][b]
  BY DEF TypeOK, Arrives
<1>3. \A a, b \in Rank : Link(a, b) # Link(s, r) => ~(a = s /\ b = r)
  OBVIOUS
<1>4. ~IsControl(m) => Keeps(channel[s][r], channel'[s][r])
  BY <1>1, TailKeeps
<1>5. IsControl(m) => /\ ~Clear(channel[s][r])
                      /\ Single(channel[s][r]) => Clear(channel'[s][r])
  BY <1>1, TailOfControl
<1> QED
  BY <1>2, <1>3, <1>4, <1>5

\* A message is put on a control queue.
LEMMA Put ==
    ASSUME TypeOK, NEW r \in Rank, NEW m \in RingMessage, PutOnControlQueue(r, m)
    PROVE  /\ \A q \in Rank : q # r => controlQueue'[q] = controlQueue[q]
           /\ ~IsControl(m) => Keeps(controlQueue[r], controlQueue'[r])
           /\ IsControl(m) => (Clear(controlQueue[r]) => Single(controlQueue'[r]))
<1>1. /\ controlQueue[r] \in Seq(RingMessage)
      /\ controlQueue'[r] = Append(controlQueue[r], m)
      /\ \A q \in Rank : q # r => controlQueue'[q] = controlQueue[q]
  BY DEF TypeOK, PutOnControlQueue
<1> QED
  BY <1>1, AppendKeeps, AppendControl

\* The new GVT is put on the control queue of the starter.
LEMMA ValuesPut ==
    ASSUME TypeOK, NEW m \in ControlMessage, SendAndSetGvt(m)
    PROVE  /\ \A q \in Rank : Keeps(controlQueue[q], controlQueue'[q])
           /\ accepting'
<1> DEFINE value == Least(m.min, m.red)
           values == [r \in 1..(N - 1) |-> [type |-> "value", dest |-> r, gvt |-> value]]
<1>1. value \in Time
  BY DEF ControlMessage, Least
<1>2. /\ controlQueue' = [controlQueue EXCEPT ![Starter] = @ \o values]
      /\ accepting'
  BY DEF SendAndSetGvt
<1> HIDE DEF value
<1>3. \A r \in 1..(N - 1) : [type |-> "value", dest |-> r, gvt |-> value] \in RingMessage
  BY <1>1, Bounds DEF RingMessage, ValueMessage, Rank
<1>4. values \in Seq(RingMessage) /\ Clear(values)
  BY <1>3, Bounds DEF Clear, IsControl
<1> HIDE DEF values
<1>5. /\ controlQueue[Starter] \in Seq(RingMessage)
      /\ controlQueue'[Starter] = controlQueue[Starter] \o values
      /\ \A q \in Rank : q # Starter => controlQueue'[q] = controlQueue[q]
  BY <1>2, Bounds DEF TypeOK
<1>6. Keeps(controlQueue[Starter], controlQueue'[Starter])
  BY <1>4, <1>5, ConcatKeeps
<1> QED
  BY <1>2, <1>5, <1>6, SameKeeps

\* The environment: a request for a GVT is no control message.
LEMMA EnvironmentKeepsRing ==
    ASSUME TypeOK, OneOnRing, NEW a \in Alp,
           SendGvtRequest(a) \/ \E t \in 0..MaxTime : SendRequest(a, t)
    PROVE  OneOnRing'
<1>1. UNCHANGED <<accepting, held, channel>>
  BY DEF SendGvtRequest, SendRequest
<1>2. \A q \in Rank : Keeps(controlQueue[q], controlQueue'[q])
  <2>1. CASE SendGvtRequest(a)
    <3> DEFINE m == [type |-> "gvtRequest", dest |-> Starter]
    <3>1. m \in RingMessage /\ ~IsControl(m)
      BY Bounds DEF RingMessage, GvtRequest, IsControl
    <3>2. PutOnControlQueue(a, m)
      BY <2>1 DEF SendGvtRequest, PutOnControlQueue
    <3> HIDE DEF m
    <3> QED
      BY <3>1, <3>2, Bounds, Put, SameKeeps
  <2>2. CASE \E t \in 0..MaxTime : SendRequest(a, t)
    BY <2>2, SameKeeps DEF SendRequest
  <2> QED
    BY <2>1, <2>2
<1>3. \A q \in Rank : HeldBy(q)' = HeldBy(q)
  BY <1>1 DEF HeldBy
<1>4. \A p \in Place : Keeps(At(p), At(p)')
  BY <1>1, <1>2, <1>3, SameKeeps, PlacesKept
<1> QED
  BY <1>1, <1>4, Unmoved

\* The send thread: a control message moves from the queue to its link.
LEMMA SendKeepsRing ==
    ASSUME TypeOK, OneOnRing, NEW r \in Rank, Send(r)
    PROVE  OneOnRing'
<1>1. UNCHANGED <<accepting, held>>
  BY DEF Send, SendControl, SendStamp, SendCount
<1>2. \A q \in Rank : Keeps(HeldBy(q), HeldBy(q)')
  BY <1>1, SameKeeps DEF HeldBy
<1>3. CASE SendControl(r)
  <2>1. /\ controlQueue[r] \in Seq(RingMessage) /\ controlQueue[r] # << >>
        /\ controlQueue'[r] = Tail(controlQueue[r])
        /\ \A q \in Rank : q # r => controlQueue'[q] = controlQueue[q]
    BY <1>3 DEF TypeOK, SendControl
  <2>2. PICK m \in Message, to \in Rank : m = Head(controlQueue[r]) /\ to = m.dest
    BY <2>1, RingKinds, Kinds
  <2>3. channel' = [channel EXCEPT ![r][to] = Append(@, m)]
    BY <1>3, <2>2 DEF SendControl
  <2>4. /\ channel[r][to] \in Seq(Message)
        /\ channel'[r][to] = Append(channel[r][to], m)
        /\ \A a, b \in Rank : ~(a = r /\ b = to) => channel'[a][b] = channel[a][b]
    <3>1. channel \in [Rank -> [Rank -> Seq(Message)]]
      BY DEF TypeOK
    <3> QED
      BY <2>2, <2>3, <3>1
  <2>5. CASE ~IsControl(m)
    <3>1. /\ Keeps(controlQueue[r], controlQueue'[r])
          /\ Keeps(channel[r][to], channel'[r][to])
      <4>1. \A q \in Seq(Message) : Keeps(q, Append(q, m))
        BY <2>5, AppendKeeps
      <4>2. Keeps(controlQueue[r], Tail(controlQueue[r]))
        BY <2>1, <2>2, <2>5, TailKeeps
      <4> QED
        BY <2>1, <2>4, <4>1, <4>2
    <3>2. \A p \in Place : Keeps(At(p), At(p)')
      BY <1>2, <2>1, <2>4, <3>1, SameKeeps, PlacesKept
    <3> QED
      BY <1>1, <3>2, Unmoved
  <2>6. CASE IsControl(m)
    <3>1. /\ ~Clear(At(Queue(r)))
          /\ Single(At(Queue(r))) => Clear(At(Queue(r))')
      <4>1. /\ ~Clear(controlQueue[r])
            /\ Single(controlQueue[r]) => Clear(controlQueue'[r])
        BY <2>1, <2>2, <2>6, TailOfControl
      <4> QED
        BY <4>1, Places, PlacesNext
    <3>2. Clear(At(Link(r, to))) => Single(At(Link(r, to))')
      <4>1. Clear(channel[r][to]) => Single(channel'[r][to])
        <5>1. \A q \in Seq(Message) : Clear(q) => Single(Append(q, m))
          BY <2>6, AppendControl
        <5> QED
          BY <2>4, <5>1
      <4>2. At(Link(r, to)) = channel[r][to] /\ At(Link(r, to))' = channel'[r][to]
        BY <2>2, Places, PlacesNext
      <4> QED
        BY <4>1, <4>2
    <3>3. \A p \in Place \ {Queue(r), Link(r, to)} : Keeps(At(p), At(p)')
      <4>1. \A q \in Rank : Queue(q) # Queue(r) => q # r
        OBVIOUS
      <4>2. \A a, b \in Rank : Link(a, b) # Link(r, to) => ~(a = r /\ b = to)
        OBVIOUS
      <4> QED
        BY ZenonT(30), <1>2, <2>1, <2>4, <4>1, <4>2, SameKeeps, PlacesKept
    <3>4. Queue(r) \in Place /\ Link(r, to) \in Place /\ Queue(r) # Link(r, to)
      BY <2>2, Places
    <3> QED
      BY <1>1, <3>1, <3>2, <3>3, <3>4, MovesOn
  <2> QED
    BY <2>5, <2>6
<1>4. CASE SendStamp(r)
  <2>1. UNCHANGED <<controlQueue, channel>>
    BY <1>4 DEF SendStamp
  <2>2. \A p \in Place : Keeps(At(p), At(p)')
    BY <1>2, <2>1, SameKeeps, PlacesKept
  <2> QED
    BY <1>1, <2>2, Unmoved
<1>5. CASE SendCount(r)
  <2> DEFINE m == sending[r]
             to == m.dest
  <2>1. /\ channel' = [channel EXCEPT ![r][to] = Append(@, m)]
        /\ UNCHANGED controlQueue /\ m # NoMessage
    BY <1>5 DEF SendCount
  <2>2. m \in Message /\ to \in Rank /\ ~IsControl(m)
    BY <2>1, NoMessageIsNone DEF TypeOK, Message, SimMessage
  <2> HIDE DEF m, to
  <2>4. /\ channel[r][to] \in Seq(Message)
        /\ channel'[r][to] = Append(channel[r][to], m)
        /\ \A a, b \in Rank : ~(a = r /\ b = to) => channel'[a][b] = channel[a][b]
    <3>1. channel \in [Rank -> [Rank -> Seq(Message)]]
      BY DEF TypeOK
    <3> QED
      BY <2>1, <2>2, <3>1
  <2>5. Keeps(channel[r][to], channel'[r][to])
    BY <2>2, <2>4, AppendKeeps
  <2>6. \A p \in Place : Keeps(At(p), At(p)')
    BY <1>2, <2>1, <2>4, <2>5, SameKeeps, PlacesKept
  <2> QED
    BY <1>1, <2>6, Unmoved
<1> QED
  BY <1>3, <1>4, <1>5 DEF Send

\* What is not a control message leaves the ring alone, but for the request that
\* begins a round.
LEMMA ReceiveOtherKeepsRing ==
    ASSUME TypeOK, OneOnRing, NEW s \in Rank, NEW r \in Rank, NEW m,
           \/ ReceivesSim(s, r, m)
           \/ r = Starter /\ ReceiveGvtRequest(s, m)
           \/ ReceiveGvtValue(s, r, m)
    PROVE  OneOnRing'
<1>1. Arrives(s, r, m) /\ ~IsControl(m) /\ UNCHANGED held
  BY Receiving DEF ReceiveGvtRequest, ReceiveGvtValue, IsControl, IsSim, SimTypes
<1>2. \A a, b \in Rank : Keeps(channel[a][b], channel'[a][b])
  <2>1. \A a, b \in Rank : Link(a, b) # Link(s, r) => channel'[a][b] = channel[a][b]
    BY <1>1, Taken
  <2>2. Keeps(channel[s][r], channel'[s][r])
    BY <1>1, Taken
  <2>3. \A a, b \in Rank : Link(a, b) # Link(s, r) \/ (a = s /\ b = r)
    BY Places
  <2> QED
    BY <2>1, <2>2, <2>3, SameKeeps
<1>3. \A q \in Rank : Keeps(HeldBy(q), HeldBy(q)')
  BY <1>1, SameKeeps DEF HeldBy
<1>4. CASE UNCHANGED <<accepting, controlQueue>>
  <2>1. \A p \in Place : Keeps(At(p), At(p)')
    BY <1>2, <1>3, <1>4, SameKeeps, PlacesKept
  <2> QED
    BY <1>4, <2>1, Unmoved
<1>5. CASE r = Starter /\ ReceiveGvtRequest(s, m) /\ RoundMayStart(r)
  <2> DEFINE first == [type |-> "control", dest |-> NextInRing(r), cut |-> "first",
                       min |-> LONG_MAX, red |-> LONG_MAX, count |-> [d \in Rank |-> 0]]
  <2>1. accepting /\ ~accepting' /\ PutOnControlQueue(r, first)
    BY <1>5 DEF ReceiveGvtRequest, RoundMayStart
  <2>2. first \in RingMessage /\ IsControl(first)
    BY Bounds DEF RingMessage, ControlMessage, IsControl
  <2> HIDE DEF first
  <2>3. /\ \A q \in Rank : q # r => controlQueue'[q] = controlQueue[q]
        /\ Clear(controlQueue[r]) => Single(controlQueue'[r])
    BY <2>1, <2>2, Put
  <2>4. Clear(At(Queue(r))) => Single(At(Queue(r))')
    BY <2>3, Places, PlacesNext
  <2>5. \A p \in Place \ {Queue(r)} : Keeps(At(p), At(p)')
    <3>1. \A q \in Rank : Queue(q) # Queue(r) => q # r
      OBVIOUS
    <3> QED
      BY <1>2, <1>3, <2>3, <3>1, SameKeeps, PlacesKept
  <2> QED
    BY <2>1, <2>4, <2>5, Begins, Places
<1>6. UNCHANGED <<accepting, controlQueue>>
      \/ (r = Starter /\ ReceiveGvtRequest(s, m) /\ RoundMayStart(r))
  BY Receiving DEF ReceiveGvtRequest, ReceiveGvtValue
<1> QED
  BY <1>4, <1>5, <1>6

\* The first cut sends the control message on or ends the round with it.
LEMMA FirstCutKeepsRing ==
    ASSUME TypeOK, OneOnRing, NEW s \in Rank, NEW r \in Rank, NEW m, FirstCut(s, r, m)
    PROVE  OneOnRing'
<1> DEFINE new == AtFirstCut(r, m)
           next == [new EXCEPT !.dest = NextInRing(r),
                               !.cut = IF r = Starter THEN "second" ELSE "first"]
<1>1. Arrives(s, r, m) /\ IsControl(m) /\ UNCHANGED held
  BY DEF FirstCut, IsControl
<1>2. m \in ControlMessage
  BY <1>1, Arriving, Kinds
<1>3. new \in ControlMessage
  BY <1>2, Cuts
<1>4. \/ SendAndSetGvt(new)
      \/ PutOnControlQueue(r, next) /\ UNCHANGED accepting
  BY DEF FirstCut
<1> HIDE DEF new
<1>5. next \in RingMessage /\ IsControl(next)
  BY <1>3, Bounds DEF ControlMessage, RingMessage, IsControl
<1> HIDE DEF next
<1>6. /\ ~Clear(At(Link(s, r)))
      /\ Single(At(Link(s, r))) => Clear(At(Link(s, r))')
  BY <1>1, Taken, Places, PlacesNext
<1>7. \A a, b \in Rank : Link(a, b) # Link(s, r) => channel'[a][b] = channel[a][b]
  BY <1>1, Taken
<1>8. \A q \in Rank : Keeps(HeldBy(q), HeldBy(q)')
  BY <1>1, SameKeeps DEF HeldBy
<1>9. CASE SendAndSetGvt(new)
  <2>1. /\ \A q \in Rank : Keeps(controlQueue[q], controlQueue'[q])
        /\ accepting'
    BY <1>3, <1>9, ValuesPut
  <2>2. \A p \in Place \ {Link(s, r)} : Keeps(At(p), At(p)')
    BY <1>7, <1>8, <2>1, SameKeeps, PlacesKept
  <2> QED
    BY <1>6, <2>1, <2>2, Ends, Places
<1>10. CASE PutOnControlQueue(r, next) /\ UNCHANGED accepting
  <2>1. /\ \A q \in Rank : q # r => controlQueue'[q] = controlQueue[q]
        /\ Clear(controlQueue[r]) => Single(controlQueue'[r])
    BY <1>5, <1>10, Put
  <2>2. Clear(At(Queue(r))) => Single(At(Queue(r))')
    BY <2>1, Places, PlacesNext
  <2>3. \A p \in Place \ {Link(s, r), Queue(r)} : Keeps(At(p), At(p)')
    <3>1. \A q \in Rank : Queue(q) # Queue(r) => q # r
      OBVIOUS
    <3> QED
      BY <1>7, <1>8, <2>1, <3>1, SameKeeps, PlacesKept
  <2> QED
    BY <1>6, <1>10, <2>2, <2>3, MovesOn, Places
<1> QED
  BY <1>4, <1>9, <1>10

\* In the second cut the LP first holds the message ...
LEMMA SecondCutArrivesKeepsRing ==
    ASSUME TypeOK, OneOnRing, NEW s \in Rank, NEW r \in Rank, NEW m,
           SecondCutArrives(s, r, m)
    PROVE  OneOnRing'
<1>1. /\ Arrives(s, r, m) /\ IsControl(m) /\ UNCHANGED <<accepting, controlQueue>>
      /\ held' = [held EXCEPT ![r] = m]
  BY DEF SecondCutArrives, IsControl
<1>2. m \in ControlMessage
  BY <1>1, Arriving, Kinds
<1>3. /\ ~Clear(At(Link(s, r)))
      /\ Single(At(Link(s, r))) => Clear(At(Link(s, r))')
  BY <1>1, Taken, Places, PlacesNext
<1>4. \A a, b \in Rank : Link(a, b) # Link(s, r) => channel'[a][b] = channel[a][b]
  BY <1>1, Taken
<1>5. Single(At(Hold(r))')
  <2>1. HeldBy(r)' = << m >>
    BY <1>1, <1>2, NoMessageIsNone DEF HeldBy, TypeOK
  <2>2. Single(<< m >>)
    BY <1>1 DEF Single, OnlyOne
  <2> QED
    BY <2>1, <2>2, PlacesNext
<1>6. \A q \in Rank : Hold(q) # Hold(r) => HeldBy(q)' = HeldBy(q)
  BY <1>1 DEF HeldBy, TypeOK
<1>7. \A p \in Place \ {Link(s, r), Hold(r)} : Keeps(At(p), At(p)')
  BY <1>1, <1>4, <1>6, SameKeeps, PlacesKept
<1> QED
  BY <1>1, <1>3, <1>5, <1>7, MovesOn, Places

\* ... and then sends it on, or ends the round with it.
LEMMA SecondCutKeepsRing ==
    ASSUME TypeOK, OneOnRing, NEW r \in Rank, SecondCutContinues(r)
    PROVE  OneOnRing'
<1> DEFINE new == AtSecondCut(r, held[r])
           next == [new EXCEPT !.dest = NextInRing(r)]
<1>1. held[r] \in ControlMessage /\ held' = [held EXCEPT ![r] = NoMessage]
      /\ UNCHANGED channel
  BY DEF SecondCutContinues, TypeOK
<1>2. new \in ControlMessage
  BY <1>1, Cuts
<1>3. \/ SendAndSetGvt(new)
      \/ PutOnControlQueue(r, next) /\ UNCHANGED accepting
  BY DEF SecondCutContinues
<1> HIDE DEF new
<1>4. next \in RingMessage /\ IsControl(next)
  BY <1>2, Bounds DEF ControlMessage, RingMessage, IsControl
<1> HIDE DEF next
<1>5. ~Clear(At(Hold(r))) /\ Clear(At(Hold(r))')
  <2>1. HeldBy(r) = << held[r] >> /\ HeldBy(r)' = << >>
    BY <1>1, NoMessageIsNone DEF HeldBy, TypeOK
  <2>2. ~Clear(<< held[r] >>) /\ Clear(<< >>)
    BY <1>1, NoMessageIsNone DEF Clear
  <2> QED
    BY <2>1, <2>2, Places, PlacesNext
<1>6. \A q \in Rank : Hold(q) # Hold(r) => HeldBy(q)' = HeldBy(q)
  BY <1>1 DEF HeldBy, TypeOK
<1>7. CASE SendAndSetGvt(new)
  <2>1. /\ \A q \in Rank : Keeps(controlQueue[q], controlQueue'[q])
        /\ accepting'
    BY <1>2, <1>7, ValuesPut
  <2>2. \A p \in Place \ {Hold(r)} : Keeps(At(p), At(p)')
    BY <1>1, <1>6, <2>1, SameKeeps, PlacesKept
  <2> QED
    BY <1>5, <2>1, <2>2, Ends, Places
<1>8. CASE PutOnControlQueue(r, next) /\ UNCHANGED accepting
  <2>1. /\ \A q \in Rank : q # r => controlQueue'[q] = controlQueue[q]
        /\ Clear(controlQueue[r]) => Single(controlQueue'[r])
    BY <1>4, <1>8, Put
  <2>2. Clear(At(Queue(r))) => Single(At(Queue(r))')
    BY <2>1, Places, PlacesNext
  <2>3. \A p \in Place \ {Hold(r), Queue(r)} : Keeps(At(p), At(p)')
    <3>1. \A q \in Rank : Queue(q) # Queue(r) => q # r
      OBVIOUS
    <3> QED
      BY <1>1, <1>6, <2>1, <3>1, SameKeeps, PlacesKept
  <2> QED
    BY <1>5, <1>8, <2>2, <2>3, MovesOn, Places
<1> QED
  BY <1>3, <1>7, <1>8

LEMMA InitOneOnRing == Init => OneOnRing
<1> SUFFICES ASSUME Init, NEW p \in Place PROVE Clear(At(p))
  BY DEF OneOnRing, Init
<1>1. Clear(<< >>)
  BY DEF Clear
<1>2. /\ \A r \in Rank : controlQueue[r] = << >> /\ HeldBy(r) = << >>
      /\ \A s, r \in Rank : channel[s][r] = << >>
  BY DEF Init, HeldBy
<1> QED
  BY <1>1, <1>2, Places

LEMMA NextKeepsRing == TypeOK /\ OneOnRing /\ [Next]_vars => OneOnRing'
<1> SUFFICES ASSUME TypeOK, OneOnRing, [Next]_vars PROVE OneOnRing'
  OBVIOUS
<1>1. ASSUME NEW s \in Rank, NEW r \in Rank, Receive(s, r) PROVE OneOnRing'
  BY <1>1, ReceiveOtherKeepsRing, FirstCutKeepsRing, SecondCutArrivesKeepsRing
     DEF Receive, ReceivesSim
<1>2. CASE UNCHANGED vars
  <2>1. UNCHANGED <<accepting, controlQueue, held, channel>>
    BY <1>2 DEF vars
  <2>2. \A p \in Place : Keeps(At(p), At(p)')
    BY <2>1, SameKeeps, PlacesKept DEF HeldBy
  <2> QED
    BY <2>1, <2>2, Unmoved
<1> QED
  BY <1>1, <1>2, EnvironmentKeepsRing, SendKeepsRing, SecondCutKeepsRing DEF Next, Goes

-----------------------------------------------------------------------------
(***************************************************************************)
(* The theorem.                                                            *)
(***************************************************************************)
\* What ControlMessages counts.
OnQueue(r, i) == <<"queue", r, i>>
OnLink(s, r, i) == <<"channel", <<s, r>>, i>>
IsHeld(r) == <<"held", r>>

QueueControls == UNION {{<<"queue", r, i>> : i \in ControlIn(controlQueue[r])} : r \in Rank}
LinkControls == UNION {{<<"channel", sd, i>> : i \in ControlIn(channel[sd[1]][sd[2]])} :
                         sd \in Rank \X Rank}
HeldControls == {<<"held", r>> : r \in {q \in Rank : held[q] # NoMessage}}

LEMMA Counted == \A x : x \in ControlMessages <=>
                          x \in QueueControls \/ x \in LinkControls \/ x \in HeldControls
<1>1. ControlMessages = QueueControls \cup LinkControls \cup HeldControls
  BY DEF ControlMessages, QueueControls, LinkControls, HeldControls
<1> QED
  BY <1>1

LEMMA CountedIsAt ==
    ASSUME NEW x \in ControlMessages
    PROVE  \/ \E r \in Rank : \E i \in ControlIn(controlQueue[r]) : x = OnQueue(r, i)
           \/ \E s, r \in Rank : \E i \in ControlIn(channel[s][r]) : x = OnLink(s, r, i)
           \/ \E r \in Rank : held[r] # NoMessage /\ x = IsHeld(r)
<1>1. CASE x \in QueueControls
  BY <1>1 DEF OnQueue, QueueControls
<1>2. CASE x \in LinkControls
  BY <1>2 DEF OnLink, LinkControls
<1>3. CASE x \in HeldControls
  BY <1>3 DEF IsHeld, HeldControls
<1> QED
  BY <1>1, <1>2, <1>3, Counted

LEMMA AtIsCounted ==
    /\ \A r \in Rank : \A i \in ControlIn(controlQueue[r]) : OnQueue(r, i) \in ControlMessages
    /\ \A s, r \in Rank : \A i \in ControlIn(channel[s][r]) :
         OnLink(s, r, i) \in ControlMessages
    /\ \A r \in Rank : held[r] # NoMessage => IsHeld(r) \in ControlMessages
<1>1. ASSUME NEW r \in Rank, NEW i \in ControlIn(controlQueue[r])
      PROVE  OnQueue(r, i) \in ControlMessages
  <2>1. OnQueue(r, i) \in QueueControls
    BY <1>1 DEF QueueControls, OnQueue
  <2> QED
    BY <2>1, Counted
<1>2. ASSUME NEW s \in Rank, NEW r \in Rank, NEW i \in ControlIn(channel[s][r])
      PROVE  OnLink(s, r, i) \in ControlMessages
  <2> DEFINE sd == <<s, r>>
  <2>1. sd \in Rank \X Rank /\ sd[1] = s /\ sd[2] = r
    OBVIOUS
  <2>2. OnLink(s, r, i) = <<"channel", sd, i>>
    BY DEF OnLink
  <2> HIDE DEF sd
  <2>3. i \in ControlIn(channel[sd[1]][sd[2]])
    BY <2>1
  <2>4. OnLink(s, r, i) \in LinkControls
    BY <2>1, <2>2, <2>3 DEF LinkControls
  <2> QED
    BY <2>4, Counted
<1>3. ASSUME NEW r \in Rank, held[r] # NoMessage PROVE IsHeld(r) \in ControlMessages
  <2>1. IsHeld(r) \in HeldControls
    BY <1>3 DEF HeldControls, IsHeld
  <2> QED
    BY <2>1, Counted
<1> QED
  BY <1>1, <1>2, <1>3

LEMMA RingIsOneControlMessage ==
    ASSUME TypeOK, OneOnRing
    PROVE  OneControlMessage
<1>1. \A r \in Rank : held[r] # NoMessage => HeldBy(r) = << held[r] >> /\ ~Clear(HeldBy(r))
  <2>1. \A m \in ControlMessage : ~Clear(<< m >>)
    BY NoMessageIsNone DEF Clear
  <2> QED
    BY <2>1 DEF HeldBy, TypeOK
<1>2. CASE accepting
  <2>1. \A p \in Place : Clear(At(p))
    BY <1>2 DEF OneOnRing
  <2>2. /\ \A r \in Rank : ControlIn(controlQueue[r]) = {} /\ held[r] = NoMessage
        /\ \A s, r \in Rank : ControlIn(channel[s][r]) = {}
    BY <1>1, <2>1, Places DEF Clear, ControlIn
  <2>3. ControlMessages = {}
    BY <2>2, CountedIsAt
  <2> QED
    BY <1>2, <2>3, FS_EmptySet DEF OneControlMessage
<1>3. CASE ~accepting
  <2>1. PICK p \in Place : OnlyAt(p)
    BY <1>3 DEF OneOnRing
  <2>2. PICK i \in DOMAIN At(p) : OnlyOne(At(p), i)
    BY <2>1 DEF OnlyAt, Single
  <2>3. \E x : ControlMessages = {x}
    <3>0. \A q \in Place : q # p => Clear(At(q))
      BY <2>1 DEF OnlyAt
    <3>1. /\ \A r \in Rank : Queue(r) # p => ControlIn(controlQueue[r]) = {}
          /\ \A r \in Rank : Hold(r) # p => held[r] = NoMessage
          /\ \A s, r \in Rank : Link(s, r) # p => ControlIn(channel[s][r]) = {}
      BY <1>1, <3>0, Places DEF Clear, ControlIn
    <3>2. \A j : j \in ControlIn(At(p)) <=> j = i
      BY <2>2 DEF OnlyOne, ControlIn
    <3>3. ASSUME NEW r \in Rank, p = Queue(r) PROVE ControlMessages = {OnQueue(r, i)}
      <4>1. ControlIn(controlQueue[r]) = {i}
        BY <3>2, <3>3, Places
      <4>2. OnQueue(r, i) \in ControlMessages
        BY <4>1, AtIsCounted
      <4>3. \A x \in ControlMessages : x = OnQueue(r, i)
        <5>1. /\ \A q \in Rank : q # r => ControlIn(controlQueue[q]) = {}
              /\ \A q \in Rank : held[q] = NoMessage
              /\ \A a, b \in Rank : ControlIn(channel[a][b]) = {}
          <6>1. \A q : Queue(q) = p => q = r
            BY <3>3, Places
          <6>2. \A q, a, b : Hold(q) # p /\ Link(a, b) # p
            BY <3>3, Places
          <6> QED
            BY <3>1, <6>1, <6>2
        <5> QED
          BY <4>1, <5>1, CountedIsAt
      <4> QED
        BY <4>2, <4>3
    <3>4. ASSUME NEW s \in Rank, NEW r \in Rank, p = Link(s, r)
          PROVE  ControlMessages = {OnLink(s, r, i)}
      <4>1. ControlIn(channel[s][r]) = {i}
        BY <3>2, <3>4, Places
      <4>2. OnLink(s, r, i) \in ControlMessages
        BY <4>1, AtIsCounted
      <4>3. \A x \in ControlMessages : x = OnLink(s, r, i)
        <5>1. /\ \A q \in Rank : ControlIn(controlQueue[q]) = {} /\ held[q] = NoMessage
              /\ \A a, b \in Rank : ~(a = s /\ b = r) => ControlIn(channel[a][b]) = {}
          <6>1. \A a, b : Link(a, b) = p => a = s /\ b = r
            BY <3>4, Places
          <6>2. \A q : Hold(q) # p /\ Queue(q) # p
            BY <3>4, Places
          <6> QED
            BY <3>1, <6>1, <6>2
        <5> QED
          BY <4>1, <5>1, CountedIsAt
      <4> QED
        BY <4>2, <4>3
    <3>5. ASSUME NEW r \in Rank, p = Hold(r) PROVE ControlMessages = {IsHeld(r)}
      <4>1. held[r] # NoMessage
        BY <2>2, <3>5, Places DEF HeldBy
      <4>2. IsHeld(r) \in ControlMessages
        BY <4>1, AtIsCounted
      <4>3. \A x \in ControlMessages : x = IsHeld(r)
        <5>1. /\ \A q \in Rank : ControlIn(controlQueue[q]) = {}
              /\ \A q \in Rank : q # r => held[q] = NoMessage
              /\ \A a, b \in Rank : ControlIn(channel[a][b]) = {}
          <6>1. \A q : Hold(q) = p => q = r
            BY <3>5, Places
          <6>2. \A q, a, b : Queue(q) # p /\ Link(a, b) # p
            BY <3>5, Places
          <6> QED
            BY <3>1, <6>1, <6>2
        <5> QED
          BY <5>1, CountedIsAt
      <4> QED
        BY <4>2, <4>3
    <3>6. \/ \E r \in Rank : p = Queue(r)
          \/ \E r \in Rank : p = Hold(r)
          \/ \E s, r \in Rank : p = Link(s, r)
      BY Places
    <3> QED
      BY <3>3, <3>4, <3>5, <3>6, Zenon
  <2> QED
    BY <1>3, <2>3, FS_Singleton DEF OneControlMessage
<1> QED
  BY <1>2, <1>3

\* While a round is on there is one control message, on a queue, in a channel or
\* held by an LP, and there is none between rounds, however many agents ask for a
\* GVT and however the messages are interleaved (GvtCalculator.cpp:21-44).
THEOREM OneControlMessageAlways == Spec => []OneControlMessage
<1>1. Init => TypeOK /\ OneOnRing
  BY InitTypes, InitOneOnRing DEF TypeInv
<1>2. TypeOK /\ OneOnRing => OneControlMessage
  BY RingIsOneControlMessage
<1>3. Spec => []TypeOK
  BY TypeCorrect
<1> QED
  BY <1>1, <1>2, <1>3, NextKeepsRing, PTL DEF Spec

-----------------------------------------------------------------------------
(***************************************************************************)
(* The counters.  First the sum of what all LPs have counted for one       *)
(* destination, ...                                                        *)
(***************************************************************************)
Total(c, d) == MapThenSumSet(LAMBDA r : c[r][d], Rank)
Column(c, d) == [r \in Rank |-> c[r][d]]

LEMMA RankIsFinite == IsFiniteSet(Rank)
BY Bounds, FS_Interval DEF Rank

LEMMA TotalIsSum ==
    ASSUME NEW c \in [Rank -> [Rank -> Int]], NEW d \in Rank
    PROVE  /\ Column(c, d) \in [Rank -> Int]
           /\ SumIs(Total(c, d), Column(c, d), Rank)
<1>1. Column(c, d) \in [Rank -> Int]
  BY DEF Column
<1>2. PICK kt : IsSumOf(kt, Column(c, d), Rank)
  BY <1>1, RankIsFinite, SumExists
<1>3. \A s \in SUBSET Rank : s # {} => Column(c, d)[SomeOf(s)] = c[SomeOf(s)][d]
  BY DEF Column, SomeOf
<1>4. \A it : IsSumOf(it, Column(c, d), Rank) <=>
                it = [s \in SUBSET Rank |->
                        IF s = {} THEN 0 ELSE c[SomeOf(s)][d] + it[s \ {SomeOf(s)}]]
  BY <1>3 DEF IsSumOf
<1>5. \E it : /\ it = [s \in SUBSET Rank |->
                        IF s = {} THEN 0 ELSE c[SomeOf(s)][d] + it[s \ {SomeOf(s)}]]
              /\ Total(c, d) = it[Rank]
  <2>1. \E it : it = [s \in SUBSET Rank |->
                        IF s = {} THEN 0 ELSE c[SomeOf(s)][d] + it[s \ {SomeOf(s)}]]
    BY <1>2, <1>4
  <2> QED
    BY <2>1, Zenon DEF Total, MapThenSumSet, MapThenFoldSet, SomeOf
<1> QED
  BY <1>1, <1>4, <1>5 DEF SumIs

LEMMA TotalChanges ==
    ASSUME TypeOK, NEW r \in Rank, NEW d \in Rank, NEW by \in Int, Count(r, d, by)
    PROVE  /\ Total(counter, d) \in Int
           /\ Total(counter', d) = Total(counter, d) + by
           /\ \A e \in Rank \ {d} : Total(counter', e) = Total(counter, e)
<1>1. counter \in [Rank -> [Rank -> Int]]
  BY DEF TypeOK
<1>2. counter' \in [Rank -> [Rank -> Int]] /\ counter' = [counter EXCEPT ![r][d] = @ + by]
  BY CountTypes DEF Count
<1>3. \A x \in Rank : Column(counter', d)[x] =
                        Column(counter, d)[x] + (IF x = r THEN by ELSE 0)
  BY <1>1, <1>2 DEF Column
<1>4. \A e \in Rank \ {d} : \A x \in Rank :
        Column(counter', e)[x] = Column(counter, e)[x] + (IF x = r THEN 0 ELSE 0)
  BY <1>1, <1>2 DEF Column
<1>5. ASSUME NEW e \in Rank, NEW k \in Int,
             \A x \in Rank : Column(counter', e)[x] =
                              Column(counter, e)[x] + (IF x = r THEN k ELSE 0)
      PROVE  Total(counter, e) \in Int /\ Total(counter', e) = Total(counter, e) + k
  <2>1. PICK g \in [Rank -> Int] : g = Column(counter, e)
    BY <1>1, TotalIsSum
  <2>2. PICK h \in [Rank -> Int] : h = Column(counter', e)
    BY <1>2, TotalIsSum
  <2>3. SumIs(Total(counter, e), g, Rank)
    BY <1>1, <2>1, TotalIsSum
  <2>4. SumIs(Total(counter', e), h, Rank)
    BY <1>2, <2>2, TotalIsSum
  <2>5. ChangesBy(h, g, Rank, r, k)
    BY <1>5, <2>1, <2>2 DEF ChangesBy
  <2>6. PICK v : v = Total(counter, e)
    OBVIOUS
  <2>7. PICK w : w = Total(counter', e)
    OBVIOUS
  <2>8. SumIs(v, g, Rank) /\ SumIs(w, h, Rank)
    BY <2>3, <2>4, <2>6, <2>7
  <2>9. v \in Int /\ w = v + k
    BY <2>5, <2>8, RankIsFinite, SumIsChanged
  <2> QED
    BY <2>6, <2>7, <2>9
<1>6. Total(counter, d) \in Int /\ Total(counter', d) = Total(counter, d) + by
  BY <1>3, <1>5
<1>7. ASSUME NEW e \in Rank \ {d} PROVE Total(counter', e) = Total(counter, e)
  <2>1. Total(counter, e) \in Int /\ Total(counter', e) = Total(counter, e) + 0
    BY <1>4, <1>5
  <2> QED
    BY <2>1
<1> QED
  BY <1>6, <1>7

(***************************************************************************)
(* ... then the white messages on the way to it.                           *)
(***************************************************************************)
White(m) == IsSim(m) /\ m.colour = "white"
WhiteIn(q) == {i \in DOMAIN q : White(q[i])}
Slot(s, i) == <<s, i>>
Transit(c, d) == UNION {{<<s, i>> : i \in WhiteIn(c[s][d])} : s \in Rank}

LEMMA InTransitIsTransit ==
    \A d \in Rank : InTransit(d) = Transit(channel, d) /\ InTransit(d)' = Transit(channel', d)
BY DEF InTransit, Transit, WhiteIn, White

LEMMA SlotsInTransit ==
    ASSUME NEW c, NEW d
    PROVE  /\ \A x \in Transit(c, d) :
                \E s, i : s \in Rank /\ i \in WhiteIn(c[s][d]) /\ x = Slot(s, i)
           /\ \A s \in Rank : \A i \in WhiteIn(c[s][d]) : Slot(s, i) \in Transit(c, d)
BY DEF Transit, Slot

LEMMA SameTransit ==
    ASSUME NEW b, NEW c, NEW d, \A s \in Rank : WhiteIn(b[s][d]) = WhiteIn(c[s][d])
    PROVE  Transit(b, d) = Transit(c, d)
BY DEF Transit

LEMMA Slots == \A s, i, t, j : Slot(s, i) = Slot(t, j) => s = t /\ i = j
BY DEF Slot

\* A message is sent to d.
Appended(c, k, s, d, m) ==
    \A a, e \in Rank : k[a][e] = IF a = s /\ e = d THEN Append(c[a][e], m) ELSE c[a][e]

GoesOnItsWay(c, k, d, m) ==
    /\ \A e \in Rank \ {d} : Transit(k, e) = Transit(c, e)
    /\ IsFiniteSet(Transit(c, d)) =>
         /\ IsFiniteSet(Transit(k, d))
         /\ Cardinality(Transit(k, d)) =
              Cardinality(Transit(c, d)) + (IF White(m) THEN 1 ELSE 0)

LEMMA TransitAppended ==
    ASSUME NEW c \in [Rank -> [Rank -> Seq(Message)]], NEW k,
           NEW s \in Rank, NEW d \in Rank, NEW m \in Message,
           Appended(c, k, s, d, m)
    PROVE  GoesOnItsWay(c, k, d, m)
<1> DEFINE q == c[s][d]
<1>1. /\ \A a, e \in Rank : e # d => k[a][e] = c[a][e]
      /\ \A a \in Rank : a # s => k[a][d] = c[a][d]
      /\ k[s][d] = Append(q, m) /\ q \in Seq(Message)
  BY DEF Appended
<1>2. \A e \in Rank \ {d} : Transit(k, e) = Transit(c, e)
  <2>1. \A e \in Rank \ {d} : \A a \in Rank : WhiteIn(k[a][e]) = WhiteIn(c[a][e])
    BY <1>1
  <2> QED
    BY <2>1, SameTransit
<1>3. PICK n \in Nat : n = Len(q) + 1
  BY <1>1
<1>4. /\ DOMAIN q = 1..(n - 1) /\ DOMAIN Append(q, m) = 1..n
      /\ \A i \in 1..(n - 1) : Append(q, m)[i] = q[i]
      /\ Append(q, m)[n] = m /\ n \in 1..n
  BY <1>1, <1>3
<1>5. \A i \in 1..n : i = n \/ i \in 1..(n - 1)
  OBVIOUS
<1>6. (1..(n - 1)) \subseteq 1..n /\ n \notin 1..(n - 1)
  OBVIOUS
<1> HIDE DEF q
<1>7. WhiteIn(Append(q, m)) = WhiteIn(q) \cup (IF White(m) THEN {n} ELSE {})
  BY <1>4, <1>5, <1>6, Zenon DEF WhiteIn
<1>8. n \notin WhiteIn(q)
  BY <1>4, <1>6, Zenon DEF WhiteIn
<1>9. Slot(s, n) \notin Transit(c, d)
  BY <1>8, SlotsInTransit, Slots DEF q
<1>10. CASE White(m)
  <2>1. Transit(k, d) = Transit(c, d) \cup {Slot(s, n)}
    <3>1. WhiteIn(k[s][d]) = WhiteIn(c[s][d]) \cup {n}
      BY <1>1, <1>7, <1>10 DEF q
    <3>2. ASSUME NEW x \in Transit(k, d)
          PROVE  x \in Transit(c, d) \cup {Slot(s, n)}
      <4>1. PICK a, i : a \in Rank /\ i \in WhiteIn(k[a][d]) /\ x = Slot(a, i)
        <5>1. \A y \in Transit(k, d) :
                \E b, j : b \in Rank /\ j \in WhiteIn(k[b][d]) /\ y = Slot(b, j)
          BY SlotsInTransit
        <5> QED
          BY <3>2, <5>1
      <4>2. CASE a = s
        BY <3>1, <4>1, <4>2, SlotsInTransit
      <4>3. CASE a # s
        BY <1>1, <4>1, <4>3, SlotsInTransit
      <4> QED
        BY <4>2, <4>3
    <3>3. ASSUME NEW x \in Transit(c, d) PROVE x \in Transit(k, d)
      <4>1. PICK a, i : a \in Rank /\ i \in WhiteIn(c[a][d]) /\ x = Slot(a, i)
        BY <3>3, SlotsInTransit
      <4>2. CASE a = s
        BY <3>1, <4>1, <4>2, SlotsInTransit
      <4>3. CASE a # s
        BY <1>1, <4>1, <4>3, SlotsInTransit
      <4> QED
        BY <4>2, <4>3
    <3>4. Slot(s, n) \in Transit(k, d)
      BY <3>1, SlotsInTransit
    <3> QED
      BY <3>2, <3>3, <3>4
  <2>2. IsFiniteSet(Transit(c, d)) =>
          /\ IsFiniteSet(Transit(c, d) \cup {Slot(s, n)})
          /\ Cardinality(Transit(c, d) \cup {Slot(s, n)}) =
               Cardinality(Transit(c, d)) + 1
    BY <1>9, FS_AddElement
  <2> QED
    BY <1>2, <1>10, <2>1, <2>2 DEF GoesOnItsWay
<1>11. CASE ~White(m)
  <2>1. WhiteIn(k[s][d]) = WhiteIn(c[s][d])
    BY <1>1, <1>7, <1>11 DEF q
  <2>2. \A a \in Rank : WhiteIn(k[a][d]) = WhiteIn(c[a][d])
    BY <1>1, <2>1
  <2>3. Transit(k, d) = Transit(c, d)
    BY <2>2, SameTransit
  <2>4. IsFiniteSet(Transit(c, d)) => Cardinality(Transit(c, d)) \in Nat
    BY FS_CardinalityType
  <2>5. IsFiniteSet(Transit(c, d)) =>
          Cardinality(Transit(c, d)) + 0 = Cardinality(Transit(c, d))
    BY <2>4
  <2> QED
    BY <1>2, <1>11, <2>3, <2>5 DEF GoesOnItsWay
<1> QED
  BY <1>10, <1>11

\* A message is taken at d: those behind it move up by one.
LEMMA TransitTaken ==
    ASSUME TypeOK, NEW s \in Rank, NEW d \in Rank, NEW m, Arrives(s, d, m)
    PROVE  /\ \A e \in Rank \ {d} : Transit(channel', e) = Transit(channel, e)
           /\ IsFiniteSet(Transit(channel, d)) =>
                /\ IsFiniteSet(Transit(channel', d))
                /\ Cardinality(Transit(channel', d)) =
                     Cardinality(Transit(channel, d)) - (IF White(m) THEN 1 ELSE 0)
<1> DEFINE q == channel[s][d]
           T0 == Transit(channel, d) \ {Slot(s, 1)}
           T1 == Transit(channel', d)
<1>0. channel \in [Rank -> [Rank -> Seq(Message)]]
  BY DEF TypeOK
<1>1. /\ \A a, e \in Rank : e # d => channel'[a][e] = channel[a][e]
      /\ \A a \in Rank : a # s => channel'[a][d] = channel[a][d]
      /\ channel'[s][d] = Tail(q) /\ q \in Seq(Message) /\ q # << >> /\ m = Head(q)
  BY <1>0 DEF Arrives
<1>2. \A e \in Rank \ {d} : Transit(channel', e) = Transit(channel, e)
  BY <1>1, SameTransit
<1>3. /\ Len(q) \in Nat /\ 1 \in DOMAIN q /\ q[1] = m
      /\ DOMAIN q = 1..Len(q) /\ DOMAIN Tail(q) = 1..(Len(q) - 1)
      /\ \A i \in DOMAIN Tail(q) : /\ Tail(q)[i] = q[i + 1]
                                   /\ i + 1 \in DOMAIN q /\ i + 1 # 1
      /\ \A i \in DOMAIN q : i = 1 \/ i - 1 \in DOMAIN Tail(q)
  <2> HIDE DEF q
  <2> QED
    BY <1>1, TailElements
<1> HIDE DEF q
<1>4. \A i \in WhiteIn(Tail(q)) : i \in Nat /\ i + 1 \in WhiteIn(q) /\ i + 1 # 1
  <2>1. ASSUME NEW i \in WhiteIn(Tail(q))
        PROVE  i \in Nat /\ i + 1 \in WhiteIn(q) /\ i + 1 # 1
    <3>1. i \in DOMAIN Tail(q) /\ White(Tail(q)[i])
      BY DEF WhiteIn
    <3>2. White(q[i + 1])
      BY <1>3, <3>1, Zenon
    <3> QED
      BY <1>3, <3>1, <3>2 DEF WhiteIn
  <2> QED
    BY <2>1
<1>5. \A i \in WhiteIn(q) : i \in Nat /\ (i = 1 \/ i - 1 \in WhiteIn(Tail(q)))
  <2>1. ASSUME NEW i \in WhiteIn(q), i # 1 PROVE i - 1 \in WhiteIn(Tail(q))
    <3>1. i \in DOMAIN q /\ White(q[i]) /\ i - 1 \in DOMAIN Tail(q) /\ (i - 1) + 1 = i
      BY <1>3, <2>1 DEF WhiteIn
    <3>2. White(Tail(q)[i - 1])
      BY <1>3, <3>1, Zenon
    <3> QED
      BY <3>1, <3>2 DEF WhiteIn
  <2>2. \A i \in WhiteIn(q) : i \in Nat
    BY <1>3 DEF WhiteIn
  <2> QED
    BY <2>1, <2>2
<1>6. Slot(s, 1) \in Transit(channel, d) <=> White(m)
  <2>1. White(m) => 1 \in WhiteIn(q)
    BY <1>3, Zenon DEF WhiteIn
  <2>2. 1 \in WhiteIn(q) => White(m)
    BY <1>3, Zenon DEF WhiteIn
  <2>3. 1 \in WhiteIn(q) => Slot(s, 1) \in Transit(channel, d)
    BY SlotsInTransit DEF q
  <2>4. Slot(s, 1) \in Transit(channel, d) => 1 \in WhiteIn(q)
    BY SlotsInTransit, Slots DEF q
  <2> QED
    BY <2>1, <2>2, <2>3, <2>4
<1>7. ExistsBijection(T1, T0)
  <2> DEFINE F(x) == IF x[1] = s THEN Slot(s, x[2] + 1) ELSE x
             f == [x \in T1 |-> F(x)]
  <2>1. \A a, i : Slot(a, i)[1] = a /\ Slot(a, i)[2] = i
    BY DEF Slot
  <2>2. /\ \A i \in WhiteIn(Tail(q)) : F(Slot(s, i)) = Slot(s, i + 1)
        /\ \A a, i : a # s => F(Slot(a, i)) = Slot(a, i)
    BY <2>1
  <2> HIDE DEF F
  <2>3. \A x \in T1 : \/ \E i \in WhiteIn(Tail(q)) : x = Slot(s, i)
                      \/ \E a \in Rank : a # s /\ \E i \in WhiteIn(channel[a][d]) :
                           x = Slot(a, i)
    <3>1. \A x \in Transit(channel', d) :
            \E b, j : b \in Rank /\ j \in WhiteIn(channel'[b][d]) /\ x = Slot(b, j)
      BY SlotsInTransit
    <3> QED
      BY <1>1, <3>1
  <2>4. ASSUME NEW x \in T1 PROVE F(x) \in T0
    <3>1. ASSUME NEW i \in WhiteIn(Tail(q)), x = Slot(s, i) PROVE F(x) \in T0
      <4>1. F(x) = Slot(s, i + 1) /\ i + 1 \in WhiteIn(channel[s][d]) /\ i + 1 # 1
        BY <1>4, <2>2, <3>1 DEF q
      <4> QED
        BY <4>1, SlotsInTransit, Slots
    <3>2. ASSUME NEW a \in Rank, a # s, NEW i \in WhiteIn(channel[a][d]), x = Slot(a, i)
          PROVE  F(x) \in T0
      <4>1. F(x) = Slot(a, i)
        BY <2>2, <3>2
      <4> QED
        BY <3>2, <4>1, SlotsInTransit, Slots
    <3> QED
      BY <2>3, <2>4, <3>1, <3>2
  <2>5. ASSUME NEW y \in T0 PROVE \E x \in T1 : F(x) = y
    <3>1. PICK a, i : a \in Rank /\ i \in WhiteIn(channel[a][d]) /\ y = Slot(a, i)
      BY SlotsInTransit
    <3>2. CASE a = s
      <4>1. i - 1 \in WhiteIn(Tail(q)) /\ (i - 1) + 1 = i
        BY <1>5, <3>1, <3>2 DEF q
      <4>2. Slot(s, i - 1) \in T1 /\ F(Slot(s, i - 1)) = y
        BY <1>1, <2>2, <3>1, <3>2, <4>1, SlotsInTransit
      <4> QED
        BY <4>2
    <3>3. CASE a # s
      <4>1. Slot(a, i) \in T1 /\ F(Slot(a, i)) = y
        BY <1>1, <2>2, <3>1, <3>3, SlotsInTransit
      <4> QED
        BY <4>1
    <3> QED
      BY <3>2, <3>3
  <2>6. ASSUME NEW x \in T1, NEW y \in T1, F(x) = F(y) PROVE x = y
    <3>1. ASSUME NEW i \in WhiteIn(Tail(q)), NEW j \in WhiteIn(Tail(q)),
                 x = Slot(s, i), y = Slot(s, j)
          PROVE  x = y
      <4>1. Slot(s, i + 1) = Slot(s, j + 1)
        BY <2>2, <2>6, <3>1
      <4>2. i + 1 = j + 1 /\ i \in Nat /\ j \in Nat
        BY <1>4, <4>1, Slots
      <4> QED
        BY <3>1, <4>2
    <3>2. ASSUME NEW a, a # s, NEW i, x = Slot(a, i), NEW b, b # s, NEW j, y = Slot(b, j)
          PROVE  x = y
      BY <2>2, <2>6, <3>2
    <3>3. ASSUME NEW i \in WhiteIn(Tail(q)), x = Slot(s, i), NEW b, b # s, NEW j,
                 y = Slot(b, j)
          PROVE  FALSE
      BY <2>2, <2>6, <3>3, Slots
    <3>4. ASSUME NEW i \in WhiteIn(Tail(q)), y = Slot(s, i), NEW b, b # s, NEW j,
                 x = Slot(b, j)
          PROVE  FALSE
      BY <2>2, <2>6, <3>4, Slots
    <3> QED
      BY <2>3, <3>1, <3>2, <3>3, <3>4
  <2>7. f \in [T1 -> T0] /\ \A x \in T1 : f[x] = F(x)
    BY <2>4
  <2> HIDE DEF f, T0, T1
  <2>8. f \in Bijection(T1, T0)
    BY <2>5, <2>6, <2>7, Fun_IsBij
  <2> QED
    BY <2>8, Fun_ExistsBij
<1>8. ASSUME IsFiniteSet(Transit(channel, d))
      PROVE  /\ IsFiniteSet(T1)
             /\ Cardinality(T1) = Cardinality(Transit(channel, d)) - (IF White(m) THEN 1 ELSE 0)
  <2>1. /\ IsFiniteSet(T0) /\ Cardinality(Transit(channel, d)) \in Nat
        /\ Cardinality(T0) = Cardinality(Transit(channel, d)) -
                               (IF Slot(s, 1) \in Transit(channel, d) THEN 1 ELSE 0)
    BY <1>8, FS_RemoveElement, FS_CardinalityType
  <2> HIDE DEF T0, T1
  <2>2. ExistsBijection(T0, T1)
    BY <1>7, Fun_ExistsBijSymmetric
  <2>3. IsFiniteSet(T1) /\ Cardinality(T1) = Cardinality(T0)
    BY <2>1, <2>2, FS_Bijection
  <2> QED
    BY <1>6, <2>1, <2>3
<1> QED
  BY <1>2, <1>8

(***************************************************************************)
(* What is counted and not yet received is in transit, but for the excess. *)
(***************************************************************************)
Balance ==
    \A d \in Rank :
      /\ IsFiniteSet(Transit(channel, d))
      /\ Total(counter, d) = Cardinality(Transit(channel, d)) + excess[d]

LEMMA BalanceUnchanged ==
    Balance /\ UNCHANGED <<counter, channel, excess>> => Balance'
BY DEF Balance

LEMMA InitBalance == Init => Balance
<1> SUFFICES ASSUME Init, NEW d \in Rank
             PROVE  /\ IsFiniteSet(Transit(channel, d))
                    /\ Total(counter, d) = Cardinality(Transit(channel, d)) + excess[d]
  BY DEF Balance
<1>1. Transit(channel, d) = {}
  <2>1. \A s \in Rank : WhiteIn(channel[s][d]) = {}
    BY DEF Init, WhiteIn
  <2> QED
    BY <2>1, SlotsInTransit
<1>2. counter \in [Rank -> [Rank -> Int]] /\ \A r \in Rank : counter[r][d] = 0
  BY DEF Init
<1>3. PICK g \in [Rank -> Int] : g = Column(counter, d)
  BY <1>2, TotalIsSum
<1>4. \A r \in Rank : g[r] = 0
  BY <1>2, <1>3 DEF Column
<1>5. PICK it : IsSumOf(it, g, Rank) /\ Total(counter, d) = it[Rank]
  BY <1>2, <1>3, TotalIsSum DEF SumIs
<1>6. it[Rank] = 0
  BY <1>4, <1>5, RankIsFinite, SumOfZeros
<1>7. excess[d] = 0
  BY DEF Init
<1> QED
  BY <1>1, <1>5, <1>6, <1>7, FS_EmptySet

LEMMA SendControlKeepsBalance ==
    ASSUME TypeOK, Balance, NEW r \in Rank, SendControl(r)
    PROVE  Balance'
<1>1. PICK m : m = Head(controlQueue[r])
  OBVIOUS
<1>2. m \in Message /\ m.dest \in Rank /\ ~White(m)
  BY <1>1, ControlQueueTypes, RingKinds, Kinds DEF SendControl, White
<1>3. PICK d \in Rank : d = m.dest
  BY <1>2
<1>4. channel' = [channel EXCEPT ![r][d] = Append(@, m)]
  BY <1>1, <1>3 DEF SendControl
<1>5. channel \in [Rank -> [Rank -> Seq(Message)]]
  BY DEF TypeOK
<1>6. Appended(channel, channel', r, d, m)
  BY <1>4, <1>5 DEF Appended
<1>7. GoesOnItsWay(channel, channel', d, m)
  <2>1. PICK c \in [Rank -> [Rank -> Seq(Message)]] : c = channel
    BY <1>5
  <2>2. PICK k : k = channel'
    OBVIOUS
  <2>3. Appended(c, k, r, d, m)
    BY <1>6, <2>1, <2>2
  <2>4. GoesOnItsWay(c, k, d, m)
    BY <1>2, <2>3, TransitAppended
  <2> QED
    BY <2>1, <2>2, <2>4
<1>8. UNCHANGED <<counter, excess>>
  BY DEF SendControl, countVars
<1>9. ASSUME NEW e \in Rank
      PROVE  /\ IsFiniteSet(Transit(channel', e))
             /\ Cardinality(Transit(channel', e)) = Cardinality(Transit(channel, e))
  <2>1. IsFiniteSet(Transit(channel, e)) /\ Cardinality(Transit(channel, e)) \in Nat
    BY FS_CardinalityType DEF Balance
  <2> QED
    BY <1>2, <1>7, <2>1 DEF GoesOnItsWay
<1> QED
  BY <1>8, <1>9 DEF Balance

LEMMA SendCountKeepsBalance ==
    ASSUME TypeOK, Balance, NEW r \in Rank, SendCount(r)
    PROVE  Balance'
<1>1. PICK m : m = sending[r]
  OBVIOUS
<1>2. m \in SimMessage /\ m \in Message /\ m.dest \in Rank /\ IsSim(m)
  BY <1>1 DEF SendCount, TypeOK, Message, SimMessage, IsSim
<1>3. PICK d \in Rank : d = m.dest
  BY <1>2
<1>4. PICK up \in {0, 1} : up = IF CountsSent(r, m) THEN 1 ELSE 0
  OBVIOUS
<1>40. /\ channel' = [channel EXCEPT ![r][d] = Append(@, m)]
       /\ excess' = [excess EXCEPT ![d] = @ + up - (IF White(m) THEN 1 ELSE 0)]
       /\ up = 1 => Count(r, d, 1)
       /\ up = 0 => UNCHANGED counter
  BY <1>1, <1>2, <1>3, <1>4 DEF SendCount, White
<1>5. channel \in [Rank -> [Rank -> Seq(Message)]]
  BY DEF TypeOK
<1>6. Appended(channel, channel', r, d, m)
  BY <1>40, <1>5 DEF Appended
<1>7. GoesOnItsWay(channel, channel', d, m)
  <2>1. PICK c \in [Rank -> [Rank -> Seq(Message)]] : c = channel
    BY <1>5
  <2>2. PICK k : k = channel'
    OBVIOUS
  <2>3. Appended(c, k, r, d, m)
    BY <1>6, <2>1, <2>2
  <2>4. GoesOnItsWay(c, k, d, m)
    BY <1>2, <2>3, TransitAppended
  <2> QED
    BY <2>1, <2>2, <2>4
<1>8. ASSUME NEW e \in Rank PROVE IsFiniteSet(Transit(channel', e))
  BY <1>7 DEF Balance, GoesOnItsWay
<1>9. \A e \in Rank : /\ IsFiniteSet(Transit(channel, e))
                      /\ Cardinality(Transit(channel, e)) \in Nat
                      /\ excess[e] \in Int
                      /\ Total(counter, e) = Cardinality(Transit(channel, e)) + excess[e]
  BY FS_CardinalityType DEF Balance, TypeOK
<1>10. /\ Total(counter', d) = Total(counter, d) + up
       /\ \A x \in Rank \ {d} : Total(counter', x) = Total(counter, x)
  <2>1. CASE up = 1
    BY <1>40, <2>1, TotalChanges
  <2>2. CASE up = 0
    <3>1. \A x \in Rank : Total(counter', x) = Total(counter, x) /\ Total(counter, x) \in Int
      BY <1>9, <1>40, <2>2
    <3> QED
      BY <2>2, <3>1
  <2> QED
    BY <2>1, <2>2
<1>11. PICK white \in {0, 1} : white = IF White(m) THEN 1 ELSE 0
  OBVIOUS
<1>12. /\ excess'[d] = excess[d] + up - white
       /\ \A x \in Rank \ {d} : excess'[x] = excess[x]
  BY <1>11, <1>40 DEF TypeOK
<1>13. ASSUME NEW e \in Rank
       PROVE  Total(counter', e) = Cardinality(Transit(channel', e)) + excess'[e]
  <2>1. CASE e = d
    <3>1. Cardinality(Transit(channel', d)) = Cardinality(Transit(channel, d)) + white
      BY <1>7, <1>9, <1>11 DEF GoesOnItsWay
    <3> QED
      BY <1>9, <1>10, <1>12, <2>1, <3>1
  <2>2. CASE e # d
    BY <1>7, <1>9, <1>10, <1>12, <2>2 DEF GoesOnItsWay
  <2> QED
    BY <2>1, <2>2
<1> QED
  BY <1>8, <1>13 DEF Balance

LEMMA ArrivalKeepsBalance ==
    ASSUME TypeOK, Balance, NEW s \in Rank, NEW r \in Rank, NEW m, Arrives(s, r, m),
           White(m) => Count(r, r, -1), ~White(m) => UNCHANGED counter, UNCHANGED excess
    PROVE  Balance'
<1>1. /\ \A e \in Rank \ {r} : Transit(channel', e) = Transit(channel, e)
      /\ IsFiniteSet(Transit(channel, r)) =>
           /\ IsFiniteSet(Transit(channel', r))
           /\ Cardinality(Transit(channel', r)) =
                Cardinality(Transit(channel, r)) - (IF White(m) THEN 1 ELSE 0)
  BY TransitTaken
<1>2. ASSUME NEW e \in Rank PROVE IsFiniteSet(Transit(channel', e))
  BY <1>1 DEF Balance
<1>3. ASSUME NEW e \in Rank
      PROVE  Total(counter', e) = Cardinality(Transit(channel', e)) + excess'[e]
  <2>1. /\ IsFiniteSet(Transit(channel, e)) /\ Cardinality(Transit(channel, e)) \in Nat
        /\ excess'[e] = excess[e] /\ excess[e] \in Int
        /\ Total(counter, e) = Cardinality(Transit(channel, e)) + excess[e]
    BY FS_CardinalityType DEF Balance, TypeOK
  <2>2. CASE White(m)
    <3>1. /\ Total(counter', r) = Total(counter, r) + -1
          /\ \A x \in Rank \ {r} : Total(counter', x) = Total(counter, x)
      BY <2>2, TotalChanges
    <3> QED
      BY <1>1, <2>1, <2>2, <3>1
  <2>3. CASE ~White(m)
    <3>1. Total(counter', e) = Total(counter, e)
      BY <2>3
    <3> QED
      BY <1>1, <2>1, <2>3, <3>1
  <2> QED
    BY <2>2, <2>3
<1> QED
  BY <1>2, <1>3 DEF Balance

LEMMA ReceiveKeepsBalance ==
    ASSUME TypeOK, Balance, NEW s \in Rank, NEW r \in Rank, Receive(s, r)
    PROVE  Balance'
<1>1. PICK m : \/ ReceivesSim(s, r, m)
               \/ r = Starter /\ ReceiveGvtRequest(s, m)
               \/ ReceiveGvtValue(s, r, m)
               \/ FirstCut(s, r, m)
               \/ SecondCutArrives(s, r, m)
  BY DEF Receive, ReceivesSim
<1>2. Arrives(s, r, m) /\ excess' = excess
  BY <1>1, Receiving DEF ReceiveGvtRequest, ReceiveGvtValue, FirstCut, SecondCutArrives
<1>3. CASE ReceivesSim(s, r, m)
  <2>1. CountReceived(r, m) /\ IsSim(m)
    BY <1>3, Receiving
  <2>2. /\ White(m) => Count(r, r, -1)
        /\ ~White(m) => UNCHANGED counter
    BY <2>1 DEF CountReceived, White
  <2> QED
    BY <1>2, <2>2, ArrivalKeepsBalance
<1>4. CASE \/ r = Starter /\ ReceiveGvtRequest(s, m)
           \/ ReceiveGvtValue(s, r, m)
           \/ FirstCut(s, r, m)
           \/ SecondCutArrives(s, r, m)
  <2>1. ~White(m) /\ UNCHANGED counter
    BY <1>4 DEF ReceiveGvtRequest, ReceiveGvtValue, FirstCut, SecondCutArrives, White, IsSim,
       SimTypes, countVars
  <2> QED
    BY <1>2, <2>1, ArrivalKeepsBalance
<1> QED
  BY <1>1, <1>3, <1>4

LEMMA NextKeepsBalance == TypeOK /\ Balance /\ [Next]_vars => Balance'
<1> SUFFICES ASSUME TypeOK, Balance, [Next]_vars PROVE Balance'
  OBVIOUS
<1>1. ASSUME NEW a \in Alp, SendGvtRequest(a) \/ \E t \in 0..MaxTime : SendRequest(a, t)
      PROVE  Balance'
  BY <1>1, BalanceUnchanged DEF SendGvtRequest, SendRequest, countVars
<1>2. ASSUME NEW r \in Rank, SendStamp(r) \/ SecondCutContinues(r) PROVE Balance'
  <2>1. UNCHANGED <<counter, channel, excess>>
    BY <1>2 DEF SendStamp, SecondCutContinues, countVars
  <2> QED
    BY <2>1, BalanceUnchanged
<1>3. CASE UNCHANGED vars
  BY <1>3, BalanceUnchanged DEF vars
<1> QED
  BY <1>1, <1>2, <1>3, SendControlKeepsBalance, SendCountKeepsBalance, ReceiveKeepsBalance
     DEF Next, Goes, Send

\* For every destination the counters of all LPs add up to the white messages on
\* the way to it and the excess, across cuts, colour changes and overlapping rounds: the
\* messages stamped in one colour and counted in the other (Lp.cpp:29-31) and the white
\* anti-messages that a CLP passes on uncounted (Clp.cpp:173) are all that it is made of.
THEOREM CountersAlwaysAddUp == Spec => []CountersAddUp
<1>1. Init => TypeOK /\ Balance
  BY InitTypes, InitBalance DEF TypeInv
<1>2. Balance => CountersAddUp
  BY InTransitIsTransit DEF Balance, CountersAddUp, Total
<1>3. Spec => []TypeOK
  BY TypeCorrect
<1> QED
  BY <1>1, <1>2, <1>3, NextKeepsBalance, PTL DEF Spec

-----------------------------------------------------------------------------
(***************************************************************************)
(* The wait of the second cut.  What a control message has gathered for a  *)
(* rank is no more than what the LPs it has visited have counted for it.   *)
(* The counters that a rank has for itself only fall, the others only      *)
(* rise, so it stays so until the message comes to that rank, where the    *)
(* own counter completes the sum that the balance is about.                *)
(***************************************************************************)
CountersSigned ==
    \A s, d \in Rank : /\ s # d => counter[s][d] >= 0
                       /\ s = d => counter[s][d] <= 0
                       /\ d \notin entries[s] => counter[s][d] = 0

CountersRise == \A s, d \in Rank : s # d => counter[s][d] <= counter'[s][d]

\* What a step does to the counters.
CounterStep(r) ==
    \/ \E d \in Rank \ {r} : Count(r, d, 1)
    \/ Count(r, r, -1)
    \/ UNCHANGED <<counter, entries>>

LEMMA CounterStepKeepsSigned ==
    ASSUME TypeOK, CountersSigned, NEW r \in Rank, CounterStep(r)
    PROVE  CountersSigned' /\ CountersRise
<1>1. counter \in [Rank -> [Rank -> Int]] /\ entries \in [Rank -> SUBSET Rank]
  BY DEF TypeOK
<1>2. ASSUME NEW d \in Rank, NEW by \in Int, Count(r, d, by),
             d # r => by = 1, d = r => by = -1
      PROVE  CountersSigned' /\ CountersRise
  <2>1. \A s, e \in Rank :
          /\ counter'[s][e] = IF s = r /\ e = d THEN counter[s][e] + by ELSE counter[s][e]
          /\ counter[s][e] \in Int
    BY <1>1, <1>2 DEF Count
  <2>2. \A s \in Rank : entries[s] \subseteq entries'[s] /\ (s = r => d \in entries'[s])
    BY <1>1, <1>2 DEF Count
  <2>3. ASSUME NEW s \in Rank, NEW e \in Rank
        PROVE  /\ s # e => counter'[s][e] >= 0 /\ counter[s][e] <= counter'[s][e]
               /\ s = e => counter'[s][e] <= 0
               /\ e \notin entries'[s] => counter'[s][e] = 0
    <3>1. /\ s # e => counter[s][e] >= 0
          /\ s = e => counter[s][e] <= 0
          /\ e \notin entries[s] => counter[s][e] = 0
      BY DEF CountersSigned
    <3>2. CASE s = r /\ e = d
      BY <1>2, <2>1, <2>2, <3>1, <3>2
    <3>3. CASE ~(s = r /\ e = d)
      BY <2>1, <2>2, <3>1, <3>3
    <3> QED
      BY <3>2, <3>3
  <2> QED
    BY <2>3 DEF CountersSigned, CountersRise
<1>3. ASSUME UNCHANGED <<counter, entries>> PROVE CountersSigned' /\ CountersRise
  <2>1. \A s, e \in Rank : counter[s][e] \in Int
    BY <1>1
  <2> QED
    BY <1>3, <2>1 DEF CountersSigned, CountersRise
<1> QED
  BY <1>2, <1>3 DEF CounterStep

LEMMA NextStepsCounters ==
    ASSUME TypeInv, [Next]_vars
    PROVE  \E r \in Rank : CounterStep(r)
<1>0. TypeOK /\ Starter \in Rank
  BY Bounds DEF TypeInv
<1>1. CASE UNCHANGED <<counter, entries>>
  BY <1>0, <1>1 DEF CounterStep
<1>2. ASSUME NEW r \in Rank, SendCount(r) PROVE CounterStep(r)
  <2>1. PICK m : m = sending[r]
    OBVIOUS
  <2>2. m \in ToOthers(r)
    BY <1>2, <2>1 DEF SendCount, TypeInv
  <2>3. m.dest \in Rank \ {r}
    BY <2>2 DEF ToOthers, SimMessage
  <2>4. Count(r, m.dest, 1) \/ UNCHANGED <<counter, entries>>
    BY <1>2, <2>1, Zenon DEF SendCount
  <2> QED
    BY <2>3, <2>4 DEF CounterStep
<1>3. ASSUME NEW s \in Rank, NEW r \in Rank, NEW m, ReceivesSim(s, r, m)
      PROVE  CounterStep(r)
  <2>1. CountReceived(r, m)
    BY <1>3, Receiving
  <2> QED
    BY <2>1 DEF CountReceived, CounterStep
<1>4. ASSUME NEW s \in Rank, NEW r \in Rank, NEW m,
             \/ ReceiveGvtRequest(s, m)
             \/ ReceiveGvtValue(s, r, m)
             \/ FirstCut(s, r, m)
             \/ SecondCutArrives(s, r, m)
      PROVE  UNCHANGED <<counter, entries>>
  BY <1>4 DEF ReceiveGvtRequest, ReceiveGvtValue, FirstCut, SecondCutArrives, countVars
<1>5. ASSUME NEW s \in Rank, NEW r \in Rank, Receive(s, r)
      PROVE  CounterStep(r) \/ UNCHANGED <<counter, entries>>
  BY <1>3, <1>4, <1>5, Zenon DEF Receive, ReceivesSim
<1>6. ASSUME NEW a \in Alp, SendGvtRequest(a) \/ \E t \in 0..MaxTime : SendRequest(a, t)
      PROVE  UNCHANGED <<counter, entries>>
  BY <1>6 DEF SendGvtRequest, SendRequest, countVars
<1>7. ASSUME NEW r \in Rank, SendControl(r) \/ SendStamp(r) \/ SecondCutContinues(r)
      PROVE  UNCHANGED <<counter, entries>>
  BY <1>7 DEF SendControl, SendStamp, SecondCutContinues, countVars
<1>8. CASE UNCHANGED vars
  BY <1>1, <1>8 DEF vars
<1> QED
  BY <1>1, <1>2, <1>5, <1>6, <1>7, <1>8, Zenon DEF Next, Goes, Send

\* The LPs that a control message has visited in its first cut.
Visited(m) ==
    IF m.cut = "second" THEN Rank
    ELSE IF m.dest = Starter THEN 1..(N - 1) ELSE 1..(m.dest - 1)

\* w[s] is the part of LP s in what was gathered for d by the LPs in S.
Share(w, S, d) ==
    /\ w \in [Rank -> Int]
    /\ \A s \in Rank : /\ w[s] <= (IF s = d THEN 0 ELSE counter[s][d])
                       /\ s \notin S => w[s] = 0

Covered(k, S, d) == \E w, t : Share(w, S, d) /\ SumIs(t, w, Rank) /\ t \in Int /\ k <= t

CutCovered(m) == \A d \in Rank : Covered(m.count[d], Visited(m), d)

GoodRing == {m \in RingMessage : IsControl(m) => CutCovered(m)}
GoodOn(r) == {m \in Message : IsControl(m) => CutCovered(m) /\ m.dest = r}
GoodHeld == {m \in ControlMessage : CutCovered(m) /\ m.cut = "second"}

CutsCovered ==
    /\ \A r \in Rank : controlQueue[r] \in Seq(GoodRing)
    /\ \A s, r \in Rank : channel[s][r] \in Seq(GoodOn(r))
    /\ \A r \in Rank : held[r] \in GoodHeld \cup {NoMessage}

LEMMA CoveredStays ==
    ASSUME TypeOK, TypeOK', CountersRise, NEW k, NEW S, NEW d \in Rank, Covered(k, S, d)
    PROVE  Covered(k, S, d)'
<1>1. PICK w, t : Share(w, S, d) /\ SumIs(t, w, Rank) /\ t \in Int /\ k <= t
  BY DEF Covered
<1>2. \A s \in Rank : counter[s][d] \in Int /\ counter'[s][d] \in Int
  BY DEF TypeOK
<1>3. Share(w, S, d)'
  <2>1. ASSUME NEW s \in Rank PROVE w[s] <= (IF s = d THEN 0 ELSE counter'[s][d])
    BY <1>1, <1>2 DEF Share, CountersRise
  <2> QED
    BY <1>1, <2>1 DEF Share
<1> QED
  BY <1>1, <1>3 DEF Covered

\* It is enough to look at what a step puts where, with the counters as they were.
LEMMA CutsStayCovered ==
    ASSUME TypeOK, TypeOK', CountersRise,
           \A r \in Rank : controlQueue'[r] \in Seq(GoodRing),
           \A s, r \in Rank : channel'[s][r] \in Seq(GoodOn(r)),
           \A r \in Rank : held'[r] \in GoodHeld \cup {NoMessage}
    PROVE  CutsCovered'
<1>1. \A m : CutCovered(m) => CutCovered(m)'
  <2>1. ASSUME NEW m, CutCovered(m), NEW d \in Rank
        PROVE  Covered(m.count[d], Visited(m), d)'
    <3>1. PICK k, S : k = m.count[d] /\ S = Visited(m)
      OBVIOUS
    <3>2. Covered(k, S, d)
      BY <2>1, <3>1 DEF CutCovered
    <3>3. Covered(k, S, d)'
      BY <3>2, CoveredStays
    <3> QED
      BY <3>1, <3>3 DEF Visited
  <2> QED
    BY <2>1 DEF CutCovered
<1>2. /\ GoodRing \subseteq GoodRing' /\ GoodHeld \subseteq GoodHeld'
      /\ \A r \in Rank : GoodOn(r) \subseteq GoodOn(r)'
  BY <1>1 DEF GoodRing, GoodHeld, GoodOn
<1>3. \A r \in Rank : controlQueue'[r] \in Seq(GoodRing')
  BY <1>2
<1>4. \A s, r \in Rank : channel'[s][r] \in Seq(GoodOn(r)')
  BY <1>2
<1>5. \A r \in Rank : held'[r] \in GoodHeld' \cup {NoMessage}
  BY <1>2
<1> QED
  BY <1>3, <1>4, <1>5 DEF CutsCovered

\* Nothing gathered is covered.
LEMMA NothingIsCovered ==
    ASSUME TypeOK, CountersSigned, NEW S, NEW d \in Rank, NEW k \in Int, k <= 0
    PROVE  Covered(k, S, d)
<1>1. PICK w \in [Rank -> Int] : w = [s \in Rank |-> 0]
  <2>1. [s \in Rank |-> 0] \in [Rank -> Int]
    OBVIOUS
  <2> QED
    BY <2>1, Zenon
<1>2. PICK it : IsSumOf(it, w, Rank)
  BY RankIsFinite, SumExists
<1>3. it[Rank] = 0
  BY <1>1, <1>2, RankIsFinite, SumOfZeros
<1>4. SumIs(0, w, Rank)
  BY <1>2, <1>3 DEF SumIs
<1>5. Share(w, S, d)
  BY <1>1 DEF Share, CountersSigned, TypeOK
<1> QED
  BY <1>4, <1>5 DEF Covered

\* One more LP has been visited.
LEMMA OneMoreIsCovered ==
    ASSUME TypeOK, CountersSigned, NEW S, NEW d \in Rank, NEW r \in Rank \ S,
           NEW k \in Int, Covered(k, S, d)
    PROVE  Covered(k + CounterOf(r, d), S \cup {r}, d)
<1>1. PICK w, t : Share(w, S, d) /\ SumIs(t, w, Rank) /\ t \in Int /\ k <= t
  BY DEF Covered
<1>2. /\ counter[r][d] \in Int /\ CounterOf(r, d) \in Int
      /\ CounterOf(r, d) <= counter[r][d]
      /\ r = d => CounterOf(r, d) <= 0
  BY DEF CounterOf, CountersSigned, TypeOK
<1>3. PICK c \in Int : c = CounterOf(r, d)
  BY <1>2
<1>4. w \in [Rank -> Int] /\ w[r] = 0
  BY <1>1 DEF Share
<1>5. PICK h \in [Rank -> Int] : h = [w EXCEPT ![r] = c]
  BY <1>3, <1>4
<1>6. ChangesBy(h, w, Rank, r, c)
  BY <1>3, <1>4, <1>5 DEF ChangesBy
<1>7. PICK it : IsSumOf(it, h, Rank)
  BY RankIsFinite, SumExists
<1>8. PICK u : u = it[Rank]
  OBVIOUS
<1>9. SumIs(u, h, Rank)
  BY <1>7, <1>8 DEF SumIs
<1>10. u = t + c
  <2>1. SumIs(t, w, Rank) /\ w \in [Rank -> Int]
    BY <1>1, <1>4
  <2> QED
    BY ONLY <1>6, <1>9, <2>1, RankIsFinite, SumIsChanged
<1>11. Share(h, S \cup {r}, d)
  BY <1>1, <1>2, <1>3, <1>4, <1>5 DEF Share
<1>12. u \in Int /\ k + c <= u
  BY <1>1, <1>10
<1> QED
  BY <1>3, <1>9, <1>11, <1>12 DEF Covered

\* What is waited for is on the way, or in excess.
LEMMA CoveredIsTransit ==
    ASSUME TypeOK, Balance, CountersSigned, NEW d \in Rank, NEW k \in Int,
           Covered(k, Rank, d)
    PROVE  k + CounterOf(d, d) <= Cardinality(Transit(channel, d)) + excess[d]
<1>1. PICK w, t : Share(w, Rank, d) /\ SumIs(t, w, Rank) /\ t \in Int /\ k <= t
  BY DEF Covered
<1>2. counter \in [Rank -> [Rank -> Int]]
  BY DEF TypeOK
<1>3. PICK g \in [Rank -> Int] : g = Column(counter, d)
  BY <1>2, TotalIsSum
<1>4. PICK v : v = Total(counter, d) /\ SumIs(v, g, Rank)
  BY <1>2, <1>3, TotalIsSum
<1>5. PICK own \in Int : own = counter[d][d]
  BY <1>2
<1>6. PICK h \in [Rank -> Int] : h = [g EXCEPT ![d] = 0]
  <2>1. [g EXCEPT ![d] = 0] \in [Rank -> Int]
    OBVIOUS
  <2> QED
    BY <2>1, Zenon
<1>7. \A s \in Rank : g[s] = counter[s][d]
  BY <1>3 DEF Column
<1>8. ChangesBy(g, h, Rank, d, own)
  BY <1>5, <1>6, <1>7 DEF ChangesBy
<1>9. PICK it : IsSumOf(it, h, Rank)
  BY RankIsFinite, SumExists
<1>10. PICK u : u = it[Rank]
  OBVIOUS
<1>11. SumIs(u, h, Rank)
  BY <1>9, <1>10 DEF SumIs
<1>12. u \in Int /\ v = u + own
  <2>1. SumIs(u, h, Rank) /\ SumIs(v, g, Rank)
    BY <1>4, <1>11
  <2>2. d \in Rank /\ own \in Int /\ g \in [Rank -> Int] /\ h \in [Rank -> Int]
    OBVIOUS
  <2> QED
    BY ONLY <1>8, <2>1, <2>2, RankIsFinite, SumIsChanged, SMTT(60)
<1>13. t <= u
  <2>1. w \in [Rank -> Int] /\ \A s \in Rank : w[s] <= h[s]
    BY <1>1, <1>6, <1>7 DEF Share
  <2> QED
    BY <1>1, <1>11, <2>1, RankIsFinite, SumIsMonotone
<1>14. CounterOf(d, d) \in Int /\ CounterOf(d, d) <= own
  BY <1>2, <1>5 DEF CounterOf, CountersSigned
<1>15. v = Cardinality(Transit(channel, d)) + excess[d]
  BY <1>4 DEF Balance
<1> QED
  BY <1>1, <1>12, <1>13, <1>14, <1>15

\* What is no control message may be anywhere.
LEMMA OthersAreGood ==
    /\ \A m \in RingMessage : ~IsControl(m) => m \in GoodRing
    /\ \A r \in Rank : \A m \in Message : ~IsControl(m) => m \in GoodOn(r)
BY DEF GoodRing, GoodOn

LEMMA EmptyCut ==
    ASSUME TypeOK, CountersSigned, NEW m \in ControlMessage, \A d \in Rank : m.count[d] = 0
    PROVE  CutCovered(m)
<1>1. ASSUME NEW d \in Rank PROVE Covered(m.count[d], Visited(m), d)
  <2>1. PICK k \in Int : k = m.count[d] /\ k <= 0
    OBVIOUS
  <2>0. PICK S : S = Visited(m)
    OBVIOUS
  <2>2. Covered(k, S, d)
    BY <2>1, NothingIsCovered
  <2> QED
    BY <2>1, <2>0, <2>2
<1> QED
  BY <1>1 DEF CutCovered

\* What an LP sends on from the first cut ...
LEMMA FirstCutCovers ==
    ASSUME TypeOK, CountersSigned, NEW r \in Rank, NEW m \in ControlMessage,
           CutCovered(m), m.cut = "first", m.dest = r,
           NEW n \in ControlMessage, n.count = AtFirstCut(r, m).count,
           n.dest = NextInRing(r), n.cut = IF r = Starter THEN "second" ELSE "first"
    PROVE  CutCovered(n)
<1>1. Visited(n) = Visited(m) \cup {r} /\ r \notin Visited(m)
  <2>1. CASE r = Starter
    BY <2>1, Bounds DEF Visited, Rank, Starter
  <2>2. CASE r # Starter /\ r = N - 1
    BY <2>2, Bounds DEF Visited, Rank, Starter, NextInRing
  <2>3. CASE r # Starter /\ r < N - 1
    <3>1. NextInRing(r) = r + 1 /\ r \in Nat
      BY <2>3, Bounds DEF Rank, NextInRing
    <3> QED
      BY <2>3, <3>1, Bounds DEF Visited, Rank, Starter
  <2> QED
    BY <2>1, <2>2, <2>3, Bounds DEF Rank
<1>2. \A d \in Rank : n.count[d] = m.count[d] + CounterOf(r, d) /\ m.count[d] \in Int
  BY DEF AtFirstCut, ControlMessage
<1>3. ASSUME NEW d \in Rank PROVE Covered(n.count[d], Visited(n), d)
  <2>1. PICK k \in Int : k = m.count[d]
    BY <1>2
  <2>0. PICK S : S = Visited(m)
    OBVIOUS
  <2>2. Covered(k, S, d) /\ r \in Rank \ S
    BY <1>1, <2>1, <2>0 DEF CutCovered
  <2>3. Covered(k + CounterOf(r, d), S \cup {r}, d)
    BY <2>2, OneMoreIsCovered
  <2> QED
    BY <1>1, <1>2, <2>1, <2>0, <2>3
<1> QED
  BY <1>3 DEF CutCovered

\* ... and from the second.
LEMMA SecondCutCovers ==
    ASSUME TypeOK, CountersSigned, NEW r \in Rank, NEW m \in ControlMessage,
           CutCovered(m), m.cut = "second",
           NEW n \in ControlMessage, n.count = AtSecondCut(r, m).count, n.cut = "second"
    PROVE  CutCovered(n)
<1>1. m.count \in [Rank -> Int] /\ n.count = [m.count EXCEPT ![r] = 0]
  BY DEF AtSecondCut, ControlMessage
<1>2. ASSUME NEW d \in Rank PROVE Covered(n.count[d], Visited(n), d)
  <2>1. CASE d = r
    <3>1. n.count[d] = 0
      BY <1>1, <2>1
    <3>2. PICK S : S = Visited(n)
      OBVIOUS
    <3>3. Covered(0, S, d)
      BY NothingIsCovered
    <3> QED
      BY <3>1, <3>2, <3>3
  <2>2. CASE d # r
    <3>1. n.count[d] = m.count[d]
      BY <1>1, <2>2
    <3>2. Visited(n) = Visited(m)
      BY DEF Visited
    <3> QED
      BY <3>1, <3>2 DEF CutCovered
  <2> QED
    BY <2>1, <2>2
<1> QED
  BY <1>2 DEF CutCovered

\* What arrives is good, and so is what stays behind it.
LEMMA ArrivingIsGood ==
    ASSUME TypeOK, CutsCovered, NEW s \in Rank, NEW r \in Rank, NEW m, Arrives(s, r, m)
    PROVE  /\ m \in GoodOn(r)
           /\ \A a, b \in Rank : channel'[a][b] \in Seq(GoodOn(b))
<1>1. PICK q \in Seq(GoodOn(r)) : q = channel[s][r]
  BY DEF CutsCovered
<1>2. q # << >> /\ m = Head(q)
  BY <1>1 DEF Arrives
<1>3. m \in GoodOn(r) /\ Tail(q) \in Seq(GoodOn(r))
  BY <1>2
<1>4. channel' = [channel EXCEPT ![s][r] = Tail(@)] /\ channel \in [Rank -> [Rank -> Seq(Message)]]
  BY DEF Arrives, TypeOK
<1>5. ASSUME NEW a \in Rank, NEW b \in Rank PROVE channel'[a][b] \in Seq(GoodOn(b))
  <2>1. CASE a = s /\ b = r
    BY <1>1, <1>3, <1>4, <2>1
  <2>2. CASE ~(a = s /\ b = r)
    <3>1. channel'[a][b] = channel[a][b]
      BY <1>4, <2>2
    <3> QED
      BY <3>1 DEF CutsCovered
  <2> QED
    BY <2>1, <2>2
<1> QED
  BY <1>3, <1>5

LEMMA PutIsGood ==
    ASSUME TypeOK, CutsCovered, NEW r \in Rank, NEW t \in Seq(GoodRing),
           controlQueue' = [controlQueue EXCEPT ![r] = @ \o t]
    PROVE  \A q \in Rank : controlQueue'[q] \in Seq(GoodRing)
<1>1. PICK b \in Seq(GoodRing) : b = controlQueue[r]
  BY DEF CutsCovered
<1>2. b \o t \in Seq(GoodRing)
  OBVIOUS
<1>3. \A q \in Rank : controlQueue'[q] = IF q = r THEN b \o t ELSE controlQueue[q]
  BY <1>1 DEF TypeOK
<1> QED
  BY <1>2, <1>3 DEF CutsCovered

LEMMA PutOneIsGood ==
    ASSUME TypeOK, CutsCovered, NEW r \in Rank, NEW m \in GoodRing, PutOnControlQueue(r, m)
    PROVE  \A q \in Rank : controlQueue'[q] \in Seq(GoodRing)
<1>1. PICK b \in Seq(GoodRing) : b = controlQueue[r]
  BY DEF CutsCovered
<1>2. Append(b, m) \in Seq(GoodRing)
  OBVIOUS
<1>3. \A q \in Rank : controlQueue'[q] = IF q = r THEN Append(b, m) ELSE controlQueue[q]
  BY <1>1 DEF TypeOK, PutOnControlQueue
<1> QED
  BY <1>2, <1>3 DEF CutsCovered

LEMMA ValuesAreGood ==
    ASSUME TypeOK, CutsCovered, NEW m \in ControlMessage, SendAndSetGvt(m)
    PROVE  \A q \in Rank : controlQueue'[q] \in Seq(GoodRing)
<1> DEFINE value == Least(m.min, m.red)
           values == [r \in 1..(N - 1) |-> [type |-> "value", dest |-> r, gvt |-> value]]
<1>1. value \in Time
  BY DEF ControlMessage, Least
<1>2. controlQueue' = [controlQueue EXCEPT ![Starter] = @ \o values]
  BY DEF SendAndSetGvt
<1> HIDE DEF value
<1>3. \A r \in 1..(N - 1) : [type |-> "value", dest |-> r, gvt |-> value] \in GoodRing
  BY <1>1, Bounds DEF RingMessage, ValueMessage, Rank, GoodRing, IsControl
<1>4. values \in Seq(GoodRing)
  BY <1>3, Bounds
<1> HIDE DEF values
<1> QED
  BY <1>2, <1>4, Bounds, PutIsGood

(***************************************************************************)
(* Every step leaves covered messages where they may be.                   *)
(***************************************************************************)
AllGood ==
    /\ \A r \in Rank : controlQueue'[r] \in Seq(GoodRing)
    /\ \A s, r \in Rank : channel'[s][r] \in Seq(GoodOn(r))
    /\ \A r \in Rank : held'[r] \in GoodHeld \cup {NoMessage}

LEMMA EnvironmentIsGood ==
    ASSUME TypeOK, CutsCovered, NEW a \in Alp,
           SendGvtRequest(a) \/ \E t \in 0..MaxTime : SendRequest(a, t)
    PROVE  AllGood
<1>1. UNCHANGED <<channel, held>>
  BY DEF SendGvtRequest, SendRequest
<1>2. \A r \in Rank : controlQueue'[r] \in Seq(GoodRing)
  <2>1. CASE SendGvtRequest(a)
    <3>1. PICK m : m = [type |-> "gvtRequest", dest |-> Starter]
      OBVIOUS
    <3>2. m \in GoodRing
      BY <3>1, Bounds DEF RingMessage, GvtRequest, IsControl, GoodRing
    <3>3. PutOnControlQueue(a, m)
      BY <2>1, <3>1 DEF SendGvtRequest, PutOnControlQueue
    <3> QED
      BY <3>2, <3>3, Bounds, PutOneIsGood
  <2>2. CASE UNCHANGED controlQueue
    BY <2>2 DEF CutsCovered
  <2> QED
    BY <2>1, <2>2 DEF SendRequest
<1> QED
  BY <1>1, <1>2 DEF AllGood, CutsCovered

LEMMA SentIsGood ==
    ASSUME TypeOK, CutsCovered, NEW r \in Rank, NEW d \in Rank, NEW m \in GoodOn(d),
           channel' = [channel EXCEPT ![r][d] = Append(@, m)]
    PROVE  \A a, b \in Rank : channel'[a][b] \in Seq(GoodOn(b))
<1>1. PICK q \in Seq(GoodOn(d)) : q = channel[r][d]
  BY DEF CutsCovered
<1>2. Append(q, m) \in Seq(GoodOn(d))
  OBVIOUS
<1>3. channel \in [Rank -> [Rank -> Seq(Message)]]
  BY DEF TypeOK
<1>4. ASSUME NEW a \in Rank, NEW b \in Rank PROVE channel'[a][b] \in Seq(GoodOn(b))
  <2>1. CASE a = r /\ b = d
    BY <1>1, <1>2, <1>3, <2>1
  <2>2. CASE ~(a = r /\ b = d)
    <3>1. channel'[a][b] = channel[a][b]
      BY <1>3, <2>2
    <3> QED
      BY <3>1 DEF CutsCovered
  <2> QED
    BY <2>1, <2>2
<1> QED
  BY <1>4

LEMMA SendIsGood ==
    ASSUME TypeOK, CutsCovered, NEW r \in Rank, Send(r)
    PROVE  AllGood
<1>1. \A q \in Rank : held'[q] \in GoodHeld \cup {NoMessage}
  BY DEF Send, SendControl, SendStamp, SendCount, CutsCovered
<1>2. CASE SendControl(r)
  <2>1. PICK q \in Seq(GoodRing) : q = controlQueue[r]
    BY DEF CutsCovered
  <2>2. PICK m : m = Head(q)
    OBVIOUS
  <2>3. q # << >> /\ m \in GoodRing /\ Tail(q) \in Seq(GoodRing)
    BY <1>2, <2>1, <2>2 DEF SendControl
  <2>4. m \in RingMessage /\ m \in Message /\ m.dest \in Rank
    BY <2>3, RingKinds, Kinds DEF GoodRing
  <2>5. m \in GoodOn(m.dest)
    BY <2>3, <2>4 DEF GoodRing, GoodOn
  <2>6. channel' = [channel EXCEPT ![r][m.dest] = Append(@, m)]
    BY <1>2, <2>1, <2>2 DEF SendControl
  <2>7. \A a, b \in Rank : channel'[a][b] \in Seq(GoodOn(b))
    BY <2>4, <2>5, <2>6, SentIsGood
  <2>8. \A x \in Rank : controlQueue'[x] = IF x = r THEN Tail(q) ELSE controlQueue[x]
    BY <1>2, <2>1 DEF SendControl, TypeOK
  <2>9. \A x \in Rank : controlQueue'[x] \in Seq(GoodRing)
    BY <2>3, <2>8 DEF CutsCovered
  <2> QED
    BY <1>1, <2>7, <2>9 DEF AllGood
<1>3. CASE SendStamp(r)
  <2>1. UNCHANGED <<controlQueue, channel>>
    BY <1>3 DEF SendStamp
  <2> QED
    BY <1>1, <2>1 DEF AllGood, CutsCovered
<1>4. CASE SendCount(r)
  <2>1. PICK m : m = sending[r]
    OBVIOUS
  <2>2. /\ m \in SimMessage /\ UNCHANGED controlQueue
        /\ channel' = [channel EXCEPT ![r][m.dest] = Append(@, m)]
    BY <1>4, <2>1 DEF SendCount, TypeOK
  <2>3. m.dest \in Rank /\ m \in GoodOn(m.dest)
    BY <2>2, NoMessageIsNone, OthersAreGood DEF SimMessage
  <2>4. \A a, b \in Rank : channel'[a][b] \in Seq(GoodOn(b))
    BY <2>2, <2>3, SentIsGood
  <2> QED
    BY <1>1, <2>2, <2>4 DEF AllGood, CutsCovered
<1> QED
  BY <1>2, <1>3, <1>4 DEF Send

LEMMA ReceiveIsGood ==
    ASSUME TypeOK, CountersSigned, CutsCovered, NEW s \in Rank, NEW r \in Rank, Receive(s, r)
    PROVE  AllGood
<1>1. PICK m : \/ ReceivesSim(s, r, m)
               \/ r = Starter /\ ReceiveGvtRequest(s, m)
               \/ ReceiveGvtValue(s, r, m)
               \/ FirstCut(s, r, m)
               \/ SecondCutArrives(s, r, m)
  BY DEF Receive, ReceivesSim
<1>2. Arrives(s, r, m)
  BY <1>1, Receiving DEF ReceiveGvtRequest, ReceiveGvtValue, FirstCut, SecondCutArrives
<1>3. m \in GoodOn(r) /\ \A a, b \in Rank : channel'[a][b] \in Seq(GoodOn(b))
  BY <1>2, ArrivingIsGood
<1>4. IsControl(m) => m \in ControlMessage /\ CutCovered(m) /\ m.dest = r
  BY <1>3, Kinds DEF GoodOn
<1>5. CASE UNCHANGED <<controlQueue, held>>
  BY <1>3, <1>5 DEF AllGood, CutsCovered
<1>6. CASE r = Starter /\ ReceiveGvtRequest(s, m) /\ RoundMayStart(r)
  <2>1. PICK c : c = [d \in Rank |-> 0]
    OBVIOUS
  <2>2. PICK first : first = [type |-> "control", dest |-> NextInRing(r), cut |-> "first",
                              min |-> LONG_MAX, red |-> LONG_MAX, count |-> c]
    OBVIOUS
  <2>3. first \in ControlMessage /\ \A d \in Rank : first.count[d] = 0
    BY <2>1, <2>2, Bounds DEF ControlMessage
  <2>4. first \in GoodRing
    BY <2>3, EmptyCut DEF GoodRing, RingMessage
  <2>5. PutOnControlQueue(r, first) /\ UNCHANGED held
    BY <1>6, <2>1, <2>2 DEF ReceiveGvtRequest
  <2>6. \A q \in Rank : controlQueue'[q] \in Seq(GoodRing)
    BY <2>4, <2>5, PutOneIsGood
  <2> QED
    BY <1>3, <2>5, <2>6 DEF AllGood, CutsCovered
<1>7. CASE FirstCut(s, r, m)
  <2>1. /\ m \in ControlMessage /\ CutCovered(m) /\ m.dest = r /\ m.cut = "first"
        /\ UNCHANGED held
    BY <1>4, <1>7 DEF FirstCut, IsControl
  <2>2. PICK new \in ControlMessage : new = AtFirstCut(r, m)
    BY <2>1, Cuts
  <2>3. PICK next : next = [new EXCEPT !.dest = NextInRing(r),
                                       !.cut = IF r = Starter THEN "second" ELSE "first"]
    OBVIOUS
  <2>4. SendAndSetGvt(new) \/ PutOnControlQueue(r, next)
    BY <1>7, <2>2, <2>3 DEF FirstCut
  <2>5. /\ next \in ControlMessage /\ next.count = new.count /\ next.dest = NextInRing(r)
        /\ next.cut = IF r = Starter THEN "second" ELSE "first"
    BY <2>3, Bounds DEF ControlMessage
  <2>6. next \in GoodRing
    BY <2>1, <2>2, <2>5, FirstCutCovers DEF GoodRing, RingMessage
  <2>7. \A q \in Rank : controlQueue'[q] \in Seq(GoodRing)
    BY <2>4, <2>6, PutOneIsGood, ValuesAreGood
  <2> QED
    BY <1>3, <2>1, <2>7 DEF AllGood, CutsCovered
<1>8. CASE SecondCutArrives(s, r, m)
  <2>1. m \in GoodHeld
    BY <1>4, <1>8 DEF SecondCutArrives, IsControl, GoodHeld
  <2>2. held' = [held EXCEPT ![r] = m] /\ UNCHANGED controlQueue
    BY <1>8 DEF SecondCutArrives
  <2>3. \A q \in Rank : held'[q] \in GoodHeld \cup {NoMessage}
    BY <2>1, <2>2 DEF CutsCovered, TypeOK
  <2> QED
    BY <1>3, <2>2, <2>3 DEF AllGood, CutsCovered
<1>9. \/ UNCHANGED <<controlQueue, held>>
      \/ r = Starter /\ ReceiveGvtRequest(s, m) /\ RoundMayStart(r)
      \/ FirstCut(s, r, m) \/ SecondCutArrives(s, r, m)
  BY <1>1, Receiving DEF ReceiveGvtRequest, ReceiveGvtValue
<1> QED
  BY <1>5, <1>6, <1>7, <1>8, <1>9

LEMMA SecondCutIsGood ==
    ASSUME TypeOK, CountersSigned, CutsCovered, NEW r \in Rank, SecondCutContinues(r)
    PROVE  AllGood
<1>1. PICK m : m = held[r]
  OBVIOUS
<1>2. m \in ControlMessage /\ CutCovered(m) /\ m.cut = "second"
  BY <1>1 DEF SecondCutContinues, CutsCovered, GoodHeld
<1>3. PICK new \in ControlMessage : new = AtSecondCut(r, m)
  BY <1>2, Cuts
<1>4. PICK next : next = [new EXCEPT !.dest = NextInRing(r)]
  OBVIOUS
<1>5. SendAndSetGvt(new) \/ PutOnControlQueue(r, next)
  BY <1>1, <1>3, <1>4 DEF SecondCutContinues
<1>6. next \in ControlMessage /\ next.count = new.count /\ next.cut = "second"
  BY <1>2, <1>3, <1>4, Bounds DEF ControlMessage, AtSecondCut
<1>7. next \in GoodRing
  BY <1>2, <1>3, <1>6, SecondCutCovers DEF GoodRing, RingMessage
<1>8. \A q \in Rank : controlQueue'[q] \in Seq(GoodRing)
  BY <1>3, <1>5, <1>7, PutOneIsGood, ValuesAreGood
<1>9. /\ held' = [held EXCEPT ![r] = NoMessage]
      /\ UNCHANGED channel
  BY DEF SecondCutContinues
<1> QED
  BY <1>8, <1>9 DEF AllGood, CutsCovered, TypeOK

LEMMA NextIsGood ==
    ASSUME TypeOK, CountersSigned, CutsCovered, [Next]_vars
    PROVE  AllGood
<1>1. CASE UNCHANGED vars
  BY <1>1 DEF vars, AllGood, CutsCovered
<1> QED
  BY <1>1, EnvironmentIsGood, SendIsGood, ReceiveIsGood, SecondCutIsGood, Zenon
     DEF Next, Goes

WaitInv == CountersSigned /\ CutsCovered

LEMMA InitWaitInv == Init => WaitInv
BY DEF Init, WaitInv, CountersSigned, CutsCovered

LEMMA NextKeepsWaitInv == TypeInv /\ WaitInv /\ [Next]_vars => WaitInv'
<1> SUFFICES ASSUME TypeInv, WaitInv, [Next]_vars PROVE WaitInv'
  OBVIOUS
<1>1. TypeOK /\ CountersSigned /\ CutsCovered
  BY DEF TypeInv, WaitInv
<1>2. TypeOK'
  BY NextKeepsTypes DEF TypeInv
<1>3. CountersSigned' /\ CountersRise
  BY <1>1, NextStepsCounters, CounterStepKeepsSigned
<1>4. AllGood
  BY <1>1, NextIsGood
<1>5. CutsCovered'
  BY <1>1, <1>2, <1>3, <1>4, CutsStayCovered DEF AllGood
<1> QED
  BY <1>3, <1>5 DEF WaitInv

LEMMA WaitInvIsEnough == TypeOK /\ Balance /\ WaitInv => WaitIsForTransit
<1> SUFFICES ASSUME TypeOK, Balance, WaitInv, NEW r \in Rank, held[r] # NoMessage
             PROVE  Outstanding(r, held[r]) <= Cardinality(InTransit(r)) + excess[r]
  BY DEF WaitIsForTransit
<1>1. held[r] \in GoodHeld
  BY DEF WaitInv, CutsCovered
<1>2. PICK k \in Int : k = held[r].count[r]
  BY <1>1 DEF GoodHeld, ControlMessage
<1>3. Covered(k, Rank, r)
  BY <1>1, <1>2 DEF GoodHeld, CutCovered, Visited
<1>4. k + CounterOf(r, r) <= Cardinality(Transit(channel, r)) + excess[r]
  BY <1>3, CoveredIsTransit DEF WaitInv
<1> QED
  BY <1>2, <1>4, InTransitIsTransit DEF Outstanding

\* What an LP waits for in the second cut (GvtCalculator.cpp:182-185) never exceeds the
\* white messages on the way to it and the excess, whatever was counted when: the wait is
\* in vain for no other reason than a message stamped red and counted white.
THEOREM WaitsForTransitOnly == Spec => []WaitIsForTransit
<1>1. Init => TypeOK /\ Balance /\ WaitInv
  BY InitTypes, InitBalance, InitWaitInv DEF TypeInv
<1>2. Spec => []TypeInv
  BY TypesAlways
<1>3. TypeInv => TypeOK
  BY DEF TypeInv
<1> QED
  BY <1>1, <1>2, <1>3, NextKeepsBalance, NextKeepsWaitInv, WaitInvIsEnough, PTL DEF Spec
=============================================================================
