---------------------------- MODULE SsvMigration ----------------------------
(***************************************************************************)
(* A shared state variable that moves through the tree of CLPs while       *)
(* requests for it are under way (lp/Clp.cpp, state/SharedState.cpp,       *)
(* lp/AccessCostCalculator.cpp).                                           *)
(*                                                                         *)
(* Every CLP has a pointer to the variable: the port to send a request to, *)
(* or HERE.  The host counts who asks for it; when a GVT arrives and one   *)
(* port asks much more than the others, it sends the variable one hop that *)
(* way and turns its pointer.  The other end of that hop turns its own     *)
(* pointer when the variable arrives, so for a while the two point at each *)
(* other.  All other pointers stay as they are.                            *)
(*                                                                         *)
(* One variable, and one agent on each ALP: every variable has its own     *)
(* pointers, history and counters (the load of a CLP is summed over its    *)
(* variables).  No range queries.  An answer reaches its agent at once,    *)
(* where RoutedMessages and AlpRollback follow it; an agent may be rolled  *)
(* back whenever AlpRollback allows it, for a read of this variable or of  *)
(* another.  fEndMessageProcessed is FALSE whenever a GVT is set: see      *)
(* LpThreads.                                                              *)
(***************************************************************************)
EXTENDS Routing, WritePeriodList

CONSTANTS
    Agent,        \* LpId of the agents: records [id, rank]
    Value,        \* the values written to the variable
    InitialValue,
    StartHost,    \* the CLP the variable is given to at start-up
    MaxRequests,  \* bound: messages of all agents, anti-messages included
    MaxRollbacks, \* bound: rollbacks of all agents
    MaxHops       \* bound: hops of a message are counted up to this

InitialOwner == [id |-> 0, rank |-> 0]
NoValue == InitialValue   \* what a message that carries no value carries

ASSUME MigrationAssumption ==
    /\ Agent \subseteq [id: Nat \ {0}, rank: Alps]
    /\ \A a, b \in Agent : a.rank = b.rank => a = b
    /\ InitialValue \notin Value
    /\ StartHost \in Clp
    /\ MaxRequests \in Nat /\ MaxRollbacks \in Nat /\ MaxHops \in Nat

\* Agent numbers are handed out rank by rank (rank * 100 + 1 + i).
ASSUME LpIdConvention ==
    \A a, b \in Agent : a.rank < b.rank => a.id < b.id

Request == [type: {"read", "write", "readAnti", "writeAnti"}, agent: Agent,
            time: Time, value: Value \cup {NoValue}, n: 1..MaxRequests]

VARIABLES
    direction,    \* RouteTable::fSSVIDToDirectionMap of each CLP
    hosts,        \* the CLPs whose SharedState has the variable
    writePeriods, \* its history there, << >> elsewhere
    access,       \* fSSVPortAccessMap and fSSVPortHopMap of the host, per port
    load,         \* fCLPLoad of the host
    fGVT,         \* of each CLP
    net,          \* messages between LPs
    agentLvt,     \* Alp::agent_lvt_map_
    awaiting,     \* the request the agent waits for, 0 if none
    sent,         \* number of messages the agent has sent
    sendList,     \* the ALPs' send lists
    budget,       \* what is left of MaxRollbacks
    submitted,    \* history: the requests made so far
    forgotten,    \* history: reads that a migration dropped without a rollback
                  \* that reaches back to them
    overtaken,    \* history: a request was executed before an earlier one of its
                  \* agent
    missed        \* history: the requests that had passed a CLP before the
                  \* variable came there and were still under way

clpVars == <<direction, hosts, writePeriods, access, load, fGVT, forgotten, overtaken,
             missed>>
alpVars == <<agentLvt, awaiting, sent, sendList, budget, submitted>>
vars == <<clpVars, net, alpVars>>

(***************************************************************************)
(* The network.  A link keeps the order of simulation messages; a          *)
(* migration overtakes them, in the send queue, which takes load balancing *)
(* messages first, and in the receive queue.  So one that was queued after *)
(* a migration never arrives before it.                                    *)
(***************************************************************************)
IsMigration(e) == e.body.type = "migration"
OnLink(from, to) == {e \in net : e.from = from /\ e.to = to}

\* The place behind everything that is on the link.
NextPlace(from, to) == 1 + Max({0} \cup {e.place : e \in OnLink(from, to)})

Envelope(from, to, place, body, hops, seen) ==
    [from |-> from, to |-> to, place |-> place, body |-> body, hops |-> hops,
     seen |-> seen]

\* Mutant: messages overtake each other on a link.
AnyOrder(e) == TRUE

MayArrive(e) ==
    IsMigration(e) \/ \A f \in OnLink(e.from, e.to) : f.place >= e.place

Requests == {e \in net : ~IsMigration(e)}
Migrations == {e \in net : IsMigration(e)}
RequestsTo(p) == {e \in Requests : e.to = p}
MigrationsTo(p) == {e \in Migrations : e.to = p}
Pending == {e.body : e \in Requests}

TypeOK ==
    /\ direction \in [Clp -> Direction]
    /\ hosts \subseteq Clp
    /\ writePeriods \in [Clp -> Seq([start: GvtTime, value: Value \cup {InitialValue},
                                     end: GvtTime \cup {LONG_MAX, ULONG_MAX},
                                     agent: Agent \cup {InitialOwner},
                                     reads: SUBSET [agent: Agent, time: GvtTime]])]
    /\ access \in [Port -> [count: Nat, hops: Nat]] /\ load \in Nat
    /\ fGVT \in [Clp -> GvtTime]
    /\ Pending \subseteq submitted /\ submitted \subseteq Request
    /\ \A e \in net : e.from \in LpRank /\ e.to \in Clp /\ e.hops \in Nat
    /\ agentLvt \in [Agent -> GvtTime]
    /\ awaiting \in [Agent -> 0..MaxRequests] /\ sent \in [Agent -> 0..MaxRequests]
    /\ sendList \subseteq submitted
    /\ budget \in 0..MaxRollbacks
    /\ overtaken \in BOOLEAN
    /\ missed \subseteq submitted

-----------------------------------------------------------------------------
InitialPeriods == << [start |-> 0, end |-> ULONG_MAX, value |-> InitialValue,
                      agent |-> InitialOwner, reads |-> {}] >>
NoAccess == [d \in Port |-> [count |-> 0, hops |-> 0]]

Init ==
    /\ direction = [p \in Clp |-> SsvDirection(p, StartHost)]
    /\ hosts = {StartHost}
    /\ writePeriods = [p \in Clp |-> IF p = StartHost THEN InitialPeriods ELSE << >>]
    /\ access = NoAccess /\ load = 0
    /\ fGVT = [p \in Clp |-> 0]
    /\ net = {}
    /\ agentLvt = [a \in Agent |-> 0]
    /\ awaiting = [a \in Agent |-> 0]
    /\ sent = [a \in Agent |-> 0]
    /\ sendList = {}
    /\ budget = MaxRollbacks
    /\ submitted = {}
    /\ forgotten = {}
    /\ overtaken = FALSE
    /\ missed = {}

(***************************************************************************)
(* The agents and their ALPs.                                              *)
(***************************************************************************)
Within(k) == MapThenSumSet(LAMBDA b : sent[b], Agent) + k <= MaxRequests

\* The k bodies follow what is on the way from an agent's ALP, in the order of their n.
SendsToClp(a, bodies, k) ==
    LET to == AlpParent[a.rank]
        Place(m) == NextPlace(a.rank, to) + m.n - (sent[a] + 1)
    IN  /\ net' = net \cup {Envelope(a.rank, to, Place(m), m, 0, {}) : m \in bodies}
        /\ sent' = [sent EXCEPT ![a] = @ + k]
        /\ submitted' = submitted \cup bodies

\* An agent asks for a read or a write and waits for the answer.
Ask(a, type, t, v) ==
    LET m == [type |-> type, agent |-> a, time |-> t, value |-> v, n |-> sent[a] + 1]
    IN  /\ awaiting[a] = 0
        /\ t >= agentLvt[a]
        /\ v = NoValue <=> type = "read"
        /\ Within(1)
        /\ SendsToClp(a, {m}, 1)
        /\ awaiting' = [awaiting EXCEPT ![a] = m.n]
        /\ sendList' = sendList \cup {m}
        /\ UNCHANGED <<clpVars, agentLvt, budget>>

Undone(a, t) == {m \in sendList : /\ m.agent = a
                                  /\ \/ m.type = "read" /\ m.time >= t
                                     \/ m.type = "write" /\ m.time > t}

\* The anti-messages for a set of requests, sent in the same order.
AntiMessages(a, undone) ==
    {[type |-> IF m.type = "read" THEN "readAnti" ELSE "writeAnti", agent |-> a,
      time |-> m.time, value |-> NoValue,
      n |-> sent[a] + Cardinality({k \in undone : k.n <= m.n})] : m \in undone}

\* Alp::ProcessRollback: an agent is set back to t, which GVT has not passed.
\* Its requests are retracted, the one it waits for included.
ProcessRollback(a, t) ==
    LET k == Cardinality(Undone(a, t)) IN
    /\ budget > 0
    /\ t < agentLvt[a]
    /\ \A p \in Clp : fGVT[p] <= t
    /\ Within(k)
    /\ SendsToClp(a, AntiMessages(a, Undone(a, t)), k)
    /\ agentLvt' = [agentLvt EXCEPT ![a] = t]
    /\ awaiting' = [awaiting EXCEPT ![a] = 0]
    /\ sendList' = sendList \ Undone(a, t)
    /\ budget' = budget - 1
    /\ UNCHANGED clpVars

\* The answer to m: a write that failed leaves the send list, and the agent goes
\* on if it waits for this answer.
Answered(m, accepted) ==
    /\ sendList' = IF accepted THEN sendList ELSE sendList \ {m}
    /\ IF awaiting[m.agent] = m.n
       THEN /\ awaiting' = [awaiting EXCEPT ![m.agent] = 0]
            /\ agentLvt' = [agentLvt EXCEPT ![m.agent] = m.time + 1]
       ELSE UNCHANGED <<awaiting, agentLvt>>

(***************************************************************************)
(* A request arrives at CLP p.                                             *)
(***************************************************************************)
\* SharedState::UpdateAccessCount, with the port of the agent.
Counted(p, m, hops) ==
    LET d == GetDirectionFromRank(p, m.agent.rank)
    IN  /\ access' = [access EXCEPT ![d] = [count |-> @.count + 1, hops |-> @.hops + hops]]
        /\ load' = load + hops

IsAnti(m) == m.type \in {"readAnti", "writeAnti"}

\* Clp::Receive and ProcessMessage, where the pointer says HERE.
Execute(p, e) ==
    LET m == e.body IN
    /\ direction[p] = HERE
    /\ \E effect \in Effects(writePeriods[p], m, fGVT[p]) :
         /\ writePeriods' = [writePeriods EXCEPT ![p] = effect.periods]
         /\ IF IsAnti(m)
            THEN UNCHANGED <<awaiting, agentLvt, sendList>>
            ELSE Answered(m, effect.accepted)
    /\ IF IsAnti(m) /\ fGVT[p] > m.time
       THEN UNCHANGED <<access, load>>
       ELSE Counted(p, m, e.hops + 1)
    /\ net' = net \ {e}
    /\ overtaken' = (overtaken \/ \E f \in Requests : f.body.agent = m.agent /\ f.body.n < m.n)
    /\ UNCHANGED <<direction, hosts, fGVT, forgotten, missed, sent, budget, submitted>>

OneHopOn(p, e, to) == Envelope(p, to, NextPlace(p, to), e.body,
                               Min({e.hops + 1, MaxHops}), e.seen \cup {p})

\* Mutant: the message is sent on and kept.
ForwardedTwice(p, e, to) == net \cup {OneHopOn(p, e, to)}

Forwarded(p, e, to) == (net \ {e}) \cup {OneHopOn(p, e, to)}

\* Clp::Receive, where it does not.
Forward(p, e) ==
    /\ direction[p] # HERE
    /\ net' = Forwarded(p, e, GetRankFromDirection(p, direction[p]))
    /\ UNCHANGED <<clpVars, alpVars>>

ReceiveRequest(p) ==
    \E e \in RequestsTo(p) : MayArrive(e) /\ (Execute(p, e) \/ Forward(p, e))

(***************************************************************************)
(* A GVT arrives at CLP p.                                                 *)
(***************************************************************************)
\* The least k with 2^k >= n, and the greatest with 2^k <= n.
CeilLog2(n) == CHOOSE k \in 0..n : 2^k >= n /\ \A j \in 0..n : 2^j >= n => k <= j
FloorLog2(n) == CHOOSE k \in 0..n : 2^k <= n /\ 2^(k + 1) > n

\* A CLP of the lowest level.
IsParentCLP(p) == CeilLog2(C + 1) = CeilLog2(p + 2)

\* In a tree with leaves on two levels, a leaf of the upper one is not such a CLP.
LeavesOnLowestLevel == \A p \in Clp : IsLeaf(p) => IsParentCLP(p)

PortThreshold == FloorLog2(C)
LPThreshold == PortThreshold   \* of a CLP with one variable

TotalCount == MapThenSumSet(LAMBDA d : access[d].count, Port)
AccessCost == MapThenSumSet(LAMBDA d : access[d].count * access[d].hops, Port)

\* Mutant: a leaf sends the variable to an ALP.
PortAsksMostAnywhere(p, d) == access[d].count > 2 * (TotalCount - access[d].count)

\* AccessCostCalculator::GetMigrationMap: more than two thirds of the accesses.
PortAsksMost(p, d) ==
    /\ AccessCost > PortThreshold
    /\ access[d].count > 2 * (TotalCount - access[d].count)
    /\ IsParentCLP(p) => d = UP

\* CheckClpLoad is called only if the CLP is not at its end.
Migrates(p) == load > LPThreshold /\ \E d \in Port : PortAsksMost(p, d)

\* What Mattern's algorithm promises of a GVT.
Promised(gvt) ==
    /\ \A a \in Agent : gvt <= agentLvt[a]
    /\ \A m \in Pending : gvt <= m.time

\* Clp::SetGvt at a CLP that does not have the variable.
SetGvtElsewhere(p, gvt) ==
    /\ p \notin hosts
    /\ UNCHANGED <<direction, hosts, writePeriods, access, load, net, forgotten>>

\* ... and at the host, where the variable stays.
SetGvtAtHost(p, gvt) ==
    /\ p \in hosts
    /\ ~Migrates(p)
    /\ \E periods \in CollectEffects(writePeriods[p], gvt) :
         writePeriods' = [writePeriods EXCEPT ![p] = periods]
    /\ load' = 0
    /\ UNCHANGED <<direction, hosts, access, net, forgotten>>

\* Mutant: one unit of time too late.
RollbackTimeLater(calls, a) == EarliestFor(calls, a) + 2

\* SendRollbacksAfterStateMigration: the earliest period an agent read, plus one.
RollbackTime(calls, a) == EarliestFor(calls, a) + 1

\* The reads in periods that none of the rollbacks that key stands for undoes.
\* PerformWriteRollback rolls the readers of a period back to its start.
Forgotten(periods, key) ==
    LET reads == UNION {{[agent |-> r.agent, time |-> r.time, start |-> p.start] :
                           r \in p.reads} : p \in ToSet(periods)}
        calls == {[agent |-> r.agent, time |-> r.start] : r \in reads}
    IN  {r \in reads : \A a \in key : a = r.agent => RollbackTime(calls, a) > r.time}

Readers(periods) == {[agent |-> r.agent] : r \in UNION {p.reads : p \in ToSet(periods)}}

\* Mutant: the CLP that gets the variable leaves its pointer as it is.
PointerTurnedBySender(p, d) == [direction EXCEPT ![p] = IF d = HERE THEN @ ELSE d]

PointerTurned(p, d) == [direction EXCEPT ![p] = d]

\* Mutant: the copy that was sent stays here as well.
HostsKept(p) == hosts

HostsWithout(p) == hosts \ {p}

\* MigrateStateVariables: a copy of the history is sent to the port that asks
\* most, the pointer turned, and the variable deleted.
MigrateStateVariables(p, gvt) ==
    \E d \in Port, periods \in CollectEffects(writePeriods[p], gvt) :
      LET to == GetRankFromDirection(p, d) IN
      /\ p \in hosts
      /\ load > LPThreshold
      /\ PortAsksMost(p, d)
      /\ net' = net \cup {Envelope(p, to, NextPlace(p, to),
                                   [type |-> "migration", periods |-> periods], 0, {})}
      /\ direction' = PointerTurned(p, d)
      /\ hosts' = HostsWithout(p)
      /\ writePeriods' = [writePeriods EXCEPT ![p] = << >>]
      /\ access' = NoAccess /\ load' = 0
      /\ \E key \in Keys(Readers(periods)) :
           forgotten' = forgotten \cup Forgotten(periods, key)

SetGvt(p, gvt) ==
    /\ gvt >= fGVT[p]
    /\ Promised(gvt)
    /\ fGVT' = [fGVT EXCEPT ![p] = gvt]
    /\ SetGvtElsewhere(p, gvt) \/ SetGvtAtHost(p, gvt) \/ MigrateStateVariables(p, gvt)
    /\ UNCHANGED <<overtaken, missed, alpVars>>

\* Clp::ProcessMessage(StateMigrationMessage).  The readers were dropped, so
\* writing the periods anew rolls nobody back.
StateMigration(p) ==
    \E e \in MigrationsTo(p) :
      /\ net' = net \ {e}
      /\ direction' = PointerTurned(p, HERE)
      /\ hosts' = hosts \cup {p}
      /\ writePeriods' = [writePeriods EXCEPT ![p] = Inserted(e.body.periods)]
      /\ access' = NoAccess /\ load' = 0
      /\ missed' = missed \cup {f.body : f \in {g \in Requests : p \in g.seen}}
      /\ UNCHANGED <<fGVT, forgotten, overtaken, alpVars>>

Next ==
    \/ \E a \in Agent, t \in Time :
         \/ \E type \in {"read", "write"}, v \in Value \cup {NoValue} : Ask(a, type, t, v)
         \/ ProcessRollback(a, t)
    \/ \E p \in Clp : \/ ReceiveRequest(p)
                      \/ StateMigration(p)
                      \/ \E gvt \in GvtTime : SetGvt(p, gvt)

Spec == Init /\ [][Next]_vars

\* The threads of an LP do not stop (LpThreads), and a load balancing message does
\* not wait for simulation messages: each of the two receive queues of a CLP is
\* empty again and again, or something is taken from it again and again.  (This is
\* weak fairness of the two handlers, which NothingExits says are enabled when
\* there is something to take, as long as no request was overtaken; TLC takes very
\* long to find that out with ENABLED.)
Takes(queue) == \E e \in queue : e \notin net'

Fairness ==
    \A p \in Clp :
      /\ []<>(MigrationsTo(p) = {}) \/ []<><<Takes(MigrationsTo(p))>>_net
      /\ []<>(RequestsTo(p) = {}) \/ []<><<Takes(RequestsTo(p))>>_net

FairSpec == Spec /\ Fairness

-----------------------------------------------------------------------------
(***************************************************************************)
(* Properties.                                                             *)
(***************************************************************************)
\* The variable is at one CLP or in one message, never lost and never in two
\* places, and a pointer says HERE exactly where it is: the exit(1) of every
\* operation of SharedState is out of reach (SharedState.cpp:101-141).
OneCopy ==
    /\ Cardinality(hosts) + Cardinality(Migrations) = 1
    /\ \A p \in Clp : direction[p] = HERE <=> p \in hosts

\* Every pointer is the direction of the CLP that has the variable.  While it
\* moves, the old host points to the new one, and all others, the new host
\* included, still point to the old one.
PointersLeadToVariable ==
    /\ \A h \in hosts, p \in Clp : direction[p] = GetDirectionFromRank(p, h)
    /\ \A e \in Migrations, p \in Clp :
         direction[p] = GetDirectionFromRank(p, IF p = e.from THEN e.to ELSE e.from)

\* The host finds a period for every request that arrives: StateVariable::Read
\* calls it critical and exits when it does not (StateVariable.cpp:86-101).
HostFindsPeriod ==
    \A p \in hosts, e \in Requests :
      e.to = p => Effects(writePeriods[p], e.body, fGVT[p]) # {}

\* No handler meets exit(1), as long as the requests of each agent are executed
\* in order: the CLP that gets a migration does not have the variable
\* (SharedState.cpp:48-52), and the host finds its period.  An anti-message that
\* is overtaken may erase the period that GVT rests on.
NothingExits ==
    /\ \A p \in hosts : MigrationsTo(p) = {}
    /\ ~overtaken => HostFindsPeriod

\* A migration drops the record of all reads and rolls their agents back, but
\* only to one after the start of the period they read.  The one read that is
\* forgotten without a rollback is a read at the very start of its period
\* (RollbackList.cpp:71): a straggler write at that time misses it.
ForgottenOnlyAtStart == \A r \in forgotten : r.time = r.start

\* Requests of one agent are executed in the order they were sent, but for one
\* case: an earlier request is still out that had passed a CLP before the variable
\* came there, and is on its way to the old host and back.  A write that is
\* overtaken by its own anti-message stays in the history (Clp.cpp:482-500).
OvertakenOnlyAfterPassing ==
    [][\A m, e \in Requests :
         m.body \notin Pending' /\ e.body.agent = m.body.agent /\ e.body.n < m.body.n
         => e.body \in missed]_vars

\* All of this is one variable with one history, to which every request is
\* applied at most once, wherever the variable is.
TheHistory == IF hosts # {} THEN writePeriods[CHOOSE p \in hosts : TRUE]
                            ELSE (CHOOSE e \in Migrations : TRUE).body.periods

Abstract == INSTANCE OneVariable WITH history <- TheHistory, pending <- Pending
ImplementsOneVariable == Abstract!Spec

\* Every request and anti-message is executed in the end, when the agents ask no
\* more: it may be sent back and forth between two CLPs that point at each other
\* while the variable moves, but it catches up with it.
EveryRequestIsExecuted == []<>(Pending = {})
=============================================================================
