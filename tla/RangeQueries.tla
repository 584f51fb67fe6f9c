---------------------------- MODULE RangeQueries ----------------------------
(***************************************************************************)
(* Range queries over the tree of CLPs (lp/Clp.cpp, rangequery/, state/    *)
(* SharedState.cpp).  An agent asks which variables lie in a box at a      *)
(* time.  Each CLP passes the query on to the ports beyond which something *)
(* may lie in the box, collects the replies, and answers the port the      *)
(* query came from.  A write that moves a variable rolls back the queries  *)
(* it changes the answer of: those that read the CLP of the variable, and  *)
(* by range updates those that were blocked on their way there.            *)
(*                                                                         *)
(* One agent per ALP; the variables stay where they are (SsvMigration      *)
(* moves them).  The histories positions stand for those of StateVariable. *)
(***************************************************************************)
EXTENDS Routing, RangeTable

CONSTANTS
    Ssv,             \* the variables, all with points for values
    PreloadOrder,    \* the order they are given in at start-up
    Placements,      \* the start-up configurations: [Ssv -> Clp]
    InitialPosition, \* [Ssv -> points]
    Position,        \* [Ssv -> the points that are written]
    Box,             \* the boxes that are asked for
    QueryTime, WriteTime, GvtTime,        \* times of queries, of writes, of the GVT
    MaxQueries, MaxRequests,  \* bounds: queries; queries, writes and rollbacks together
    MaxGvts                   \* bound: the CLPs that have heard of a GVT

Point == (0..INT_MAX) \X (0..INT_MAX)

ASSUME ConstantsAssumption ==
    /\ IsFiniteSet(Ssv) /\ PreloadOrder \in Seq(Ssv) /\ ToSet(PreloadOrder) = Ssv
    /\ Placements \subseteq [Ssv -> Clp]
    /\ InitialPosition \in [Ssv -> Point]
    /\ \A v \in Ssv : Position[v] \subseteq Point
    /\ Box \subseteq [min: Point, max: Point]
    /\ QueryTime \subseteq Nat /\ WriteTime \subseteq Nat /\ GvtTime \subseteq Nat
    /\ MaxQueries \in Nat /\ MaxRequests \in Nat /\ MaxGvts \in Nat

Time == {0} \cup QueryTime \cup WriteTime \cup GvtTime

\* INT_MAX stands for LONG_MAX as the end of the last write period too, and the point
\* that NoRange is made of is no position.
ASSUME LimitsAssumption ==
    /\ \A t \in Time : t < INT_MAX
    /\ \A v \in Ssv : <<INT_MAX, INT_MAX>> \notin {InitialPosition[v]} \cup Position[v]
Link == {l \in LpRank \X LpRank : \/ l[1] \in Clp /\ l[2] \in Neighbours(l[1])
                                  \/ l[2] \in Clp /\ l[1] \in Neighbours(l[2])}

VARIABLES
    home,       \* [Ssv -> Clp]
    positions,  \* [Ssv -> [start times of its write periods -> points]]
    fGVT,       \* [Clp -> Time]
    fRangeRoutingTable, \* [Clp -> [Direction -> lists of range periods]]
    fRangeTracker,      \* [Clp -> [queries under way -> their scan status]]
    net,        \* [Link -> Seq(Message)]
    queries,    \* the range queries that were sent; their place is their identifier
    answers,    \* [queries that were answered -> what was found]
    retracted,  \* the queries with an anti-message
    told,       \* history: queries whose agent was sent a rollback to their time
    writes,     \* the number of writes and of writes undone
    met         \* history: see Weakness

vars == <<home, positions, fGVT, fRangeRoutingTable, fRangeTracker, net, queries,
          answers, retracted, told, writes, met>>

Id == 1..MaxQueries
Found == SUBSET UNION {{v} \X ({InitialPosition[v]} \cup Position[v]) : v \in Ssv}

\* Shown by met: a property that is not kept in one of these situations says so.
Weakness == {"crossed",   \* two boxes overlap, but without a corner of either
             "tied",      \* a change at the very time of a query
             "skipped",   \* a change reaches the period after, which is left alone
             "overrun",   \* positions change again in the period a range is set for
             "narrowed",  \* an update leaves out what lies beyond the other ports
             "early",     \* an update leaves out what is known of a later time
             "passed",    \* an update comes to a CLP whose GVT is later
             "misread"}   \* the block status of another query was taken

Entry == [id: Id, time: Time, box: Box, blocked: BOOLEAN, agent: Alps]
Message == [type: {"query"}, id: Id, found: Found] \cup [type: {"anti"}, id: Id]
             \cup [type: {"update"}, time: Time,
                   range: {NoRange} \cup [min: Point, max: Point]]

TypeOK ==
    /\ home \in Placements
    /\ \A v \in Ssv : 0 \in DOMAIN positions[v] /\ DOMAIN positions[v] \subseteq Time
    /\ fGVT \in [Clp -> Time]
    /\ \A p \in Clp, d \in Direction :
         LET list == fRangeRoutingTable[p][d]
         IN  /\ list # <<>>
             /\ \A i, j \in DOMAIN list : i < j => list[i].time < list[j].time
             /\ \A i \in DOMAIN list : ToSet(list[i].info) \subseteq Entry
    /\ \A p \in Clp : DOMAIN fRangeTracker[p] \subseteq DOMAIN queries
    /\ \A l \in Link : ToSet(net[l]) \subseteq Message
    /\ \A q \in ToSet(queries) : q \in [agent: Alps, time: Time, box: Box]
    /\ DOMAIN answers \subseteq DOMAIN queries /\ retracted \subseteq DOMAIN queries
    /\ told \subseteq DOMAIN queries /\ met \subseteq Weakness

(***************************************************************************)
(* The variables of a CLP (state/SharedState.cpp).                         *)
(***************************************************************************)
ReadWithoutRecord(history, t) == history[Max({s \in DOMAIN history : s <= t})]
EndTime(history, t) == Min({s \in DOMAIN history : s > t} \cup {INT_MAX})

RecalculateRange(where, history, p, t) ==
    BoxOf({ReadWithoutRecord(history[v], t) : v \in {w \in Ssv : where[w] = p}})

RangeRead(p, box, t) ==
    {r \in {<<v, ReadWithoutRecord(positions[v], t)>> : v \in {w \in Ssv : home[w] = p}} :
       IsValueOverlapping(box, r[2])}

(***************************************************************************)
(* Messages.  A range update is a load balancing message: it overtakes     *)
(* queries on the same way, but nothing overtakes it.                      *)
(***************************************************************************)
Receivable(queue) ==
    LET updates == {i \in DOMAIN queue : queue[i].type = "update"}
    IN  (DOMAIN queue \cap {1}) \cup (IF updates = {} THEN {} ELSE {Min(updates)})

\* LP p has received the message at place i of link l, and sends out[d] to the
\* ports d.
Exchanged(l, i, out) ==
    [k \in Link |-> (IF k = l THEN RemoveAt(net[k], i) ELSE net[k])
                      \o (IF k[1] = l[2] /\ GetDirectionFromRank(k[1], k[2]) \in DOMAIN out
                          THEN out[GetDirectionFromRank(k[1], k[2])] ELSE <<>>)]

Sent(p, out) ==
    [k \in Link |-> net[k] \o (IF k[1] = p /\ GetDirectionFromRank(k[1], k[2]) \in DOMAIN out
                               THEN out[GetDirectionFromRank(k[1], k[2])] ELSE <<>>)]

\* The ports to other CLPs.
ClpPorts(p) == {d \in Port : ~ (IsLeaf(p) /\ d # UP) /\ ~ (p = 0 /\ d = UP)}

\* Mutant: an update is not passed up.
SendRangeUpdatesDown(p, updates, source) ==
    [d \in ClpPorts(p) \ {source, UP} |->
       [i \in DOMAIN updates |-> [type |-> "update", time |-> updates[i].time,
                                  range |-> updates[i].range]]]

\* Step 3, which is to add what is stored for the other ports, is never reached.
SendRangeUpdates(p, updates, source) ==
    [d \in ClpPorts(p) \ {source} |->
       [i \in DOMAIN updates |-> [type |-> "update", time |-> updates[i].time,
                                  range |-> updates[i].range]]]

Within(other, range) ==
    other # NoRange => /\ range # NoRange
                       /\ \A q \in {other.min, other.max} : IsValueOverlapping(range, q)

\* What an update to port d would have to cover, at its time ...
Covers(lists, p, updates, source) ==
    \A d \in ClpPorts(p) \ {source}, i \in DOMAIN updates : \A e \in Direction \ {d, source} :
      Within(RangeAt(lists[e], updates[i].time), updates[i].range)

\* ... and later: a CLP that has no period of its own for a later time takes it for
\* that time as well.
CoversLater(lists, p, updates, source) ==
    \A d \in ClpPorts(p) \ {source}, i \in DOMAIN updates : \A e \in Direction \ {d}, t \in Time :
      t > updates[i].time => Within(RangeAt(lists[e], t), updates[i].range)

(***************************************************************************)
(* Clp::ProcessMessage(RangeQueryMessage).                                 *)
(***************************************************************************)
AgentPort(p, id) == GetDirectionFromRank(p, queries[id].agent)

Targets(p, id) == ({HERE} \cup ClpPorts(p)) \ {AgentPort(p, id)}

\* The target ports with a range for the time of the query, and those of them
\* that it does not stop at.
Ranged(p, id) ==
    {d \in Targets(p, id) : HasRangePeriod(fRangeRoutingTable[p][d], queries[id].time)}

NotBlocked(p, id) ==
    {d \in Ranged(p, id) :
       LET range == RangeAt(fRangeRoutingTable[p][d], queries[id].time)
       IN  range # NoRange /\ IsRangeOverlapping(range, queries[id].box)}

\* Mutant: the CLP waits for an answer of its own as well.
OutstandingHere(p, id) == (Targets(p, id) \ Ranged(p, id)) \cup NotBlocked(p, id)

\* A query for which there is no period is neither passed on nor done with.
Outstanding(p, id) ==
    (Targets(p, id) \ Ranged(p, id)) \cup (NotBlocked(p, id) \ {HERE})

Noted(p, id) ==
    [d \in Direction |->
       IF d \in Ranged(p, id)
       THEN AddRangeQueryInfo(fRangeRoutingTable[p][d],
              [id |-> id, time |-> queries[id].time, box |-> queries[id].box,
               blocked |-> d \notin NotBlocked(p, id), agent |-> queries[id].agent])
       ELSE fRangeRoutingTable[p][d]]

Crossing(range, box) ==
    range # NoRange /\ HaveCommonPoint(range, box) /\ ~ IsRangeOverlapping(range, box)

Crosses(p, id) ==
    \E d \in Ranged(p, id) :
      Crossing(RangeAt(fRangeRoutingTable[p][d], queries[id].time), queries[id].box)

Query(id, found) == [type |-> "query", id |-> id, found |-> found]

\* The scan status of the query is now this: if no port is outstanding, the reply
\* goes to the port the query came from.
Tracked(p, id, status) ==
    IF status.outstanding = {}
    THEN [q \in DOMAIN fRangeTracker[p] \ {id} |-> fRangeTracker[p][q]]
    ELSE [q \in DOMAIN fRangeTracker[p] \cup {id} |->
            IF q = id THEN status ELSE fRangeTracker[p][q]]

Reply(id, status) ==
    [d \in IF status.outstanding = {} THEN {status.originPort} ELSE {} |->
       <<Query(id, status.found)>>]

\* A query that this CLP has not seen before.
ProcessNewQuery(p, l, i) ==
    LET id == net[l][i].id
        status == [originPort |-> AgentPort(p, id), outstanding |-> Outstanding(p, id),
                   found |-> IF HERE \in NotBlocked(p, id)
                             THEN RangeRead(p, queries[id].box, queries[id].time) ELSE {}]
        onward == [d \in NotBlocked(p, id) \ {HERE} |-> <<Query(id, {})>>]
        out == IF status.outstanding = {} THEN Reply(id, status) ELSE onward
    IN  /\ net[l][i].type = "query" /\ id \notin DOMAIN fRangeTracker[p]
        /\ fRangeTracker' = [fRangeTracker EXCEPT ![p] = Tracked(p, id, status)]
        /\ fRangeRoutingTable' = [fRangeRoutingTable EXCEPT ![p] = Noted(p, id)]
        /\ net' = Exchanged(l, i, out)
        /\ met' = met \cup (IF Crosses(p, id) THEN {"crossed"} ELSE {})
        /\ UNCHANGED told

\* Mutant: one reply does for all ports.
ScannedAll(p, l, id, found) ==
    [fRangeTracker[p][id] EXCEPT !.outstanding = {}, !.found = @ \cup found]

\* The status once the reply of the sender of l is in.
Scanned(p, l, id, found) ==
    [fRangeTracker[p][id] EXCEPT
       !.outstanding = @ \ {GetDirectionFromRank(p, l[1])}, !.found = @ \cup found]

\* One that it has seen is a reply of the CLP it was passed on to.
ProcessReply(p, l, i) ==
    LET id == net[l][i].id
        status == Scanned(p, l, id, net[l][i].found)
    IN  /\ net[l][i].type = "query" /\ id \in DOMAIN fRangeTracker[p]
        /\ fRangeTracker' = [fRangeTracker EXCEPT ![p] = Tracked(p, id, status)]
        /\ net' = Exchanged(l, i, Reply(id, status))
        /\ UNCHANGED <<fRangeRoutingTable, told, met>>

(***************************************************************************)
(* Clp::ProcessMessage(RangeQueryAntiMessage).                             *)
(***************************************************************************)
\* Where the anti-message is passed on to: not blocked, so the table says.
Onward(p, id) ==
    {d \in Direction \ {AgentPort(p, id)} :
       ~ GetBlockStatus(fRangeRoutingTable[p][d], queries[id].time, id)}

\* Where the query itself was passed on to, in whatever period that is noted.
WentOnward(p, id) ==
    {d \in Direction : \E i \in DOMAIN fRangeRoutingTable[p][d] :
       \E e \in ToSet(fRangeRoutingTable[p][d][i].info) : e.id = id /\ ~e.blocked}

\* Mutant: only what was passed on is forgotten.
ForgottenOnward(p, id) ==
    [d \in Direction |->
       IF d \notin Onward(p, id) THEN fRangeRoutingTable[p][d]
       ELSE DeleteRangeQueryInfo(fRangeRoutingTable[p][d], queries[id].time, id)]

Forgotten(p, id) ==
    [d \in Direction |->
       IF d = AgentPort(p, id) THEN fRangeRoutingTable[p][d]
       ELSE DeleteRangeQueryInfo(fRangeRoutingTable[p][d], queries[id].time, id)]

ProcessAntiMessage(p, l, i) ==
    LET id == net[l][i].id
        late == fGVT[p] > queries[id].time
    IN  /\ net[l][i].type = "anti"
        /\ net' = Exchanged(l, i, IF late THEN <<>>
                    ELSE [d \in Onward(p, id) \ {HERE} |-> <<[type |-> "anti", id |-> id]>>])
        /\ fRangeRoutingTable' =
             IF late THEN fRangeRoutingTable
             ELSE [fRangeRoutingTable EXCEPT ![p] = Forgotten(p, id)]
        /\ met' = met \cup (IF ~late /\ Onward(p, id) # WentOnward(p, id)
                            THEN {"misread"} ELSE {})
        /\ UNCHANGED <<fRangeTracker, told>>

(***************************************************************************)
(* Clp::ProcessMessage(RangeUpdateMessage).                                *)
(***************************************************************************)
SameTime(list, t) == \E e \in EntriesAt(list, t) : e.time = t

\* What goes wrong when this CLP changes the list of a port at time t, so that its
\* lists are these, and sends these updates.
Flaws(p, lists, t, updates, source) ==
    (IF SameTime(fRangeRoutingTable[p][source], t) THEN {"tied"} ELSE {})
      \cup (IF Covers(lists, p, updates, source) THEN {} ELSE {"narrowed"})
      \cup (IF CoversLater(lists, p, updates, source) THEN {} ELSE {"early"})

ProcessRangeUpdate(p, l, i) ==
    LET m == net[l][i]
        source == GetDirectionFromRank(p, l[1])
        list == fRangeRoutingTable[p][source]
        updates == Announced(list, m.time, m.range)
        lists == [fRangeRoutingTable[p] EXCEPT ![source] = WithRange(list, m.time, m.range)]
    IN  /\ m.type = "update"
        /\ fRangeRoutingTable' = [fRangeRoutingTable EXCEPT ![p] = lists]
        /\ told' = told \cup RolledByRange(list, m.time, m.range)
        /\ net' = Exchanged(l, i, SendRangeUpdates(p, updates, source))
        /\ met' = met \cup Flaws(p, lists, m.time, updates, source)
                      \cup (IF \E e \in EntriesAt(list, m.time) :
                                 e.blocked /\ Crossing(m.range, e.box) THEN {"crossed"} ELSE {})
                      \cup (IF m.time < fGVT[p] THEN {"passed"} ELSE {})
                      \cup (IF Last(list).time > m.time THEN {"skipped"} ELSE {})
        /\ UNCHANGED fRangeTracker

\* The main loop of a CLP takes one message.
Receive(p) ==
    /\ \E l \in Link : /\ l[2] = p
                       /\ \E i \in Receivable(net[l]) : \/ ProcessNewQuery(p, l, i)
                                                        \/ ProcessReply(p, l, i)
                                                        \/ ProcessAntiMessage(p, l, i)
                                                        \/ ProcessRangeUpdate(p, l, i)
    /\ UNCHANGED <<home, positions, fGVT, queries, answers, retracted, writes>>

(***************************************************************************)
(* A write, or an anti-message for one, at the CLP of the variable         *)
(* (SharedState::WriteWithRollback, RollbackWrite).                        *)
(***************************************************************************)
\* RangeRoutingTable::Update: v has the given history from now on, changed at t.
Update(v, t, history) ==
    LET p == home[v]
        old == ReadWithoutRecord(positions[v], t)
        new == ReadWithoutRecord(history, t)
        end == EndTime(positions[v], t)
        now == [positions EXCEPT ![v] = history]
        RangeFrom(s) == RecalculateRange(home, now, p, s)
        list == fRangeRoutingTable[p][HERE]
        this == WithRange(list, t, RangeFrom(t))
        later == IF HasRangePeriod(list, t) THEN LaterPeriods(this, t, end) ELSE {}
        updates == Announced(list, t, RangeFrom(t))
                     \o [n \in 1..Cardinality(later) |->
                           [time |-> t, range |-> RangeFrom(this[Min(later) + n - 1].time)]]
        rolledLater == {e.id : e \in {f \in UNION {ToSet(this[k].info) : k \in later} :
                                        MovesIn(f, old, new)}}
        lists == [fRangeRoutingTable[p] EXCEPT ![HERE] =
                    [k \in DOMAIN this |->
                       IF k \in later THEN [this[k] EXCEPT !.range = RangeFrom(this[k].time)]
                       ELSE this[k]]]
    IN  /\ positions' = now
        /\ fRangeRoutingTable' = [fRangeRoutingTable EXCEPT ![p] = lists]
        /\ told' = told \cup RolledByValue(list, t, old, new) \cup rolledLater
        /\ net' = Sent(p, SendRangeUpdates(p, updates, HERE))
        /\ met' = met \cup Flaws(p, lists, t, updates, HERE)
                      \cup (IF \E k \in DOMAIN list : t < list[k].time /\ list[k].time < end
                            THEN {"skipped"} ELSE {})
                      \cup (IF \E s \in UNION {DOMAIN now[w] : w \in Ssv} :
                                  /\ t < s /\ PeriodAt(this, s) = PeriodAt(this, t)
                                  /\ RangeFrom(s) # RangeFrom(t)
                            THEN {"overrun"} ELSE {})
        /\ writes' = writes + 1
        /\ UNCHANGED <<home, fGVT, fRangeTracker, queries, answers, retracted>>

Requests == Len(queries) + writes + Cardinality(retracted)

\* The writes of an agent are at or after the GVT of every CLP, if that is safe.
NotBeforeGvt(t) == \A p \in Clp : t >= fGVT[p]

WriteWithRollback(v, t, q) ==
    /\ Requests < MaxRequests /\ NotBeforeGvt(t) /\ t \notin DOMAIN positions[v]
    /\ Update(v, t, [s \in DOMAIN positions[v] \cup {t} |-> IF s = t THEN q ELSE positions[v][s]])

RollbackWrite(v, t) ==
    /\ Requests < MaxRequests /\ NotBeforeGvt(t) /\ t \in DOMAIN positions[v] \ {0}
    /\ Update(v, t, [s \in DOMAIN positions[v] \ {t} |-> positions[v][s]])

(***************************************************************************)
(* The ALPs.                                                               *)
(***************************************************************************)
QueriesOf(a) == {id \in DOMAIN queries : queries[id].agent = a}

\* An agent waits for the answer, and goes on in time.
RangeQuery(a, t, box) ==
    /\ Len(queries) < MaxQueries /\ Requests < MaxRequests /\ NotBeforeGvt(t)
    /\ \A id \in QueriesOf(a) \ retracted : id \in DOMAIN answers /\ queries[id].time <= t
    /\ queries' = Append(queries, [agent |-> a, time |-> t, box |-> box])
    /\ net' = [net EXCEPT ![<<a, AlpParent[a]>>] = Append(@, Query(Len(queries) + 1, {}))]
    /\ UNCHANGED <<home, positions, fGVT, fRangeRoutingTable, fRangeTracker, answers,
                   retracted, told, writes, met>>

\* Alp::ProcessMessage(RangeQueryMessage): only the answer to the last query counts.
ReceiveAnswer(a) ==
    LET l == <<AlpParent[a], a>>
        m == Head(net[l])
    IN  /\ net[l] # <<>>
        /\ net' = [net EXCEPT ![l] = Tail(@)]
        /\ answers' = IF m.id # Max(QueriesOf(a)) THEN answers
                      ELSE [id \in DOMAIN answers \cup {m.id} |->
                              IF id = m.id THEN m.found ELSE answers[id]]
        /\ UNCHANGED <<home, positions, fGVT, fRangeRoutingTable, fRangeTracker, queries,
                       retracted, told, writes, met>>

\* Alp::ProcessRollback to time t, for whatever reason (AlpRollback).
ProcessRollback(a, t) ==
    LET undone == {id \in QueriesOf(a) \ retracted : queries[id].time >= t}
    IN  /\ undone # {} /\ Requests < MaxRequests /\ NotBeforeGvt(t)
        /\ retracted' = retracted \cup undone
        /\ \E ids \in InOrder(undone) :
             net' = [net EXCEPT ![<<a, AlpParent[a]>>] =
                       @ \o [n \in DOMAIN ids |-> [type |-> "anti", id |-> ids[n]]]]
        /\ UNCHANGED <<home, positions, fGVT, fRangeRoutingTable, fRangeTracker, queries,
                       answers, told, writes, met>>

(***************************************************************************)
(* Clp::SetGvt.  GvtCalculator keeps the GVT at or before all that is      *)
(* counted: the queries under way, their anti-messages as far as the first *)
(* CLP (Clp::Send does not count those of a CLP), the rollbacks.  Range    *)
(* updates are not counted.                                                *)
(***************************************************************************)
Promised(t) ==
    /\ \A a \in Alps : \A id \in QueriesOf(a) \ retracted :
         id \notin DOMAIN answers \/ id \in told => t <= queries[id].time
    /\ \A l \in Link : \A m \in ToSet(net[l]) :
         m.type = "query" \/ (m.type = "anti" /\ l[1] \in Alps) => t <= queries[m.id].time

SetGvt(p, t) ==
    /\ t > fGVT[p] /\ Promised(t) /\ Cardinality({q \in Clp \ {p} : fGVT[q] > 0}) < MaxGvts
    /\ fGVT' = [fGVT EXCEPT ![p] = t]
    /\ fRangeRoutingTable' =
         [fRangeRoutingTable EXCEPT
            ![p] = [d \in Direction |-> ClearRangePeriods(fRangeRoutingTable[p][d], t)]]
    /\ UNCHANGED <<home, positions, fRangeTracker, net, queries, answers, retracted, told,
                   writes, met>>

-----------------------------------------------------------------------------
Beyond(p, d, where) == {v \in Ssv : GetDirectionFromRank(p, where[v]) = d}

\* What the start-up configuration says of a CLP.
ClpRange(r, where) ==
    FoldLeft(LAMBDA box, v : IF where[v] = r THEN WithPoint(box, InitialPosition[v]) ELSE box,
             NoRange, PreloadOrder)

\* Clp::InitialisePortRanges: a box around those of the CLPs beyond each port.
PortRange(p, d, where) ==
    BoxOf(UNION {{ClpRange(r, where).min, ClpRange(r, where).max} :
                   r \in {q \in Clp : GetDirectionFromRank(p, q) = d /\ ClpRange(q, where) # NoRange}})

StartTable(where) ==
    [p \in Clp |-> [d \in Direction |-> <<[time |-> 0, info |-> <<>>,
                                         range |-> PortRange(p, d, where)]>>]]

\* A CLP that finds another box around its variables sends it to the others.
Corrected(p) == [time |-> 0, range |-> RecalculateRange(home, positions, p, 0)]
IsMisjudged(p) == PortRange(p, HERE, home) # Corrected(p).range

Init ==
    /\ home \in Placements
    /\ positions = [v \in Ssv |-> [t \in {0} |-> InitialPosition[v]]]
    /\ fGVT = [p \in Clp |-> 0]
    /\ fRangeRoutingTable =
         [p \in Clp |-> [StartTable(home)[p] EXCEPT ![HERE] =
                           <<[time |-> 0, info |-> <<>>, range |-> Corrected(p).range]>>]]
    /\ fRangeTracker = [p \in Clp |-> <<>>]
    /\ net = [l \in Link |->
                LET out == SendRangeUpdates(l[1], <<Corrected(l[1])>>, HERE)
                    d == GetDirectionFromRank(l[1], l[2])
                IN  IF l[1] \in Clp /\ l[2] \in Clp /\ IsMisjudged(l[1]) /\ d \in DOMAIN out
                    THEN out[d] ELSE <<>>]
    /\ queries = <<>> /\ answers = <<>>
    /\ retracted = {} /\ told = {} /\ writes = 0
    /\ met = IF \E p \in Clp : IsMisjudged(p)
                               /\ ~Covers(StartTable(home)[p], p, <<Corrected(p)>>, HERE)
             THEN {"narrowed"} ELSE {}

Next ==
    \/ \E a \in Alps : \/ \E t \in QueryTime, box \in Box : RangeQuery(a, t, box)
                       \/ \E t \in QueryTime : ProcessRollback(a, t)
                       \/ ReceiveAnswer(a)
    \/ \E p \in Clp : \/ Receive(p)
                      \/ \E t \in GvtTime : SetGvt(p, t)
    \/ \E v \in Ssv, t \in WriteTime : \/ \E q \in Position[v] : WriteWithRollback(v, t, q)
                                  \/ RollbackWrite(v, t)

Spec == Init /\ [][Next]_vars

\* As long as there are messages, some LP takes one: no main loop stops (LpThreads).
Taken(queue) == Len(queue') < Len(queue)

Fairness == []<>(\A l \in Link : net[l] = <<>>) \/ []<><<\E l \in Link : Taken(net[l])>>_net

FairSpec == Spec /\ Fairness

-----------------------------------------------------------------------------
(***************************************************************************)
(* What the tables of ranks say of the links, which the proofs use.        *)
(***************************************************************************)
LinksAgree ==
    /\ \A p \in Clp : /\ Neighbours(p) \subseteq LpRank \ {p}
                       /\ Neighbours(p) \cap Alps = {a \in Alps : AlpParent[a] = p}
                       /\ ClpPorts(p) = {GetDirectionFromRank(p, n) : n \in Neighbours(p) \cap Clp}
    /\ \A p \in Clp : \A n \in Neighbours(p) :
         GetRankFromDirection(p, GetDirectionFromRank(p, n)) = n
    \* Beyond the port to an ALP there is only that ALP, at HERE only the CLP.
    /\ \A p \in Clp, r \in LpRank :
         /\ GetDirectionFromRank(p, r) \in Direction
         /\ GetDirectionFromRank(p, r) = HERE <=> r = p
         /\ \A a \in Neighbours(p) \cap Alps :
              GetDirectionFromRank(p, r) = GetDirectionFromRank(p, a) => r = a
    \* A link between two CLPs cuts the tree in two.
    /\ \A p \in Clp : \A n \in Neighbours(p) \cap Clp :
         /\ p \in Neighbours(n)
         /\ \A r \in LpRank : GetDirectionFromRank(p, r) = GetDirectionFromRank(p, n)
                                <=> GetDirectionFromRank(n, r) # GetDirectionFromRank(n, p)

\* Every way begins with a link to a neighbour, and two neighbours are in the same
\* direction from everywhere else.
WaysAgree ==
    /\ \A p \in Clp : \A r \in LpRank \ {p} :
         \E n \in Neighbours(p) : GetDirectionFromRank(p, r) = GetDirectionFromRank(p, n)
    /\ \A p, q \in Clp : \A n \in Neighbours(p) :
         q \notin {p, n} => GetDirectionFromRank(q, p) = GetDirectionFromRank(q, n)

-----------------------------------------------------------------------------
(***************************************************************************)
(* Properties.                                                             *)
(***************************************************************************)
NoUpdateUnderWay == \A l \in Link : \A m \in ToSet(net[l]) : m.type # "update"

\* A CLP knows, for every time from its GVT on, a box around all that lies beyond
\* a port, once the updates are in (Clp.cpp:889-993, RangeRoutingTable.cpp).
RangesCoverVariables ==
    NoUpdateUnderWay /\ met \cap {"narrowed", "early", "passed", "skipped", "overrun"} = {} =>
      \A p \in Clp, d \in Direction, t \in Time : t >= fGVT[p] =>
        \A v \in Beyond(p, d, home) :
          IsValueOverlapping(RangeAt(fRangeRoutingTable[p][d], t),
                             ReadWithoutRecord(positions[v], t))

\* An answer is what the variables say, or its agent is rolled back: whatever a
\* later write to the past changes is found by the CLP of the variable, or by a
\* CLP on the way that the query was blocked at (RangePeriod.cpp:92-131).
StaleAnswersAreReported ==
    NoUpdateUnderWay /\ met \subseteq {"misread"} =>
      \A id \in DOMAIN answers \ (retracted \cup told) :
        answers[id] = {r \in {<<v, ReadWithoutRecord(positions[v], queries[id].time)>> :
                                v \in Ssv} : IsValueOverlapping(queries[id].box, r[2])}

CountOf(l, id) ==
    Cardinality({i \in DOMAIN net[l] : net[l][i].type = "query" /\ net[l][i].id = id})

\* A CLP waits for a port exactly while one message or one tracker entry stands
\* for the query beyond it.  A reply that found no entry would be taken for a new
\* query (Clp.cpp:714, 813), and a port without an answer would never be one.
OneReplyPerPort ==
    \A p \in Clp, id \in DOMAIN queries : \A d \in ClpPorts(p) \ {AgentPort(p, id)} :
      LET n == GetRankFromDirection(p, d)
      IN  CountOf(<<p, n>>, id) + CountOf(<<n, p>>, id)
            + (IF id \in DOMAIN fRangeTracker[n] THEN 1 ELSE 0)
          = (IF id \in DOMAIN fRangeTracker[p] /\ d \in fRangeTracker[p][id].outstanding
             THEN 1 ELSE 0)

\* An anti-message follows its query and removes all that was noted of it, or it
\* would roll back agents for what was never asked (Clp.cpp:856-887).  One that the
\* GVT passes is dropped; what it leaves goes when its CLPs hear of that GVT.
RetractedIsForgotten ==
    (\A l \in Link : net[l] = <<>>) /\ met \cap {"tied", "misread"} = {} =>
      \A p \in Clp, d \in Direction :
        \A i \in DOMAIN fRangeRoutingTable[p][d] :
          \A e \in ToSet(fRangeRoutingTable[p][d][i].info) : e.id \in retracted => ~ NotBeforeGvt(e.time)

\* Every query is answered, or retracted by its agent (Clp.cpp:823-851).
EveryQueryIsAnswered == []<>(DOMAIN queries = DOMAIN answers \cup retracted)

\* "port can't be the selected port, the source port, a port to an ALP in a parent
\* CLP, or the up port in the root CLP" (Clp.cpp:946): what lies beyond all other
\* ports is part of the update.
UpdatesCoverOtherPorts == "narrowed" \notin met
=============================================================================
