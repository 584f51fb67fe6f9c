------------------------- MODULE SsvMigrationProofs -------------------------
(***************************************************************************)
(* Proofs about SsvMigration, for every tree, every set of agents and      *)
(* every bound: the variable is never lost or doubled, all its CLPs        *)
(* together implement one variable with one history, and requests are      *)
(* overtaken only if the variable has moved past them.                     *)
(*                                                                         *)
(* What an operation does to a history (Effects, CollectEffects, Inserted) *)
(* is the same on both sides of the refinement and stays unexpanded.       *)
(***************************************************************************)
EXTENDS SsvMigration, ListLemmas

(***************************************************************************)
(* The inductive invariant.                                                *)
(***************************************************************************)
Shape ==
    /\ direction \in [Clp -> 0..NoDirection]
    /\ writePeriods = [p \in Clp |-> writePeriods[p]]
    /\ fGVT \in [Clp -> GvtTime]
    /\ sent \in [Agent -> Nat]
    /\ IsFiniteSet(sendList)

\* Where the variable is, without counting.
AtHost(h) == hosts = {h} /\ Migrations = {}
OnItsWay(e) == hosts = {} /\ Migrations = {e}
Located == (\E h \in Clp : AtHost(h)) \/ (\E e \in net : OnItsWay(e))

HereIsHost == \A p \in Clp : direction[p] = HERE <=> p \in hosts

\* Requests are numbered, and the next number of an agent is new.
Numbered ==
    /\ \A m \in submitted : /\ m.agent \in Agent
                            /\ m.n \in Nat
                            /\ m.n <= sent[m.agent]
    /\ Pending \subseteq submitted
    /\ sendList \subseteq submitted

\* So no request is in the network twice.
InNetOnce == \A e, f \in Requests : e.body = f.body => e = f

IInv == Shape /\ Located /\ HereIsHost /\ Numbered /\ InNetOnce

-----------------------------------------------------------------------------
(***************************************************************************)
(* What follows from it at once.                                           *)
(***************************************************************************)
\* Located says what OneCopy counts.
LEMMA LocatedIsOneCopy ==
    ASSUME Located, HereIsHost
    PROVE  OneCopy
<1>1. Cardinality({}) = 0
  BY FS_EmptySet
<1>2. \A x : Cardinality({x}) = 1
  BY FS_Singleton
<1>3. Cardinality(hosts) + Cardinality(Migrations) = 1
  <2>1. CASE \E h \in Clp : AtHost(h)
    <3>1. Cardinality(hosts) = 1 /\ Cardinality(Migrations) = 0
      BY <2>1, <1>1, <1>2, Zenon DEF AtHost
    <3> QED
      BY <3>1
  <2>2. CASE \E e \in net : OnItsWay(e)
    <3>1. Cardinality(hosts) = 0 /\ Cardinality(Migrations) = 1
      BY <2>2, <1>1, <1>2, Zenon DEF OnItsWay
    <3> QED
      BY <3>1
  <2> QED
    BY <2>1, <2>2 DEF Located
<1> QED
  BY <1>3 DEF OneCopy, HereIsHost

\* The history is where the pointer says HERE.
LEMMA HistoryOfHost ==
    ASSUME NEW p \in Clp, Located, p \in hosts
    PROVE  AtHost(p) /\ TheHistory = writePeriods[p]
BY DEF Located, AtHost, OnItsWay, TheHistory

LEMMA HistoryOnItsWay ==
    ASSUME NEW e \in Migrations, Located
    PROVE  OnItsWay(e) /\ TheHistory = e.body.periods
BY DEF Located, AtHost, OnItsWay, TheHistory

\* A step that leaves the hosts, their histories and the migrations alone.
LEMMA HistoryStays ==
    ASSUME UNCHANGED <<hosts, writePeriods>>, Migrations' = Migrations
    PROVE  TheHistory' = TheHistory
BY DEF TheHistory

\* Which messages are in the network after one was taken and one was sent.
LEMMA Exchange ==
    ASSUME NEW taken, NEW new, net' = (net \ {taken}) \cup new
    PROVE  /\ Requests' = (Requests \ {taken}) \cup {e \in new : ~IsMigration(e)}
           /\ Migrations' = (Migrations \ {taken}) \cup {e \in new : IsMigration(e)}
BY DEF Requests, Migrations, IsMigration

-----------------------------------------------------------------------------
(***************************************************************************)
(* The agents' messages.                                                   *)
(***************************************************************************)
NewBody(m, a, k) ==
    /\ m.type # "migration"
    /\ m.agent = a
    /\ m.n \in Nat
    /\ sent[a] < m.n
    /\ m.n <= sent[a] + k

LEMMA Sending ==
    ASSUME NEW a \in Agent, NEW k \in Nat, NEW bodies, IsFiniteSet(bodies), IInv,
           \A m \in bodies : NewBody(m, a, k),
           SendsToClp(a, bodies, k), UNCHANGED clpVars,
           sendList' \subseteq sendList \cup bodies
    PROVE  /\ IInv'
           /\ Migrations' = Migrations
           /\ Pending' = Pending \cup bodies
           /\ bodies \cap submitted = {}
<1> DEFINE New == net' \ net
           Env(m) == Envelope(a.rank, AlpParent[a.rank],
                       NextPlace(a.rank, AlpParent[a.rank]) + m.n - (sent[a] + 1),
                       m, 0, {})
<1>1. net' = net \cup {Env(m) : m \in bodies}
  BY DEF SendsToClp
<1>2. \A m \in bodies : Env(m).body = m /\ ~IsMigration(Env(m))
  BY DEF Envelope, IsMigration, NewBody
<1> HIDE DEF Env
<1>3. /\ Migrations' = Migrations
      /\ Requests' = Requests \cup {Env(m) : m \in bodies}
  BY <1>1, <1>2 DEF Migrations, Requests, IsMigration
<1>4. Pending' = Pending \cup bodies
  BY <1>3, <1>2 DEF Pending
<1>5. bodies \cap submitted = {}
  BY DEF IInv, Numbered, Shape, NewBody
<1>7. /\ submitted' = submitted \cup bodies
      /\ sent' = [sent EXCEPT ![a] = @ + k]
  BY DEF SendsToClp
<1>8. Shape'
  <2>1. IsFiniteSet(sendList')
    <3>1. IsFiniteSet(sendList \cup bodies)
      BY FS_Union DEF IInv, Shape
    <3> QED
      BY <3>1, FS_Subset
  <2>2. sent' \in [Agent -> Nat]
    BY <1>7 DEF IInv, Shape
  <2> QED
    BY <2>1, <2>2 DEF IInv, Shape, clpVars
<1>9. Located'
  BY <1>1, <1>3 DEF IInv, Located, AtHost, OnItsWay, clpVars
<1>10. HereIsHost'
  BY DEF IInv, HereIsHost, clpVars
<1>11. Numbered'
  <2>1. \A b \in Agent : sent[b] \in Nat /\ sent'[b] \in Nat /\ sent[b] <= sent'[b]
    BY <1>7 DEF IInv, Shape
  <2>2. sent'[a] = sent[a] + k
    BY <1>7 DEF IInv, Shape
  <2>3. ASSUME NEW m \in submitted'
        PROVE  m.agent \in Agent /\ m.n \in Nat /\ m.n <= sent'[m.agent]
    <3>1. CASE m \in submitted
      BY <3>1, <2>1 DEF IInv, Numbered
    <3>2. CASE m \in bodies
      BY <3>2, <2>2 DEF NewBody
    <3> QED
      BY <3>1, <3>2, <1>7
  <2> QED
    BY <2>3, <1>4, <1>7 DEF IInv, Numbered
<1>12. InNetOnce'
  <2>1. SUFFICES ASSUME NEW e \in Requests', NEW f \in Requests', e.body = f.body
                 PROVE  e = f
    BY DEF InNetOnce
  <2>2. \A g \in Requests : g.body \in submitted
    BY DEF IInv, Numbered, Pending
  <2>3. CASE e \in Requests /\ f \in Requests
    BY <2>1, <2>3 DEF IInv, InNetOnce
  <2>4. CASE e \in Requests /\ f \notin Requests
    BY <2>1, <2>2, <2>4, <1>2, <1>3, <1>5
  <2>5. CASE e \notin Requests /\ f \in Requests
    BY <2>1, <2>2, <2>5, <1>2, <1>3, <1>5
  <2>6. CASE e \notin Requests /\ f \notin Requests
    BY <2>1, <2>6, <1>2, <1>3
  <2> QED
    BY <2>3, <2>4, <2>5, <2>6
<1> QED
  BY <1>3, <1>4, <1>5, <1>8, <1>9, <1>10, <1>11, <1>12 DEF IInv

\* An agent's new request, in the form Sending asks for.
LEMMA AskSends ==
    ASSUME IInv, NEW a \in Agent, NEW type \in {"read", "write"}, NEW t \in Time,
           NEW v \in Value \cup {NoValue}, Ask(a, type, t, v)
    PROVE  /\ IInv'
           /\ Migrations' = Migrations
           /\ submitted \subseteq submitted'
           /\ Pending' = Pending \cup (submitted' \ submitted)
           /\ UNCHANGED clpVars
<1> DEFINE m == [type |-> type, agent |-> a, time |-> t, value |-> v, n |-> sent[a] + 1]
<1>1. /\ SendsToClp(a, {m}, 1)
      /\ sendList' = sendList \cup {m}
      /\ UNCHANGED clpVars
  BY DEF Ask
<1>2. IsFiniteSet({m})
  BY FS_Singleton
<1>3. sent[a] \in Nat
  BY DEF IInv, Shape
<1>4. \A b \in {m} : NewBody(b, a, 1)
  BY <1>3 DEF NewBody
<1> HIDE DEF m
<1>5. /\ IInv'
      /\ Migrations' = Migrations
      /\ Pending' = Pending \cup {m}
      /\ {m} \cap submitted = {}
  BY <1>1, <1>2, <1>4, Sending
<1>6. submitted' = submitted \cup {m}
  BY <1>1 DEF SendsToClp
<1> QED
  BY <1>1, <1>5, <1>6

\* The anti-messages of a rollback are new, and no more than what is undone.
LEMMA AntiMessagesAreNew ==
    ASSUME IInv, NEW a \in Agent, NEW t \in Time
    PROVE  LET antis == AntiMessages(a, Undone(a, t))
               k == Cardinality(Undone(a, t))
           IN  /\ k \in Nat
               /\ IsFiniteSet(antis)
               /\ \A b \in antis : NewBody(b, a, k)
<1> DEFINE U == Undone(a, t)
           Rank(m) == Cardinality({k \in U : k.n <= m.n})
           Anti(m) == [type |-> IF m.type = "read" THEN "readAnti" ELSE "writeAnti",
                       agent |-> a, time |-> m.time, value |-> NoValue,
                       n |-> sent[a] + Rank(m)]
           antis == AntiMessages(a, U)
<1>1. U \subseteq sendList /\ IsFiniteSet(U)
  <2>1. U \subseteq sendList
    BY DEF Undone
  <2> QED
    BY <2>1, FS_Subset DEF IInv, Shape
<1>2. antis = {Anti(m) : m \in U}
  BY DEF AntiMessages
<1>3. Cardinality(U) \in Nat
  BY <1>1, FS_CardinalityType
<1>4. ASSUME NEW m \in U
      PROVE  Rank(m) \in 1..Cardinality(U)
  <2> DEFINE B == {k \in U : k.n <= m.n}
  <2>1. m.n \in Nat
    BY <1>1 DEF IInv, Numbered
  <2>2. m \in B /\ B \subseteq U
    BY <2>1
  <2> HIDE DEF B, U
  <2>3. IsFiniteSet(B) /\ Cardinality(B) <= Cardinality(U)
    BY <2>2, <1>1, FS_Subset
  <2>4. Cardinality(B) \in Nat
    BY <2>3, FS_CardinalityType
  <2>5. Cardinality(B) # 0
    BY <2>2, <2>3, FS_EmptySet
  <2> QED
    BY <2>3, <2>4, <2>5, <1>3 DEF B
<1> HIDE DEF Rank, U
<1>5. \A b \in antis : NewBody(b, a, Cardinality(U))
  <2>1. sent[a] \in Nat
    BY DEF IInv, Shape
  <2>2. SUFFICES ASSUME NEW m \in U
                 PROVE  NewBody(Anti(m), a, Cardinality(U))
    BY <1>2
  <2>3. Rank(m) \in Nat /\ 1 <= Rank(m) /\ Rank(m) <= Cardinality(U)
    BY <1>3, <1>4
  <2>4. Anti(m).n = sent[a] + Rank(m)
    OBVIOUS
  <2>5. Anti(m).type # "migration" /\ Anti(m).agent = a
    OBVIOUS
  <2> QED
    BY <1>3, <2>1, <2>3, <2>4, <2>5 DEF NewBody
<1>6. IsFiniteSet(antis)
  <2> DEFINE f == [m \in U |-> Anti(m)]
  <2>1. f \in Surjection(U, antis)
    BY <1>2 DEF Surjection
  <2> HIDE DEF f, Anti
  <2> QED
    BY <1>1, <2>1, FS_Surjection
<1> QED
  BY <1>3, <1>5, <1>6 DEF U

\* The anti-messages of a rollback.
LEMMA RollbackSends ==
    ASSUME IInv, NEW a \in Agent, NEW t \in Time, ProcessRollback(a, t)
    PROVE  /\ IInv'
           /\ Migrations' = Migrations
           /\ submitted \subseteq submitted'
           /\ Pending' = Pending \cup (submitted' \ submitted)
           /\ UNCHANGED clpVars
<1> DEFINE antis == AntiMessages(a, Undone(a, t))
           k == Cardinality(Undone(a, t))
<1>1. /\ SendsToClp(a, antis, k)
      /\ sendList' \subseteq sendList
      /\ UNCHANGED clpVars
  BY DEF ProcessRollback
<1>2. k \in Nat /\ IsFiniteSet(antis) /\ \A b \in antis : NewBody(b, a, k)
  BY AntiMessagesAreNew
<1> HIDE DEF antis, k
<1>3. /\ IInv'
      /\ Migrations' = Migrations
      /\ Pending' = Pending \cup antis
      /\ antis \cap submitted = {}
  BY <1>1, <1>2, Sending
<1>4. submitted' = submitted \cup antis
  BY <1>1 DEF SendsToClp
<1> QED
  BY <1>1, <1>3, <1>4

-----------------------------------------------------------------------------
(***************************************************************************)
(* The handlers of a CLP: what each keeps, and the step of OneVariable it  *)
(* is.                                                                     *)
(***************************************************************************)
\* The host takes a request out of the network.
LEMMA ExecuteApplies ==
    ASSUME IInv, NEW p \in Clp, NEW e \in RequestsTo(p), Execute(p, e)
    PROVE  IInv' /\ Abstract!Apply(e.body, fGVT[p])
<1>1. /\ direction[p] = HERE
      /\ net' = net \ {e}
      /\ UNCHANGED <<direction, hosts, fGVT, sent, submitted>>
  BY DEF Execute
<1>2. PICK effect \in Effects(writePeriods[p], e.body, fGVT[p]) :
        /\ writePeriods' = [writePeriods EXCEPT ![p] = effect.periods]
        /\ sendList' \subseteq sendList
  BY DEF Execute, Answered
<1>3. e \in Requests /\ e \in net /\ ~IsMigration(e)
  BY DEF RequestsTo, Requests
<1>4. Requests' = Requests \ {e} /\ Migrations' = Migrations
  BY <1>1, <1>3 DEF Requests, Migrations, IsMigration
<1>5. Pending' = Pending \ {e.body}
  BY <1>3, <1>4 DEF Pending, IInv, InNetOnce
<1>6. AtHost(p) /\ TheHistory = writePeriods[p]
  BY <1>1, HistoryOfHost DEF IInv, HereIsHost
<1>7. IInv'
  <2>1. Shape'
    <3>1. IsFiniteSet(sendList')
      BY <1>2, FS_Subset DEF IInv, Shape
    <3> QED
      BY <1>1, <1>2, <3>1 DEF IInv, Shape
  <2>2. Located'
    BY <1>1, <1>4, <1>6 DEF Located, AtHost
  <2>3. HereIsHost'
    BY <1>1 DEF IInv, HereIsHost
  <2>4. Numbered'
    BY <1>1, <1>2, <1>5 DEF IInv, Numbered
  <2>5. InNetOnce'
    BY <1>4 DEF IInv, InNetOnce
  <2> QED
    BY <2>1, <2>2, <2>3, <2>4, <2>5 DEF IInv
<1>8. TheHistory' = effect.periods
  <2>1. AtHost(p)'
    BY <1>1, <1>4, <1>6 DEF AtHost
  <2>2. TheHistory' = writePeriods'[p]
    BY <2>1 DEF AtHost, TheHistory
  <2> QED
    BY <1>2, <2>2 DEF IInv, Shape
<1> QED
  BY <1>1, <1>2, <1>3, <1>5, <1>6, <1>7, <1>8 DEF Abstract!Apply, Pending

\* A request that is sent on is the same request.
LEMMA ForwardStutters ==
    ASSUME IInv, NEW p \in Clp, NEW e \in RequestsTo(p), Forward(p, e)
    PROVE  IInv' /\ UNCHANGED <<TheHistory, submitted, Pending>>
<1> DEFINE next == OneHopOn(p, e, GetRankFromDirection(p, direction[p]))
<1>1. net' = (net \ {e}) \cup {next} /\ UNCHANGED <<clpVars, alpVars>>
  BY DEF Forward, Forwarded
<1>2. next.body = e.body
  BY DEF OneHopOn, Envelope
<1> HIDE DEF next
<1>3. e \in Requests /\ e \in net /\ ~IsMigration(e)
  BY DEF RequestsTo, Requests
<1>4. ~IsMigration(next)
  BY <1>2, <1>3 DEF IsMigration
<1>5. Requests' = (Requests \ {e}) \cup {next} /\ Migrations' = Migrations
  BY <1>1, <1>3, <1>4 DEF Requests, Migrations, IsMigration
<1>6. Pending' = Pending
  BY <1>2, <1>3, <1>5 DEF Pending
<1>7. TheHistory' = TheHistory
  BY <1>1, <1>5, HistoryStays DEF clpVars
<1>8. Shape' /\ HereIsHost'
  BY <1>1 DEF IInv, Shape, HereIsHost, clpVars, alpVars
<1>9. Located'
  BY <1>1, <1>3, <1>5 DEF IInv, Located, AtHost, OnItsWay, Migrations, clpVars
<1>10. Numbered'
  BY <1>1, <1>6 DEF IInv, Numbered, alpVars
<1>11. InNetOnce'
  BY <1>2, <1>3, <1>5 DEF IInv, InNetOnce
<1> QED
  BY <1>1, <1>6, <1>7, <1>8, <1>9, <1>10, <1>11 DEF IInv, alpVars

\* What the three ways to take a GVT share.
LEMMA GvtKeeps ==
    ASSUME IInv, NEW p \in Clp, NEW gvt \in GvtTime,
           fGVT' = [fGVT EXCEPT ![p] = gvt], UNCHANGED alpVars,
           Requests' = Requests
    PROVE  /\ fGVT' \in [Clp -> GvtTime]
           /\ sent' \in [Agent -> Nat] /\ IsFiniteSet(sendList')
           /\ Numbered' /\ InNetOnce'
           /\ UNCHANGED <<submitted, Pending>>
BY DEF IInv, Shape, Numbered, InNetOnce, Pending, alpVars

LEMMA GvtElsewhereStutters ==
    ASSUME IInv, NEW p \in Clp, NEW gvt \in GvtTime,
           fGVT' = [fGVT EXCEPT ![p] = gvt], UNCHANGED alpVars,
           SetGvtElsewhere(p, gvt)
    PROVE  IInv' /\ UNCHANGED <<TheHistory, submitted, Pending>>
<1>1. UNCHANGED <<direction, hosts, writePeriods, net>>
  BY DEF SetGvtElsewhere
<1>2. Requests' = Requests /\ Migrations' = Migrations
  BY <1>1 DEF Requests, Migrations, IsMigration
<1>3. TheHistory' = TheHistory
  BY <1>1, <1>2, HistoryStays
<1>4. Located' /\ HereIsHost'
  BY <1>1, <1>2 DEF IInv, Located, AtHost, OnItsWay, HereIsHost
<1> QED
  BY <1>1, <1>2, <1>3, <1>4, GvtKeeps DEF IInv, Shape

LEMMA GvtAtHostCollects ==
    ASSUME IInv, NEW p \in Clp, NEW gvt \in GvtTime,
           fGVT' = [fGVT EXCEPT ![p] = gvt], UNCHANGED alpVars,
           SetGvtAtHost(p, gvt)
    PROVE  IInv' /\ Abstract!Collect(gvt)
<1>1. p \in hosts /\ UNCHANGED <<direction, hosts, net>>
  BY DEF SetGvtAtHost
<1>2. PICK periods \in CollectEffects(writePeriods[p], gvt) :
        writePeriods' = [writePeriods EXCEPT ![p] = periods]
  BY DEF SetGvtAtHost
<1>3. Requests' = Requests /\ Migrations' = Migrations
  BY <1>1 DEF Requests, Migrations, IsMigration
<1>4. AtHost(p) /\ TheHistory = writePeriods[p]
  BY <1>1, HistoryOfHost DEF IInv
<1>5. AtHost(p)' /\ Located' /\ HereIsHost'
  BY <1>1, <1>3, <1>4 DEF IInv, Located, AtHost, HereIsHost
<1>6. TheHistory' = periods
  <2>1. TheHistory' = writePeriods'[p]
    BY <1>5 DEF AtHost, TheHistory
  <2> QED
    BY <2>1, <1>2 DEF IInv, Shape
<1>7. Shape'
  BY <1>1, <1>2, <1>3, GvtKeeps DEF IInv, Shape
<1> QED
  BY <1>2, <1>3, <1>4, <1>5, <1>6, <1>7, GvtKeeps DEF IInv, Abstract!Collect

\* The variable leaves: from here on its history is the one in the message.
LEMMA LeavingCollects ==
    ASSUME IInv, NEW p \in Clp, NEW gvt \in GvtTime,
           fGVT' = [fGVT EXCEPT ![p] = gvt], UNCHANGED alpVars,
           MigrateStateVariables(p, gvt)
    PROVE  IInv' /\ Abstract!Collect(gvt)
<1>1. PICK d \in Port, periods \in CollectEffects(writePeriods[p], gvt) :
        LET to == GetRankFromDirection(p, d) IN
        /\ p \in hosts
        /\ net' = net \cup {Envelope(p, to, NextPlace(p, to),
                              [type |-> "migration", periods |-> periods], 0, {})}
        /\ direction' = PointerTurned(p, d)
        /\ hosts' = HostsWithout(p)
        /\ writePeriods' = [writePeriods EXCEPT ![p] = << >>]
  BY DEF MigrateStateVariables
<1> DEFINE to == GetRankFromDirection(p, d)
           e == Envelope(p, to, NextPlace(p, to),
                         [type |-> "migration", periods |-> periods], 0, {})
<1>2. IsMigration(e) /\ e.body.periods = periods
  BY DEF Envelope, IsMigration
<1>3. net' = net \cup {e}
  BY <1>1
<1> HIDE DEF e
<1>4. Requests' = Requests /\ Migrations' = Migrations \cup {e}
  BY <1>2, <1>3 DEF Requests, Migrations, IsMigration
<1>5. AtHost(p) /\ TheHistory = writePeriods[p]
  BY <1>1, HistoryOfHost DEF IInv
<1>6. hosts' = {} /\ Migrations' = {e} /\ e \in net'
  BY <1>1, <1>3, <1>4, <1>5 DEF AtHost, HostsWithout
<1>7. Located' /\ TheHistory' = periods
  BY <1>2, <1>6 DEF Located, OnItsWay, TheHistory
<1>8. d \in 0..NoDirection /\ d # HERE
  BY DEF Port, HERE, UP, RIGHT, NoDirection, DIRECTION_SIZE
<1>9. direction' = [direction EXCEPT ![p] = d]
  BY <1>1 DEF PointerTurned
<1>10. HereIsHost'
  BY <1>5, <1>6, <1>8, <1>9 DEF IInv, Shape, HereIsHost, AtHost
<1>11. Shape'
  BY <1>1, <1>4, <1>8, <1>9, GvtKeeps DEF IInv, Shape
<1> QED
  BY <1>4, <1>5, <1>7, <1>10, <1>11, GvtKeeps DEF IInv, Abstract!Collect

\* The variable arrives.
LEMMA ArrivingForgetsReaders ==
    ASSUME IInv, NEW p \in Clp, StateMigration(p)
    PROVE  IInv' /\ Abstract!ForgetReaders
<1>1. PICK e \in MigrationsTo(p) :
        /\ net' = net \ {e}
        /\ direction' = PointerTurned(p, HERE)
        /\ hosts' = hosts \cup {p}
        /\ writePeriods' = [writePeriods EXCEPT ![p] = Inserted(e.body.periods)]
  BY DEF StateMigration
<1>2. UNCHANGED <<fGVT, alpVars>>
  BY DEF StateMigration
<1>3. e \in Migrations /\ IsMigration(e)
  BY DEF MigrationsTo, Migrations
<1>4. Requests' = Requests /\ Migrations' = Migrations \ {e}
  BY <1>1, <1>3 DEF Requests, Migrations, IsMigration
<1>5. OnItsWay(e) /\ TheHistory = e.body.periods
  BY <1>3, HistoryOnItsWay DEF IInv
<1>6. AtHost(p)'
  BY <1>1, <1>4, <1>5 DEF AtHost, OnItsWay
<1>7. TheHistory' = Inserted(TheHistory)
  <2>1. TheHistory' = writePeriods'[p]
    BY <1>6 DEF AtHost, TheHistory
  <2> QED
    BY <2>1, <1>1, <1>5 DEF IInv, Shape
<1>8. direction' = [direction EXCEPT ![p] = HERE] /\ HERE \in 0..NoDirection
  BY <1>1 DEF PointerTurned, NoDirection, HERE, DIRECTION_SIZE
<1>9. Located' /\ HereIsHost'
  BY <1>5, <1>6, <1>8 DEF IInv, Shape, Located, HereIsHost, AtHost, OnItsWay
<1>10. Shape'
  BY <1>1, <1>2, <1>8 DEF IInv, Shape, alpVars
<1>11. Pending' = Pending /\ Numbered' /\ InNetOnce'
  BY <1>2, <1>4 DEF IInv, Numbered, InNetOnce, Pending, alpVars
<1> QED
  BY <1>2, <1>7, <1>9, <1>10, <1>11 DEF IInv, Abstract!ForgetReaders, alpVars

-----------------------------------------------------------------------------
(***************************************************************************)
(* The theorems.                                                           *)
(***************************************************************************)
LEMMA InitIInv == Init => IInv /\ Abstract!Init
<1> SUFFICES ASSUME Init
             PROVE  IInv /\ Abstract!Init
  OBVIOUS
<1>1. StartHost \in Clp
  BY MigrationAssumption
<1>2. Requests = {} /\ Migrations = {} /\ Pending = {}
  BY DEF Init, Requests, Migrations, Pending
<1>3. AtHost(StartHost) /\ Located
  BY <1>1, <1>2 DEF Init, AtHost, Located
<1>4. \A p \in Clp : /\ SsvDirection(p, StartHost) \in 0..NoDirection
                     /\ SsvDirection(p, StartHost) = HERE <=> p = StartHost
  BY DEF SsvDirection, HERE, UP, LEFT, RIGHT, NoDirection, DIRECTION_SIZE
<1>5. Shape
  <2>1. direction \in [Clp -> 0..NoDirection]
    BY <1>4 DEF Init
  <2>2. 0 \in GvtTime
    BY MaxTimeAssumption DEF GvtTime
  <2>3. IsFiniteSet(sendList)
    BY FS_EmptySet DEF Init
  <2> QED
    BY <2>1, <2>2, <2>3 DEF Init, Shape
<1>6. HereIsHost
  BY <1>4 DEF Init, HereIsHost
<1>7. TheHistory = InitialPeriods
  BY <1>1, <1>3 DEF Init, AtHost, TheHistory
<1>8. Numbered /\ InNetOnce
  BY <1>2 DEF Init, Numbered, InNetOnce
<1> QED
  BY <1>2, <1>3, <1>5, <1>6, <1>7, <1>8 DEF IInv, Init, Abstract!Init

\* One step: the invariant holds again, and it is a step of OneVariable or none.
LEMMA StepIInv ==
    ASSUME IInv, [Next]_vars
    PROVE  IInv' /\ [Abstract!Next]_Abstract!vars
<1>1. ASSUME NEW a \in Agent, NEW t \in Time, NEW type \in {"read", "write"},
             NEW v \in Value \cup {NoValue}, Ask(a, type, t, v)
      PROVE  IInv' /\ Abstract!Submit
  BY <1>1, AskSends, HistoryStays DEF Abstract!Submit, clpVars
<1>2. ASSUME NEW a \in Agent, NEW t \in Time, ProcessRollback(a, t)
      PROVE  IInv' /\ Abstract!Submit
  BY <1>2, RollbackSends, HistoryStays DEF Abstract!Submit, clpVars
<1>3. ASSUME NEW p \in Clp, ReceiveRequest(p)
      PROVE  IInv' /\ [Abstract!Next]_Abstract!vars
  <2>1. PICK e \in RequestsTo(p) : Execute(p, e) \/ Forward(p, e)
    BY <1>3 DEF ReceiveRequest
  <2>2. CASE Execute(p, e)
    <3>1. IInv' /\ Abstract!Apply(e.body, fGVT[p])
      BY <2>2, ExecuteApplies
    <3>2. e.body \in Pending /\ fGVT[p] \in GvtTime
      BY DEF RequestsTo, Pending, IInv, Shape
    <3> QED
      BY <3>1, <3>2 DEF Abstract!Next
  <2>3. CASE Forward(p, e)
    BY <2>3, ForwardStutters DEF Abstract!vars
  <2> QED
    BY <2>1, <2>2, <2>3
<1>4. ASSUME NEW p \in Clp, StateMigration(p)
      PROVE  IInv' /\ Abstract!Next
  BY <1>4, ArrivingForgetsReaders DEF Abstract!Next
<1>5. ASSUME NEW p \in Clp, NEW gvt \in GvtTime, SetGvt(p, gvt)
      PROVE  IInv' /\ [Abstract!Next]_Abstract!vars
  <2>1. fGVT' = [fGVT EXCEPT ![p] = gvt] /\ UNCHANGED alpVars
    BY <1>5 DEF SetGvt
  <2>2. CASE SetGvtElsewhere(p, gvt)
    BY <2>1, <2>2, GvtElsewhereStutters DEF Abstract!vars
  <2>3. CASE SetGvtAtHost(p, gvt)
    BY <2>1, <2>3, GvtAtHostCollects DEF Abstract!Next
  <2>4. CASE MigrateStateVariables(p, gvt)
    BY <2>1, <2>4, LeavingCollects DEF Abstract!Next
  <2> QED
    BY <1>5, <2>2, <2>3, <2>4 DEF SetGvt
<1>6. CASE UNCHANGED vars
  <2>1. UNCHANGED <<clpVars, net, alpVars>>
    BY <1>6 DEF vars
  <2>2. UNCHANGED <<Requests, Migrations>>
    BY <2>1 DEF Requests, Migrations, IsMigration
  <2>3. UNCHANGED <<TheHistory, submitted, Pending>>
    BY <2>1, <2>2, HistoryStays DEF clpVars, alpVars, Pending
  <2>4. IInv'
    BY <2>1, <2>2, <2>3 DEF IInv, Shape, Located, AtHost, OnItsWay, HereIsHost,
                            Numbered, InNetOnce, clpVars, alpVars
  <2> QED
    BY <2>3, <2>4 DEF Abstract!vars
<1> QED
  BY <1>1, <1>2, <1>3, <1>4, <1>5, <1>6 DEF Next, Abstract!Next

\* The variable is at exactly one CLP or in one message, and the pointer says HERE
\* exactly there, in every tree and for any number of agents, requests and
\* rollbacks (Clp.cpp:613-699).
THEOREM OneCopyAlways == Spec => []OneCopy
<1>1. Init => IInv
  BY InitIInv
<1>2. IInv /\ [Next]_vars => IInv'
  BY StepIInv
<1>3. IInv => OneCopy
  BY LocatedIsOneCopy DEF IInv
<1> QED
  BY <1>1, <1>2, <1>3, PTL DEF Spec

\* All CLPs together, with the messages between them, are one variable whose
\* history takes every request once (Clp.cpp:366-514, 613-699).
THEOREM MigrationImplementsOneVariable == Spec => ImplementsOneVariable
<1>1. Init => IInv /\ Abstract!Init
  BY InitIInv
<1>2. IInv /\ [Next]_vars => IInv' /\ [Abstract!Next]_Abstract!vars
  BY StepIInv
<1> QED
  BY <1>1, <1>2, PTL DEF Spec, ImplementsOneVariable, Abstract!Spec

-----------------------------------------------------------------------------
(***************************************************************************)
(* What the operations make of a history: its periods keep their type,     *)
(* a read is never recorded before its period starts, and the first start  *)
(* changes only when the first period is retracted or collected.           *)
(***************************************************************************)
ReadRecord == [agent: Agent, time: GvtTime]
WritePeriod == [start: GvtTime, value: Value \cup {InitialValue},
                end: GvtTime \cup {LONG_MAX, ULONG_MAX},
                agent: Agent \cup {InitialOwner}, reads: SUBSET ReadRecord]
FitPeriod == {p \in WritePeriod : \A r \in p.reads : p.start <= r.time}

LEMMA TimesAreNumbers ==
    /\ MaxTime \in Nat /\ Time \subseteq GvtTime /\ GvtTime \subseteq Nat
    /\ \A p \in FitPeriod : p.start \in GvtTime /\ p.reads \subseteq ReadRecord
BY MaxTimeAssumption DEF Time, GvtTime, FitPeriod, WritePeriod

\* A history that starts at t or before has a period in force at t.
LEMMA StopFound ==
    ASSUME NEW h \in Seq(FitPeriod), NEW t \in Nat, h # << >>, h[1].start <= t
    PROVE  Stops(h, t) # {}
<1>1. PICK n \in Nat : n = Len(h)
  OBVIOUS
<1>2. \A i \in 1..n : h[i].start \in Nat
  <2>1. ASSUME NEW i \in 1..n PROVE h[i].start \in Nat
    <3>1. h[i] \in FitPeriod
      BY <1>1
    <3> QED
      BY <3>1, TimesAreNumbers
  <2> QED
    BY <2>1
<1> DEFINE S == {i \in 1..n : h[i].start <= t}
           k == Max(S)
<1>3. 1 \in S
  BY <1>1
<1>4. S \in SUBSET (1..n) /\ S # {}
  BY <1>3
<1>5. k \in S /\ \A i \in S : i <= k
  <2> HIDE DEF S
  <2> QED
    BY <1>4, MaxInSet
<1> HIDE DEF k
<1>6. \A i \in (k + 1)..n : h[i].start > t
  <2>1. ASSUME NEW i \in (k + 1)..n PROVE h[i].start > t
    <3>1. i \in 1..n /\ ~(i <= k)
      BY <1>5
    <3>2. i \notin S
      BY <1>5, <3>1
    <3> QED
      BY <1>2, <3>1, <3>2
  <2> QED
    BY <2>1
<1>7. k \in Stops(h, t)
  BY <1>1, <1>5, <1>6 DEF Stops, StopsAt
<1> QED
  BY <1>7

\* The same periods, with other reads.
SameStarts(q, h) ==
    /\ q \in Seq(FitPeriod) /\ Len(q) = Len(h)
    /\ \A i \in 1..Len(h) : q[i].start = h[i].start

\* A history that starts where another one does.
SameFirst(q, h) == q # << >> /\ q[1].start = h[1].start

LEMMA SameStartsSameFirst ==
    ASSUME NEW h \in Seq(FitPeriod), h # << >>, NEW q, SameStarts(q, h)
    PROVE  SameFirst(q, h)
<1>1. 1 \in 1..Len(h) /\ Len(q) # 0
  BY DEF SameStarts
<1> QED
  BY <1>1 DEF SameStarts, SameFirst

\* One period is replaced by one that starts at the same time.
LEMMA PeriodReplaced ==
    ASSUME NEW h \in Seq(FitPeriod), NEW k \in 1..Len(h), NEW e \in FitPeriod,
           e.start = h[k].start
    PROVE  SameStarts([h EXCEPT ![k] = e], h)
<1>1. [h EXCEPT ![k] = e] \in Seq(FitPeriod) /\ Len([h EXCEPT ![k] = e]) = Len(h)
  BY ExceptSeq
<1>2. \A i \in 1..Len(h) : [h EXCEPT ![k] = e][i] = IF i = k THEN e ELSE h[i]
  BY ExceptSeq
<1> QED
  BY <1>1, <1>2 DEF SameStarts

LEMMA ReadKeepsStarts ==
    ASSUME NEW h \in Seq(FitPeriod), NEW a \in Agent, NEW t \in GvtTime,
           NEW k \in Stops(h, t)
    PROVE  SameStarts(WithRead(h, k, a, t), h)
<1> DEFINE e == [h[k] EXCEPT !.reads = @ \cup {[agent |-> a, time |-> t]}]
<1>1. k \in 1..Len(h) /\ h[k].start <= t /\ h[k] \in FitPeriod
  BY DEF Stops, StopsAt
<1>2. e \in FitPeriod /\ e.start = h[k].start
  <2>1. h[k] \in WritePeriod /\ \A r \in h[k].reads : h[k].start <= r.time
    BY <1>1 DEF FitPeriod
  <2>2. [agent |-> a, time |-> t] \in ReadRecord
    BY DEF ReadRecord
  <2>3. /\ e \in WritePeriod /\ e.start = h[k].start
        /\ e.reads = h[k].reads \cup {[agent |-> a, time |-> t]}
    BY <2>1, <2>2 DEF WritePeriod
  <2> HIDE DEF e
  <2> QED
    BY <1>1, <2>1, <2>3 DEF FitPeriod
<1>3. WithRead(h, k, a, t) = [h EXCEPT ![k] = e]
  BY DEF WithRead
<1> HIDE DEF e
<1> QED
  BY <1>1, <1>2, <1>3, PeriodReplaced

LEMMA FewerReads ==
    ASSUME NEW p \in FitPeriod, NEW reads \in SUBSET p.reads
    PROVE  /\ [p EXCEPT !.reads = reads] \in FitPeriod
           /\ [p EXCEPT !.reads = reads].start = p.start
BY DEF FitPeriod, WritePeriod

LEMMA WithoutReadKeepsStarts ==
    ASSUME NEW h \in Seq(FitPeriod), NEW a, NEW t, NEW k \in 1..Len(h)
    PROVE  SameStarts(WithoutRead(h, k, a, t), h)
<1> DEFINE reads == h[k].reads \ {[agent |-> a, time |-> t]}
           e == [h[k] EXCEPT !.reads = reads]
<1>1. h[k] \in FitPeriod
  OBVIOUS
<1>2. e \in FitPeriod /\ e.start = h[k].start
  BY <1>1, FewerReads
<1>3. WithoutRead(h, k, a, t) = [h EXCEPT ![k] = e]
  BY DEF WithoutRead
<1> HIDE DEF e
<1> QED
  BY <1>2, <1>3, PeriodReplaced

\* A write is put behind the period where the walk back stops.
LEMMA WriteKeepsFirst ==
    ASSUME NEW h \in Seq(FitPeriod), NEW new \in FitPeriod,
           NEW n \in Nat, n = Len(h), NEW k \in 1..n
    PROVE  WithWrite(h, k, new) \in Seq(FitPeriod) /\ SameFirst(WithWrite(h, k, new), h)
<1> DEFINE reads == h[k].reads \ ReadsAfterInclusive(h[k], new.start)
           c == [h[k] EXCEPT !.end = new.start, !.reads = reads]
           cut == [h EXCEPT ![k] = c]
           end == IF k = Len(h) THEN ULONG_MAX ELSE h[k + 1].start
           e == [new EXCEPT !.end = end]
<1>1. h[k] \in FitPeriod /\ (k # Len(h) => h[k + 1] \in FitPeriod)
  OBVIOUS
<1>2. c \in FitPeriod /\ c.start = h[k].start
  <2>1. new.start \in GvtTime
    BY TimesAreNumbers
  <2> QED
    BY <1>1, <2>1 DEF FitPeriod, WritePeriod
<1>3. e \in FitPeriod
  <2>1. end \in GvtTime \cup {LONG_MAX, ULONG_MAX}
    BY <1>1, TimesAreNumbers
  <2> HIDE DEF end
  <2> QED
    BY <2>1 DEF FitPeriod, WritePeriod
<1>4. SameStarts(cut, h)
  <2> HIDE DEF c
  <2> QED
    BY <1>2, PeriodReplaced
<1> DEFINE q == InsertAt(cut, k + 1, e)
<1>5. WithWrite(h, k, new) = q
  BY DEF WithWrite
<1> HIDE DEF cut, e
<1>6. n = Len(cut) /\ cut \in Seq(FitPeriod)
  BY <1>4 DEF SameStarts
<1>7. /\ q \in Seq(FitPeriod) /\ Len(q) = n + 1
      /\ \A i \in 1..k : q[i] = cut[i]
  <2>1. cut \in Seq(FitPeriod) /\ Len(cut) = n /\ k \in 1..n /\ e \in FitPeriod
    BY <1>3, <1>6
  <2>2. q \in Seq(FitPeriod) /\ Len(q) = n + 1
    BY <2>1, InsertAtElements
  <2>3. \A i \in 1..k : q[i] = cut[i]
    BY <2>1, InsertAtElements
  <2> QED
    BY <2>2, <2>3
<1> HIDE DEF q
<1>8. 1 \in 1..k /\ 1 \in 1..Len(h)
  BY <1>6
<1>9. q[1] = cut[1] /\ cut[1].start = h[1].start
  BY <1>4, <1>7, <1>8 DEF SameStarts
<1>10. q # << >>
  BY <1>6, <1>7
<1> QED
  BY <1>5, <1>7, <1>9, <1>10 DEF SameFirst

\* Any period but the first may be retracted.
LEMMA RetractionKeepsFirst ==
    ASSUME NEW h \in Seq(FitPeriod), NEW k \in 1..Len(h)
    PROVE  /\ WithoutWrite(h, k) \in Seq(FitPeriod)
           /\ k # 1 => SameFirst(WithoutWrite(h, k), h)
<1> DEFINE end == IF k = Len(h) THEN LONG_MAX ELSE h[k].end
           e == [h[k - 1] EXCEPT !.end = end]
           w == [h EXCEPT ![k - 1] = e]
<1>1. CASE k = 1
  <2>1. WithoutWrite(h, k) = Tail(h) /\ h # << >>
    BY <1>1 DEF WithoutWrite
  <2> QED
    BY <1>1, <2>1
<1>2. CASE k # 1
  <2>1. k - 1 \in 1..Len(h) /\ h[k] \in FitPeriod /\ h[k - 1] \in FitPeriod
    BY <1>2
  <2>2. e \in FitPeriod /\ e.start = h[k - 1].start
    <3>1. end \in GvtTime \cup {LONG_MAX, ULONG_MAX}
      BY <2>1 DEF FitPeriod, WritePeriod
    <3> HIDE DEF end
    <3> QED
      BY <2>1, <3>1 DEF FitPeriod, WritePeriod
  <2>3. WithoutWrite(h, k) = RemoveAt(w, k)
    BY <1>2 DEF WithoutWrite
  <2>4. SameStarts(w, h)
    <3> HIDE DEF e
    <3> QED
      BY <2>1, <2>2, PeriodReplaced
  <2> HIDE DEF w
  <2>5. PICK n \in Nat : n = Len(h) /\ n = Len(w) /\ w \in Seq(FitPeriod)
    BY <2>4 DEF SameStarts
  <2>6. k \in 1..n /\ 1 \in 1..(k - 1) /\ 1 \in 1..Len(h) /\ n - 1 # 0
    BY <1>2, <2>5
  <2>7. /\ RemoveAt(w, k) \in Seq(FitPeriod)
        /\ Len(RemoveAt(w, k)) = n - 1
        /\ \A i \in 1..(k - 1) : RemoveAt(w, k)[i] = w[i]
    <3>1. w \in Seq(FitPeriod) /\ n \in Nat /\ Len(w) = n /\ k \in 1..n
      BY <2>5, <2>6
    <3>2. RemoveAt(w, k) \in Seq(FitPeriod) /\ Len(RemoveAt(w, k)) = n - 1
      BY <3>1, RemoveAtElements
    <3>3. \A i \in 1..(k - 1) : RemoveAt(w, k)[i] = w[i]
      BY <3>1, RemoveAtElements
    <3> QED
      BY <3>2, <3>3
  <2>8. RemoveAt(w, k)[1] = w[1] /\ w[1].start = h[1].start
    BY <2>4, <2>6, <2>7 DEF SameStarts
  <2>9. RemoveAt(w, k) # << >>
    BY <2>6, <2>7
  <2> QED
    BY <2>3, <2>7, <2>8, <2>9 DEF SameFirst
<1> QED
  BY <1>1, <1>2

\* A history that collection leaves starts where it did, or at the GVT.
LEMMA CollectionKeeps ==
    ASSUME NEW h \in Seq(FitPeriod), NEW gvt \in GvtTime, NEW q \in CollectEffects(h, gvt)
    PROVE  /\ q \in Seq(FitPeriod)
           /\ h # << >> => q # << >> /\ (q[1].start = gvt \/ SameFirst(q, h))
<1>1. CASE q = h
  BY <1>1 DEF SameFirst
<1>2. CASE q # h
  <2>1. PICK k \in Stops(h, gvt), first \in 1..Len(h) :
          /\ FirstStartingAt(Collected(h, k, gvt), gvt, first)
          /\ q = SubSeq(Collected(h, k, gvt), first, Len(h))
    BY <1>2 DEF CollectEffects
  <2> DEFINE reads == {r \in h[k].reads : r.time >= gvt}
             e == [h[k] EXCEPT !.start = gvt, !.reads = reads]
             c == [h EXCEPT ![k] = e]
  <2>2. k \in 1..Len(h) /\ h[k] \in FitPeriod
    BY DEF Stops
  <2>3. e \in FitPeriod /\ e.start = gvt
    <3>1. \A r \in reads : gvt <= r.time
      <4>1. \A r \in h[k].reads : r.time \in GvtTime
        BY <2>2, TimesAreNumbers DEF ReadRecord
      <4> QED
        BY <4>1, TimesAreNumbers
    <3>2. reads \subseteq h[k].reads
      OBVIOUS
    <3> HIDE DEF reads
    <3> QED
      BY <2>2, <3>1, <3>2 DEF FitPeriod, WritePeriod
  <2>4. Collected(h, k, gvt) = c
    BY DEF Collected
  <2> HIDE DEF e
  <2>5. c \in Seq(FitPeriod) /\ Len(c) = Len(h)
    BY <2>2, <2>3, ExceptSeq
  <2> HIDE DEF c
  <2>6. c[first].start = gvt
    BY <2>1, <2>4 DEF FirstStartingAt
  <2>7. PICK n \in Nat : n = Len(h) /\ n = Len(c) /\ first \in 1..n
    BY <2>1, <2>5
  <2>8. q = SubSeq(c, first, n)
    BY <2>1, <2>4, <2>7
  <2>9. /\ q \in Seq(FitPeriod) /\ Len(q) = n - first + 1
        /\ \A i \in 1..(n - first + 1) : q[i] = c[first + i - 1]
    BY <2>5, <2>7, <2>8, SubSeqElements
  <2>10. 1 \in 1..(n - first + 1) /\ first + 1 - 1 = first
    BY <2>7
  <2>11. q[1].start = gvt
    BY <2>6, <2>9, <2>10
  <2>12. q # << >>
    BY <2>9, <2>10
  <2> QED
    BY <2>9, <2>11, <2>12
<1> QED
  BY <1>1, <1>2

\* A write: of a request, or of a period that is copied.
IsWrite(m) ==
    /\ m.time \in GvtTime
    /\ m.value \in Value \cup {InitialValue}
    /\ m.agent \in Agent \cup {InitialOwner}

NewPeriod(m) == [start |-> m.time, end |-> ULONG_MAX, value |-> m.value,
                 agent |-> m.agent, reads |-> {}]

LEMMA WriteKeeps ==
    ASSUME NEW h \in Seq(FitPeriod), NEW m, IsWrite(m), NEW e \in WriteEffects(h, m)
    PROVE  /\ e.periods \in Seq(FitPeriod) /\ e.periods # << >>
           /\ h # << >> => SameFirst(e.periods, h)
           /\ h = << >> => e.periods[1].start = m.time
<1> DEFINE new == NewPeriod(m)
<1>1. new \in FitPeriod /\ new.start = m.time
  BY DEF NewPeriod, IsWrite, FitPeriod, WritePeriod
<1>2. CASE h = << >>
  <2>1. e = Effect(<<new>>, TRUE)
    BY <1>2, Zenon DEF WriteEffects, NewPeriod
  <2>2. e.periods = <<new>>
    BY <2>1 DEF Effect
  <2> HIDE DEF new
  <2> QED
    BY <1>1, <1>2, <2>2
<1>3. CASE h # << >>
  <2>1. \/ e = Effect(h, FALSE)
        \/ \E k \in Stops(h, m.time) : e = Effect(WithWrite(h, k, new), TRUE)
    BY <1>3 DEF WriteEffects, NewPeriod
  <2>2. CASE e = Effect(h, FALSE)
    BY <1>3, <2>2 DEF Effect, SameFirst
  <2>3. CASE \E k \in Stops(h, m.time) : e = Effect(WithWrite(h, k, new), TRUE)
    <3>1. PICK k \in Stops(h, m.time) : e = Effect(WithWrite(h, k, new), TRUE)
      BY <2>3
    <3>2. e.periods = WithWrite(h, k, new)
      BY <3>1 DEF Effect
    <3>3. PICK n \in Nat : n = Len(h) /\ k \in 1..n
      BY DEF Stops
    <3> HIDE DEF new
    <3>4. e.periods \in Seq(FitPeriod) /\ SameFirst(e.periods, h)
      BY <1>1, <3>2, <3>3, WriteKeepsFirst
    <3> QED
      BY <1>3, <3>4 DEF SameFirst
  <2> QED
    BY <2>1, <2>2, <2>3
<1> QED
  BY <1>2, <1>3

LEMMA WriteHasEffect ==
    ASSUME NEW h, NEW m
    PROVE  WriteEffects(h, m) # {}
BY DEF WriteEffects

\* A message of an agent.  (Request bounds its number as well.)
Message == [type: {"read", "write", "readAnti", "writeAnti"}, agent: Agent,
            time: Time, value: Value \cup {NoValue}, n: Nat \ {0}]

\* The write that a history starts with, not from before the GVT, is retracted.
RetractsFirst(h, m, gvt) == m.type = "writeAnti" /\ gvt <= m.time /\ h[1].start = m.time

LEMMA EffectKeeps ==
    ASSUME NEW h \in Seq(FitPeriod), NEW m \in Message, NEW gvt \in GvtTime,
           NEW e \in Effects(h, m, gvt)
    PROVE  /\ e.periods \in Seq(FitPeriod)
           /\ h # << >> /\ ~RetractsFirst(h, m, gvt) => SameFirst(e.periods, h)
<1>1. /\ m.type \in {"read", "write", "readAnti", "writeAnti"}
      /\ m.agent \in Agent /\ m.time \in GvtTime /\ m.time \in Nat /\ gvt \in Nat
      /\ m.value \in Value \cup {InitialValue}
  BY TimesAreNumbers DEF Message, NoValue
<1>2. e.periods = h => e.periods \in Seq(FitPeriod) /\ (h # << >> => SameFirst(e.periods, h))
  BY DEF SameFirst
<1>3. SameStarts(e.periods, h) =>
        e.periods \in Seq(FitPeriod) /\ (h # << >> => SameFirst(e.periods, h))
  BY SameStartsSameFirst DEF SameStarts
<1>4. CASE m.type = "read"
  <2> DEFINE ts == IF m.time < gvt THEN gvt ELSE m.time
  <2>1. e \in ReadEffects(h, m, gvt)
    BY <1>4 DEF Effects
  <2>2. PICK k \in Stops(h, ts) : e = Effect(WithRead(h, k, m.agent, ts), TRUE)
    BY <2>1 DEF ReadEffects
  <2>3. e.periods = WithRead(h, k, m.agent, ts) /\ ts \in GvtTime
    BY <1>1, <2>2 DEF Effect
  <2> HIDE DEF ts
  <2>4. SameStarts(e.periods, h)
    BY <1>1, <2>3, ReadKeepsStarts
  <2> QED
    BY <1>3, <2>4
<1>5. CASE m.type = "write"
  <2>1. e \in WriteEffects(h, m) /\ IsWrite(m)
    BY <1>1, <1>5 DEF Effects, IsWrite
  <2> QED
    BY <2>1, WriteKeeps
<1>6. CASE m.type = "readAnti"
  <2>1. e \in ReadAntiEffects(h, m, gvt)
    BY <1>6 DEF Effects
  <2>2. \/ e = Effect(h, TRUE)
        \/ \E k \in Stops(h, m.time) : e = Effect(WithoutRead(h, k, m.agent, m.time), TRUE)
    BY <2>1 DEF ReadAntiEffects
  <2>3. CASE e = Effect(h, TRUE)
    BY <1>2, <2>3 DEF Effect
  <2>4. CASE \E k \in Stops(h, m.time) : e = Effect(WithoutRead(h, k, m.agent, m.time), TRUE)
    <3>1. PICK k \in Stops(h, m.time) :
            e = Effect(WithoutRead(h, k, m.agent, m.time), TRUE)
      BY <2>4
    <3>2. e.periods = WithoutRead(h, k, m.agent, m.time) /\ k \in 1..Len(h)
      BY <3>1 DEF Effect, Stops
    <3>3. SameStarts(e.periods, h)
      BY <3>2, WithoutReadKeepsStarts
    <3> QED
      BY <1>3, <3>3
  <2> QED
    BY <2>2, <2>3, <2>4
<1>7. CASE m.type = "writeAnti"
  <2>1. e \in WriteAntiEffects(h, m, gvt)
    BY <1>7 DEF Effects
  <2>2. \/ e = Effect(h, TRUE)
        \/ /\ ~(gvt > m.time)
           /\ \E k \in 1..Len(h) : Retracts(h, m, k) /\ e = Effect(WithoutWrite(h, k), TRUE)
    BY <2>1 DEF WriteAntiEffects
  <2>3. CASE e = Effect(h, TRUE)
    BY <1>2, <2>3 DEF Effect
  <2>4. ASSUME NEW k \in 1..Len(h), Retracts(h, m, k), ~(gvt > m.time),
               e = Effect(WithoutWrite(h, k), TRUE)
        PROVE  /\ e.periods \in Seq(FitPeriod)
               /\ h # << >> /\ ~RetractsFirst(h, m, gvt) => SameFirst(e.periods, h)
    <3>1. e.periods = WithoutWrite(h, k) /\ h[k].start = m.time
      BY <2>4 DEF Effect, Retracts, FirstStartingAt
    <3>2. e.periods \in Seq(FitPeriod) /\ (k # 1 => SameFirst(e.periods, h))
      BY <3>1, RetractionKeepsFirst
    <3>3. k = 1 => RetractsFirst(h, m, gvt)
      BY <1>1, <1>7, <2>4, <3>1 DEF RetractsFirst
    <3> QED
      BY <3>2, <3>3
  <2> QED
    BY <2>2, <2>3, <2>4
<1> QED
  BY <1>1, <1>4, <1>5, <1>6, <1>7

\* Copied is the same history without its reads.
WriteOf(list, p) ==
    (CHOOSE e \in WriteEffects(list, [time |-> p.start, value |-> p.value,
                                      agent |-> p.agent]) : TRUE).periods

LEMMA CopyOnePeriod ==
    ASSUME NEW h \in Seq(FitPeriod), NEW p \in FitPeriod
    PROVE  /\ WriteOf(h, p) \in Seq(FitPeriod) /\ WriteOf(h, p) # << >>
           /\ h # << >> => SameFirst(WriteOf(h, p), h)
           /\ h = << >> => WriteOf(h, p)[1].start = p.start
<1> DEFINE m == [time |-> p.start, value |-> p.value, agent |-> p.agent]
<1>1. IsWrite(m) /\ m.time = p.start
  BY DEF IsWrite, FitPeriod, WritePeriod
<1>2. PICK e : e \in WriteEffects(h, m) /\ WriteOf(h, p) = e.periods
  BY WriteHasEffect DEF WriteOf
<1> HIDE DEF m
<1> QED
  BY <1>1, <1>2, WriteKeeps

LEMMA CopyKeeps ==
    ASSUME NEW h \in Seq(FitPeriod)
    PROVE  /\ Inserted(h) \in Seq(FitPeriod)
           /\ h # << >> => SameFirst(Inserted(h), h)
<1>1. PICK n \in Nat : n = Len(h) /\ DOMAIN h = 1..n
  OBVIOUS
<1> DEFINE V == Seq(FitPeriod)
           IsCopy(it) == it = [s \in SUBSET (1..n) |->
                                 IF s = {} THEN << >>
                                 ELSE WriteOf(it[s \ {Max(s)}], h[Max(s)])]
<1>2. Inserted(h) = (CHOOSE it : IsCopy(it))[1..n]
  BY <1>1, Zenon DEF Inserted, FoldLeft, MapThenFoldSet, WriteOf
<1>3. \E it : IsCopy(it)
  <2> DEFINE f == [x \in (1..n) \X V |-> WriteOf(x[2], h[x[1]])]
  <2>1. \A i \in 1..n, l \in V : WriteOf(l, h[i]) \in V
    BY <1>1, CopyOnePeriod
  <2>2. f \in [(1..n) \X V -> V]
    BY <2>1
  <2>3. << >> \in V
    OBVIOUS
  <2>4. \A i \in 1..n, l \in V : f[<<i, l>>] = WriteOf(l, h[i])
    OBVIOUS
  <2> HIDE DEF f, V
  <2>5. PICK it \in [SUBSET (1..n) -> V] : IsFoldOf(it, f, << >>, n)
    BY <2>2, <2>3, FoldExists
  <2>6. ASSUME NEW s \in SUBSET (1..n)
        PROVE  it[s] = IF s = {} THEN << >> ELSE WriteOf(it[s \ {Max(s)}], h[Max(s)])
    <3>1. it[s] = IF s = {} THEN << >> ELSE f[<<Max(s), it[s \ {Max(s)}]>>]
      BY <2>5 DEF IsFoldOf
    <3>2. s # {} => Max(s) \in 1..n /\ it[s \ {Max(s)}] \in V
      BY <2>5, MaxInSet
    <3> QED
      BY <2>4, <3>1, <3>2
  <2> QED
    BY <2>5, <2>6
<1>4. PICK it : IsCopy(it) /\ Inserted(h) = it[1..n]
  BY <1>2, <1>3
<1> DEFINE Right(s) == /\ it[s] \in V
                       /\ s # {} => it[s] # << >>
                       /\ 1 \in s => it[s][1].start = h[1].start
           B == {s \in SUBSET (1..n) : ~Right(s)}
<1>5. B = {}
  <2> SUFFICES ASSUME B # {} PROVE FALSE
    OBVIOUS
  <2>1. PICK T \in B : \A U \in B : U \subseteq T => U = T
    <3>1. B \in SUBSET (SUBSET (1..n)) /\ IsFiniteSet(1..n)
      BY FS_Interval
    <3> HIDE DEF B
    <3>2. PICK S : S = 1..n
      OBVIOUS
    <3>3. IsFiniteSet(S) /\ B \in SUBSET (SUBSET S) /\ B # {}
      BY <3>1, <3>2, Zenon
    <3>4. \E T \in B : \A U \in B : U \subseteq T => U = T
      BY <3>3, SmallestSet
    <3> QED
      BY <3>4
  <2>2. T \in SUBSET (1..n) /\ T # {}
    <3>1. it[{}] = << >>
      BY <1>4
    <3>2. Right({})
      BY <3>1
    <3>3. T \in SUBSET (1..n) /\ ~Right(T)
      BY <2>1
    <3> HIDE DEF Right
    <3> QED
      BY <3>2, <3>3
  <2> DEFINE x == Max(T)
             U == T \ {x}
  <2>3. x \in T /\ \A y \in T : y <= x
    BY <2>2, MaxInSet
  <2>4. it[T] = WriteOf(it[U], h[x])
    BY <1>4, <2>2
  <2> HIDE DEF x
  <2>5. Right(U)
    <3>1. U \in SUBSET (1..n) /\ U \subseteq T /\ U # T
      BY <2>2, <2>3
    <3> QED
      BY <2>1, <3>1
  <2>6. h[x] \in FitPeriod /\ it[U] \in V
    BY <1>1, <2>2, <2>3, <2>5
  <2>7. /\ it[T] \in V /\ it[T] # << >>
        /\ it[U] # << >> => SameFirst(it[T], it[U])
        /\ it[U] = << >> => it[T][1].start = h[x].start
    BY <2>4, <2>6, CopyOnePeriod
  <2>8. 1 \in T => it[T][1].start = h[1].start
    <3>1. CASE U = {}
      <4>1. it[U] = << >> /\ (1 \in T => x = 1)
        BY <1>4, <3>1
      <4> QED
        BY <2>7, <4>1
    <3>2. CASE U # {}
      <4>1. 1 \in T => 1 \in U
        <5>1. PICK y \in U : y \in T /\ y # x
          BY <3>2
        <5>2. y \in 1..n /\ y <= x /\ x \in 1..n
          BY <2>2, <2>3, <5>1
        <5>3. x # 1
          BY <5>1, <5>2
        <5> QED
          BY <5>3
      <4> QED
        BY <2>5, <2>7, <3>2, <4>1 DEF SameFirst
    <3> QED
      BY <3>1, <3>2
  <2> QED
    BY <2>1, <2>7, <2>8
<1>6. Right(1..n)
  BY <1>5
<1>7. h # << >> => 1 \in 1..n
  BY <1>1
<1> QED
  BY <1>4, <1>6, <1>7 DEF SameFirst

-----------------------------------------------------------------------------
(***************************************************************************)
(* No handler exits.  GVT is behind the agents and the messages on the way *)
(* (GvtIsBehind), so a retraction can reach the period that a history      *)
(* starts with only if its agent is past the write it retracts; and that   *)
(* takes an answer to a later request (RetractionsAhead, AwaitedIsLast).   *)
(***************************************************************************)
Typed ==
    /\ agentLvt \in [Agent -> GvtTime]
    /\ awaiting \in [Agent -> Nat]
    /\ submitted \subseteq Message
    /\ overtaken \in BOOLEAN

GvtIsBehind ==
    /\ \A p \in Clp, a \in Agent : fGVT[p] <= agentLvt[a]
    /\ \A p \in Clp, m \in Pending : fGVT[p] <= m.time

RetractionsAhead ==
    ~overtaken => \A m \in Pending : m.type = "writeAnti" => agentLvt[m.agent] < m.time

AwaitedIsLast ==
    \A m \in Pending :
      m.type = "writeAnti" /\ awaiting[m.agent] # 0 => m.n < awaiting[m.agent]

\* Some CLP has heard of a GVT that is not before the history.  (It need not be
\* the host, which may have the variable from one that has.)
ReachesBack ==
    ~overtaken => TheHistory # << >> /\ \E q \in Clp : TheHistory[1].start <= fGVT[q]

HistoryInv ==
    /\ Typed
    /\ TheHistory \in Seq(FitPeriod)
    /\ GvtIsBehind
    /\ RetractionsAhead
    /\ AwaitedIsLast
    /\ ReachesBack

LEMMA PendingTyped ==
    ASSUME IInv, HistoryInv, NEW m \in Pending
    PROVE  /\ m \in Message /\ m.agent \in Agent
           /\ m.time \in Time /\ m.time \in Nat /\ m.time + 1 \in GvtTime
           /\ m.n \in Nat /\ m.n # 0 /\ m.n <= sent[m.agent]
<1>1. m \in Message /\ m \in submitted
  BY DEF IInv, Numbered, HistoryInv, Typed
<1>2. m.agent \in Agent /\ m.time \in Time /\ m.n \in Nat /\ m.n # 0
  BY <1>1 DEF Message
<1>3. m.time \in Nat /\ m.time + 1 \in GvtTime
  BY <1>2, MaxTimeAssumption DEF Time, GvtTime
<1> QED
  BY <1>1, <1>2, <1>3 DEF IInv, Numbered

LEMMA NumbersTyped ==
    ASSUME IInv, HistoryInv
    PROVE  /\ \A p \in Clp : fGVT[p] \in Nat /\ fGVT[p] \in GvtTime
           /\ \A a \in Agent : agentLvt[a] \in Nat /\ agentLvt[a] \in GvtTime
           /\ \A a \in Agent : sent[a] \in Nat /\ awaiting[a] \in Nat
BY TimesAreNumbers DEF IInv, Shape, HistoryInv, Typed

LEMMA InitHistoryInv == Init => HistoryInv
<1> SUFFICES ASSUME Init
             PROVE  HistoryInv
  OBVIOUS
<1>1. IInv /\ TheHistory = InitialPeriods
  BY InitIInv DEF Abstract!Init
<1>2. Pending = {}
  BY DEF Init, Pending, Requests
<1>3. 0 \in GvtTime
  BY MaxTimeAssumption DEF GvtTime
<1>4. Typed
  BY <1>3 DEF Init, Typed
<1>5. InitialPeriods[1] \in FitPeriod
  BY <1>3 DEF InitialPeriods, FitPeriod, WritePeriod
<1>6. /\ InitialPeriods \in Seq(FitPeriod) /\ InitialPeriods # << >>
      /\ InitialPeriods[1].start = 0
  BY <1>5 DEF InitialPeriods
<1>7. StartHost \in Clp /\ \A p \in Clp : fGVT[p] = 0
  BY MigrationAssumption DEF Init
<1>8. GvtIsBehind
  BY <1>2, <1>7 DEF Init, GvtIsBehind
<1>9. RetractionsAhead /\ AwaitedIsLast
  BY <1>2 DEF RetractionsAhead, AwaitedIsLast
<1>10. ReachesBack
  BY <1>1, <1>6, <1>7 DEF ReachesBack
<1> QED
  BY <1>1, <1>4, <1>6, <1>8, <1>9, <1>10 DEF HistoryInv

\* An agent asks.
LEMMA AskKeepsHistory ==
    ASSUME IInv, HistoryInv, NEW a \in Agent, NEW type \in {"read", "write"},
           NEW t \in Time, NEW v \in Value \cup {NoValue}, Ask(a, type, t, v)
    PROVE  HistoryInv'
<1>1. PICK m : /\ m = [type |-> type, agent |-> a, time |-> t, value |-> v, n |-> sent[a] + 1]
               /\ t >= agentLvt[a]
               /\ submitted' = submitted \cup {m}
               /\ awaiting' = [awaiting EXCEPT ![a] = m.n]
               /\ UNCHANGED <<clpVars, agentLvt>>
  BY DEF Ask, SendsToClp
<1>2. /\ Migrations' = Migrations
      /\ Pending' \subseteq Pending \cup {m}
  BY <1>1, AskSends
<1>3. TheHistory' = TheHistory /\ UNCHANGED <<fGVT, overtaken>>
  BY <1>1, <1>2, HistoryStays DEF clpVars
<1>4. sent[a] + 1 \in Nat \ {0} /\ t \in Nat
  BY NumbersTyped, TimesAreNumbers
<1>5. m \in Message /\ m.type # "writeAnti" /\ m.agent = a /\ m.time = t /\ m.n = sent[a] + 1
  BY <1>1, <1>4 DEF Message
<1>6. Typed'
  BY <1>1, <1>3, <1>4, <1>5 DEF HistoryInv, Typed
<1>7. GvtIsBehind'
  <2>1. \A p \in Clp : fGVT[p] <= t
    BY <1>1, <1>4, NumbersTyped DEF HistoryInv, GvtIsBehind
  <2> QED
    BY <1>1, <1>2, <1>3, <1>5, <2>1 DEF HistoryInv, GvtIsBehind
<1>8. RetractionsAhead'
  BY <1>1, <1>2, <1>3, <1>5 DEF HistoryInv, RetractionsAhead
<1>9. AwaitedIsLast'
  <2>1. ASSUME NEW r \in Pending', r.type = "writeAnti", awaiting'[r.agent] # 0
        PROVE  r.n < awaiting'[r.agent]
    <3>1. r \in Pending
      BY <1>2, <1>5, <2>1
    <3>2. r.agent \in Agent /\ r.n \in Nat /\ r.n <= sent[r.agent]
      BY <3>1, PendingTyped
    <3>3. CASE r.agent = a
      <4>1. awaiting'[a] = sent[a] + 1
        BY <1>1, <1>5 DEF HistoryInv, Typed
      <4> QED
        BY <3>2, <3>3, <4>1, NumbersTyped
    <3>4. CASE r.agent # a
      <4>1. awaiting'[r.agent] = awaiting[r.agent]
        BY <1>1, <3>2, <3>4 DEF HistoryInv, Typed
      <4> QED
        BY <2>1, <3>1, <4>1 DEF HistoryInv, AwaitedIsLast
    <3> QED
      BY <3>3, <3>4
  <2> QED
    BY <2>1 DEF AwaitedIsLast
<1>10. ReachesBack'
  BY <1>3 DEF HistoryInv, ReachesBack
<1> QED
  BY <1>3, <1>6, <1>7, <1>8, <1>9, <1>10 DEF HistoryInv

\* An agent is rolled back: what it retracts is not before the time it is set to.
LEMMA RollbackKeepsHistory ==
    ASSUME IInv, HistoryInv, NEW a \in Agent, NEW t \in Time, ProcessRollback(a, t)
    PROVE  HistoryInv'
<1> DEFINE U == Undone(a, t)
           antis == AntiMessages(a, U)
<1>1. /\ t < agentLvt[a]
      /\ \A p \in Clp : fGVT[p] <= t
      /\ submitted' = submitted \cup antis
      /\ agentLvt' = [agentLvt EXCEPT ![a] = t]
      /\ awaiting' = [awaiting EXCEPT ![a] = 0]
      /\ UNCHANGED clpVars
  BY DEF ProcessRollback, SendsToClp
<1>2. /\ Migrations' = Migrations
      /\ Pending' \subseteq Pending \cup antis
  BY <1>1, RollbackSends
<1>3. TheHistory' = TheHistory /\ UNCHANGED <<fGVT, overtaken>>
  BY <1>1, <1>2, HistoryStays DEF clpVars
<1>4. t \in Nat /\ t \in GvtTime
  BY TimesAreNumbers
<1>5. ASSUME NEW m \in antis
      PROVE  /\ m \in Message /\ m.agent = a /\ m.time \in Nat /\ t <= m.time
             /\ m.type = "writeAnti" => t < m.time
  <2>1. PICK u \in U :
          m = [type |-> IF u.type = "read" THEN "readAnti" ELSE "writeAnti", agent |-> a,
               time |-> u.time, value |-> NoValue,
               n |-> sent[a] + Cardinality({k \in U : k.n <= u.n})]
    BY DEF AntiMessages
  <2>2. u \in submitted /\ u \in Message
    BY DEF Undone, IInv, Numbered, HistoryInv, Typed
  <2>3. u.time \in Time /\ u.time \in Nat
    BY <2>2, TimesAreNumbers DEF Message
  <2>4. IF u.type = "read" THEN t <= u.time ELSE t < u.time
    BY <1>4, <2>3 DEF Undone
  <2>5. sent[a] + Cardinality({k \in U : k.n <= u.n}) \in Nat \ {0}
    <3>1. IsFiniteSet({k \in U : k.n <= u.n})
      <4>1. {k \in U : k.n <= u.n} \subseteq sendList
        BY DEF Undone
      <4> QED
        BY <4>1, FS_Subset DEF IInv, Shape
    <3>2. u \in {k \in U : k.n <= u.n}
      BY <2>2 DEF Message
    <3>3. Cardinality({k \in U : k.n <= u.n}) \in Nat \ {0}
      BY <3>1, <3>2, FS_CardinalityType, FS_EmptySet
    <3> QED
      BY <3>3, NumbersTyped
  <2> QED
    BY <1>4, <2>1, <2>3, <2>4, <2>5 DEF Message
<1> HIDE DEF antis
<1>6. Typed'
  BY <1>1, <1>3, <1>4, <1>5 DEF HistoryInv, Typed
<1>7. GvtIsBehind'
  <2>1. ASSUME NEW p \in Clp, NEW b \in Agent PROVE fGVT[p] <= agentLvt'[b]
    BY <1>1 DEF HistoryInv, Typed, GvtIsBehind
  <2>2. ASSUME NEW p \in Clp, NEW m \in Pending' PROVE fGVT[p] <= m.time
    <3>1. CASE m \in Pending
      BY <3>1 DEF HistoryInv, GvtIsBehind
    <3>2. CASE m \in antis
      <4>1. fGVT[p] <= t /\ t <= m.time /\ m.time \in Nat /\ fGVT[p] \in Nat
        BY <1>1, <1>5, <3>2, NumbersTyped
      <4> QED
        BY <1>4, <4>1
    <3> QED
      BY <1>2, <3>1, <3>2
  <2> QED
    BY <1>3, <2>1, <2>2 DEF GvtIsBehind
<1>8. RetractionsAhead'
  <2>1. ASSUME ~overtaken, NEW m \in Pending', m.type = "writeAnti"
        PROVE  agentLvt'[m.agent] < m.time
    <3>1. CASE m \in Pending
      <4>1. m.agent \in Agent /\ m.time \in Nat /\ agentLvt[m.agent] < m.time
        BY <2>1, <3>1, PendingTyped DEF HistoryInv, RetractionsAhead
      <4>2. agentLvt'[m.agent] = IF m.agent = a THEN t ELSE agentLvt[m.agent]
        BY <1>1, <4>1 DEF HistoryInv, Typed
      <4> QED
        BY <1>1, <1>4, <4>1, <4>2, NumbersTyped
    <3>2. CASE m \in antis
      BY <1>1, <1>5, <2>1, <3>2 DEF HistoryInv, Typed
    <3> QED
      BY <1>2, <3>1, <3>2
  <2> QED
    BY <1>3, <2>1 DEF RetractionsAhead
<1>9. AwaitedIsLast'
  <2>1. ASSUME NEW m \in Pending', m.type = "writeAnti", awaiting'[m.agent] # 0
        PROVE  m.n < awaiting'[m.agent]
    <3>1. awaiting'[a] = 0
      BY <1>1 DEF HistoryInv, Typed
    <3>2. m \in Pending
      BY <1>2, <1>5, <2>1, <3>1
    <3>3. m.agent \in Agent /\ m.agent # a
      BY <2>1, <3>1, <3>2, PendingTyped
    <3>4. awaiting'[m.agent] = awaiting[m.agent]
      BY <1>1, <3>3 DEF HistoryInv, Typed
    <3> QED
      BY <2>1, <3>2, <3>4 DEF HistoryInv, AwaitedIsLast
  <2> QED
    BY <2>1 DEF AwaitedIsLast
<1>10. ReachesBack'
  BY <1>3 DEF HistoryInv, ReachesBack
<1> QED
  BY <1>3, <1>6, <1>7, <1>8, <1>9, <1>10 DEF HistoryInv

\* A request is executed.  Its agent goes on only if it waits for it, and then
\* its retractions are earlier: one that is still under way is overtaken.
LEMMA ExecuteKeepsHistory ==
    ASSUME IInv, HistoryInv, NEW p \in Clp, NEW e \in RequestsTo(p), Execute(p, e)
    PROVE  HistoryInv'
<1> DEFINE m == e.body
<1>1. /\ e \in Requests /\ m \in Pending
      /\ UNCHANGED <<hosts, fGVT, submitted>>
      /\ overtaken' = (overtaken \/ \E f \in Requests : f.body.agent = m.agent /\ f.body.n < m.n)
  BY DEF Execute, RequestsTo, Pending
<1>2. Pending' = Pending \ {m} /\ \E x \in Effects(TheHistory, m, fGVT[p]) : TheHistory' = x.periods
  BY ExecuteApplies DEF Abstract!Apply
<1>3. /\ m \in Message /\ m.agent \in Agent /\ m.time \in Nat /\ m.time + 1 \in GvtTime
      /\ m.n \in Nat /\ m.n # 0
  BY <1>1, PendingTyped
<1>4. \/ UNCHANGED <<awaiting, agentLvt>>
      \/ /\ awaiting[m.agent] = m.n
         /\ awaiting' = [awaiting EXCEPT ![m.agent] = 0]
         /\ agentLvt' = [agentLvt EXCEPT ![m.agent] = m.time + 1]
  BY DEF Execute, Answered
<1>5. PICK x \in Effects(TheHistory, m, fGVT[p]) : TheHistory' = x.periods
  BY <1>2
<1> HIDE DEF m
<1>6. fGVT[p] \in GvtTime /\ fGVT[p] \in Nat /\ TheHistory \in Seq(FitPeriod)
  BY NumbersTyped DEF HistoryInv
<1>7. /\ TheHistory' \in Seq(FitPeriod)
      /\ TheHistory # << >> /\ ~RetractsFirst(TheHistory, m, fGVT[p])
           => SameFirst(TheHistory', TheHistory)
  <2>1. PICK h : h = TheHistory
    OBVIOUS
  <2>2. x \in Effects(h, m, fGVT[p]) /\ h \in Seq(FitPeriod)
    BY <1>5, <1>6, <2>1
  <2>3. /\ x.periods \in Seq(FitPeriod)
        /\ h # << >> /\ ~RetractsFirst(h, m, fGVT[p]) => SameFirst(x.periods, h)
    BY <1>3, <1>6, <2>2, EffectKeeps
  <2> QED
    BY <1>5, <2>1, <2>3
<1>8. overtaken' \in BOOLEAN /\ (overtaken => overtaken')
  BY <1>1 DEF HistoryInv, Typed
<1>9. Typed'
  <2>1. agentLvt \in [Agent -> GvtTime] /\ awaiting \in [Agent -> Nat]
    BY DEF HistoryInv, Typed
  <2>2. agentLvt' \in [Agent -> GvtTime] /\ awaiting' \in [Agent -> Nat]
    BY <1>3, <1>4, <2>1
  <2> QED
    BY <1>1, <1>8, <2>2 DEF HistoryInv, Typed
<1>10. GvtIsBehind'
  <2>1. ASSUME NEW q \in Clp, NEW b \in Agent PROVE fGVT[q] <= agentLvt'[b]
    <3>1. fGVT[q] <= m.time /\ fGVT[q] \in Nat /\ fGVT[q] <= agentLvt[b]
      BY <1>1, NumbersTyped DEF HistoryInv, GvtIsBehind
    <3>2. agentLvt'[b] = agentLvt[b] \/ agentLvt'[b] = m.time + 1
      BY <1>3, <1>4 DEF HistoryInv, Typed
    <3> QED
      BY <1>3, <3>1, <3>2
  <2> QED
    BY <1>1, <1>2, <2>1 DEF HistoryInv, GvtIsBehind
<1>11. RetractionsAhead'
  <2>1. ASSUME ~overtaken', NEW r \in Pending', r.type = "writeAnti"
        PROVE  agentLvt'[r.agent] < r.time
    <3>1. r \in Pending /\ r # m /\ ~overtaken
      BY <1>2, <1>8, <2>1
    <3>2. r.agent \in Agent /\ r.n \in Nat /\ agentLvt[r.agent] < r.time
      BY <2>1, <3>1, PendingTyped DEF HistoryInv, RetractionsAhead
    <3>3. CASE agentLvt'[r.agent] = agentLvt[r.agent]
      BY <3>2, <3>3
    <3>4. CASE agentLvt'[r.agent] # agentLvt[r.agent]
      <4>1. r.agent = m.agent /\ awaiting[m.agent] = m.n
        BY <1>3, <1>4, <3>2, <3>4 DEF HistoryInv, Typed
      <4>2. ~(r.n < m.n)
        BY <1>1, <2>1, <3>1, <4>1 DEF Pending
      <4> QED
        BY <1>3, <2>1, <3>1, <4>1, <4>2 DEF HistoryInv, AwaitedIsLast
    <3> QED
      BY <3>3, <3>4
  <2> QED
    BY <2>1 DEF RetractionsAhead
<1>12. AwaitedIsLast'
  <2>1. ASSUME NEW r \in Pending', r.type = "writeAnti", awaiting'[r.agent] # 0
        PROVE  r.n < awaiting'[r.agent]
    <3>1. r \in Pending
      BY <1>2
    <3>2. r.agent \in Agent
      BY <3>1, PendingTyped
    <3>3. awaiting'[r.agent] = awaiting[r.agent]
      BY <1>3, <1>4, <2>1, <3>2 DEF HistoryInv, Typed
    <3> QED
      BY <2>1, <3>1, <3>3 DEF HistoryInv, AwaitedIsLast
  <2> QED
    BY <2>1 DEF AwaitedIsLast
<1>13. ReachesBack'
  <2>1. SUFFICES ASSUME ~overtaken'
                 PROVE  TheHistory' # << >> /\ \E q \in Clp : TheHistory'[1].start <= fGVT'[q]
    BY DEF ReachesBack
  <2>2. PICK q \in Clp : TheHistory # << >> /\ TheHistory[1].start <= fGVT[q]
    BY <1>8, <2>1 DEF HistoryInv, ReachesBack
  <2>3. ~RetractsFirst(TheHistory, m, fGVT[p])
    <3>1. SUFFICES ASSUME m.type = "writeAnti", TheHistory[1].start = m.time
                   PROVE  FALSE
      BY DEF RetractsFirst
    <3>2. agentLvt[m.agent] < m.time
      BY <1>1, <1>8, <2>1, <3>1 DEF HistoryInv, RetractionsAhead
    <3>3. fGVT[q] <= agentLvt[m.agent] /\ fGVT[q] \in Nat /\ agentLvt[m.agent] \in Nat
      BY <1>3, NumbersTyped DEF HistoryInv, GvtIsBehind
    <3> QED
      BY <1>3, <2>2, <3>1, <3>2, <3>3
  <2>4. SameFirst(TheHistory', TheHistory)
    BY <1>7, <2>2, <2>3
  <2> QED
    BY <1>1, <2>2, <2>4 DEF SameFirst
<1> QED
  BY <1>7, <1>9, <1>10, <1>11, <1>12, <1>13 DEF HistoryInv

\* A GVT is taken: it is behind what it is for, and the history is collected up
\* to it at most.
LEMMA GvtKeepsHistory ==
    ASSUME IInv, HistoryInv, NEW p \in Clp, NEW gvt \in GvtTime, SetGvt(p, gvt)
    PROVE  HistoryInv'
<1>1. /\ gvt >= fGVT[p] /\ Promised(gvt)
      /\ fGVT' = [fGVT EXCEPT ![p] = gvt]
      /\ UNCHANGED <<overtaken, alpVars>>
      /\ SetGvtElsewhere(p, gvt) \/ SetGvtAtHost(p, gvt) \/ MigrateStateVariables(p, gvt)
  BY DEF SetGvt
<1>2. \/ TheHistory' = TheHistory /\ Pending' = Pending
      \/ TheHistory' \in CollectEffects(TheHistory, gvt) /\ Pending' = Pending
  <2>1. UNCHANGED alpVars
    BY <1>1
  <2>2. CASE SetGvtElsewhere(p, gvt)
    BY <1>1, <2>1, <2>2, GvtElsewhereStutters
  <2>3. CASE SetGvtAtHost(p, gvt)
    BY <1>1, <2>1, <2>3, GvtAtHostCollects DEF Abstract!Collect
  <2>4. CASE MigrateStateVariables(p, gvt)
    BY <1>1, <2>1, <2>4, LeavingCollects DEF Abstract!Collect
  <2> QED
    BY <1>1, <2>2, <2>3, <2>4
<1>3. PICK h : h = TheHistory
  OBVIOUS
<1>4. PICK k : k = TheHistory'
  OBVIOUS
<1>5. h \in Seq(FitPeriod) /\ (k = h \/ k \in CollectEffects(h, gvt))
  BY <1>2, <1>3, <1>4 DEF HistoryInv
<1>6. /\ k \in Seq(FitPeriod)
      /\ h # << >> => k # << >> /\ (k[1].start = gvt \/ k[1].start = h[1].start)
  BY <1>5, CollectionKeeps DEF SameFirst
<1>7. UNCHANGED <<Pending, overtaken, agentLvt, awaiting, submitted>>
  BY <1>1, <1>2 DEF alpVars
<1>8. \A q \in Clp : fGVT'[q] = IF q = p THEN gvt ELSE fGVT[q]
  BY <1>1 DEF IInv, Shape
<1>9. GvtIsBehind'
  BY <1>1, <1>7, <1>8 DEF HistoryInv, GvtIsBehind, Promised
<1>10. ReachesBack'
  <2>1. SUFFICES ASSUME ~overtaken
                 PROVE  k # << >> /\ \E q \in Clp : k[1].start <= fGVT'[q]
    BY <1>4, <1>7 DEF ReachesBack
  <2>2. PICK q \in Clp : h # << >> /\ h[1].start <= fGVT[q]
    BY <1>3, <2>1 DEF HistoryInv, ReachesBack
  <2>3. CASE k[1].start = gvt
    <3>1. gvt \in Nat /\ k[1].start <= fGVT'[p]
      BY <1>8, <2>3, TimesAreNumbers
    <3> QED
      BY <1>6, <2>2, <3>1
  <2>4. CASE k[1].start = h[1].start
    <3>1. h[1] \in FitPeriod
      BY <1>5, <2>2
    <3>2. h[1].start \in Nat /\ gvt \in Nat
      BY <3>1, TimesAreNumbers
    <3>3. fGVT[q] <= fGVT'[q] /\ fGVT[q] \in Nat /\ fGVT'[q] \in Nat
      BY <1>1, <1>8, <3>2, NumbersTyped
    <3>4. k[1].start <= fGVT'[q]
      BY <2>2, <2>4, <3>2, <3>3
    <3> QED
      BY <1>6, <2>2, <3>4
  <2> QED
    BY <1>6, <2>2, <2>3, <2>4
<1>11. Typed' /\ RetractionsAhead' /\ AwaitedIsLast'
  BY <1>7 DEF HistoryInv, Typed, RetractionsAhead, AwaitedIsLast
<1> QED
  BY <1>4, <1>6, <1>9, <1>10, <1>11 DEF HistoryInv

\* A step that leaves the messages, the agents and the GVTs alone.
LEMMA SameKeepsHistory ==
    ASSUME HistoryInv,
           UNCHANGED <<Pending, submitted, agentLvt, awaiting, fGVT, overtaken>>,
           TheHistory' \in Seq(FitPeriod),
           TheHistory # << >> => SameFirst(TheHistory', TheHistory)
    PROVE  HistoryInv'
<1>1. Typed' /\ GvtIsBehind' /\ RetractionsAhead' /\ AwaitedIsLast'
  BY DEF HistoryInv, Typed, GvtIsBehind, RetractionsAhead, AwaitedIsLast
<1>2. ReachesBack'
  BY DEF HistoryInv, ReachesBack, SameFirst
<1> QED
  BY <1>1, <1>2 DEF HistoryInv

LEMMA NextKeepsHistory == IInv /\ HistoryInv /\ [Next]_vars => HistoryInv'
<1> SUFFICES ASSUME IInv, HistoryInv, [Next]_vars
             PROVE  HistoryInv'
  OBVIOUS
<1>1. ASSUME NEW a \in Agent, NEW t \in Time, NEW type \in {"read", "write"},
             NEW v \in Value \cup {NoValue}, Ask(a, type, t, v)
      PROVE  HistoryInv'
  BY <1>1, AskKeepsHistory
<1>2. ASSUME NEW a \in Agent, NEW t \in Time, ProcessRollback(a, t)
      PROVE  HistoryInv'
  BY <1>2, RollbackKeepsHistory
<1>3. ASSUME NEW p \in Clp, ReceiveRequest(p)
      PROVE  HistoryInv'
  <2>1. PICK e \in RequestsTo(p) : Execute(p, e) \/ Forward(p, e)
    BY <1>3 DEF ReceiveRequest
  <2>2. CASE Execute(p, e)
    BY <2>2, ExecuteKeepsHistory
  <2>3. CASE Forward(p, e)
    <3>1. UNCHANGED <<TheHistory, submitted, Pending, agentLvt, awaiting, fGVT, overtaken>>
      BY <2>3, ForwardStutters DEF Forward, alpVars, clpVars
    <3>2. TheHistory' \in Seq(FitPeriod) /\ (TheHistory # << >> => SameFirst(TheHistory', TheHistory))
      BY <3>1 DEF HistoryInv, SameFirst
    <3> QED
      BY <3>1, <3>2, SameKeepsHistory
  <2> QED
    BY <2>1, <2>2, <2>3
<1>4. ASSUME NEW p \in Clp, StateMigration(p)
      PROVE  HistoryInv'
  <2>1. /\ TheHistory' = Inserted(TheHistory)
        /\ UNCHANGED <<submitted, Pending, agentLvt, awaiting, fGVT, overtaken>>
    BY <1>4, ArrivingForgetsReaders DEF Abstract!ForgetReaders, StateMigration, alpVars
  <2>2. PICK h : h = TheHistory
    OBVIOUS
  <2>3. Inserted(h) \in Seq(FitPeriod) /\ (h # << >> => SameFirst(Inserted(h), h))
    BY <2>2, CopyKeeps DEF HistoryInv
  <2>4. TheHistory' \in Seq(FitPeriod) /\ (TheHistory # << >> => SameFirst(TheHistory', TheHistory))
    BY <2>1, <2>2, <2>3
  <2> QED
    BY <2>1, <2>4, SameKeepsHistory
<1>5. ASSUME NEW p \in Clp, NEW gvt \in GvtTime, SetGvt(p, gvt)
      PROVE  HistoryInv'
  BY <1>5, GvtKeepsHistory
<1>6. CASE UNCHANGED vars
  <2>1. UNCHANGED <<clpVars, net, alpVars>>
    BY <1>6 DEF vars
  <2>2. UNCHANGED <<Requests, Migrations>>
    BY <2>1 DEF Requests, Migrations, IsMigration
  <2>3. UNCHANGED <<TheHistory, Pending, submitted, agentLvt, awaiting, fGVT, overtaken>>
    BY <2>1, <2>2, HistoryStays DEF clpVars, alpVars, Pending
  <2>4. TheHistory' \in Seq(FitPeriod) /\ (TheHistory # << >> => SameFirst(TheHistory', TheHistory))
    BY <2>3 DEF HistoryInv, SameFirst
  <2> QED
    BY <2>3, <2>4, SameKeepsHistory
<1> QED
  BY <1>1, <1>2, <1>3, <1>4, <1>5, <1>6 DEF Next

LEMMA HistorySound == Spec => [](IInv /\ HistoryInv)
<1>1. Init => IInv /\ HistoryInv
  BY InitIInv, InitHistoryInv
<1>2. IInv /\ HistoryInv /\ [Next]_vars => IInv' /\ HistoryInv'
  BY StepIInv, NextKeepsHistory
<1> QED
  BY <1>1, <1>2, PTL DEF Spec

\* The host has an answer to every request that may arrive.
LEMMA RequestHasEffect ==
    ASSUME NEW h \in Seq(FitPeriod), NEW m \in Message, NEW gvt \in GvtTime,
           h # << >>, h[1].start <= m.time
    PROVE  Effects(h, m, gvt) # {}
<1>1. m.time \in Nat /\ gvt \in Nat /\ m.type \in {"read", "write", "readAnti", "writeAnti"}
  BY TimesAreNumbers DEF Message
<1>2. h[1].start \in Nat
  <2>1. h[1] \in FitPeriod
    OBVIOUS
  <2> QED
    BY <2>1, TimesAreNumbers
<1>3. Stops(h, m.time) # {} /\ (m.time < gvt => Stops(h, gvt) # {})
  BY <1>1, <1>2, StopFound
<1>4. CASE m.type = "read"
  BY <1>3, <1>4 DEF Effects, ReadEffects
<1>5. CASE m.type = "write"
  BY <1>5, WriteHasEffect DEF Effects
<1>6. CASE m.type = "readAnti"
  BY <1>3, <1>6 DEF Effects, ReadAntiEffects
<1>7. CASE m.type = "writeAnti"
  BY <1>7 DEF Effects, WriteAntiEffects
<1> QED
  BY <1>1, <1>4, <1>5, <1>6, <1>7

\* No handler of a CLP meets exit(1) as long as the requests of each agent are
\* executed in order: a migration finds a CLP without the variable, and the host
\* finds a period for every request (SharedState.cpp:48-52, StateVariable.cpp:86-101).
THEOREM NothingEverExits == Spec => []NothingExits
<1>1. IInv /\ HistoryInv => NothingExits
  <2> SUFFICES ASSUME IInv, HistoryInv
               PROVE  NothingExits
    OBVIOUS
  <2>1. ASSUME NEW p \in hosts PROVE MigrationsTo(p) = {}
    BY DEF IInv, Located, AtHost, OnItsWay, MigrationsTo
  <2>2. ASSUME ~overtaken, NEW p \in hosts, NEW e \in Requests, e.to = p
        PROVE  Effects(writePeriods[p], e.body, fGVT[p]) # {}
    <3>1. p \in Clp
      BY DEF IInv, Located, AtHost, OnItsWay
    <3>2. TheHistory = writePeriods[p]
      BY <3>1, HistoryOfHost DEF IInv
    <3>3. e.body \in Pending
      BY DEF Pending
    <3>4. e.body \in Message /\ e.body.time \in Nat /\ fGVT[p] \in GvtTime
      BY <3>1, <3>3, PendingTyped, NumbersTyped
    <3>5. PICK h : h = TheHistory
      OBVIOUS
    <3>6. PICK q \in Clp : h # << >> /\ h[1].start <= fGVT[q]
      BY <2>2, <3>5 DEF HistoryInv, ReachesBack
    <3>7. fGVT[q] <= e.body.time /\ fGVT[q] \in Nat
      BY <3>3, NumbersTyped DEF HistoryInv, GvtIsBehind
    <3>8. h \in Seq(FitPeriod) /\ h[1] \in FitPeriod
      BY <3>5, <3>6 DEF HistoryInv
    <3>9. h[1].start <= e.body.time
      <4>1. h[1].start \in Nat
        BY <3>8, TimesAreNumbers
      <4> QED
        BY <3>4, <3>6, <3>7, <4>1
    <3>10. Effects(h, e.body, fGVT[p]) # {}
      BY <3>4, <3>6, <3>8, <3>9, RequestHasEffect
    <3> QED
      BY <3>2, <3>5, <3>10
  <2> QED
    BY <2>1, <2>2 DEF NothingExits, HostFindsPeriod
<1> QED
  BY <1>1, HistorySound, PTL

-----------------------------------------------------------------------------
(***************************************************************************)
(* What a migration forgets.  Agents are ordered by id as they are by      *)
(* rank, so no two of them are one key of the rollback list, and every     *)
(* reader is rolled back; the time is that of its earliest period.         *)
(***************************************************************************)
LEMMA OneKeyPerAgent ==
    ASSUME NEW a \in Agent, NEW b \in Agent, SameKey(a, b)
    PROVE  a = b
<1>1. /\ a.id \in Nat /\ b.id \in Nat
      /\ a.rank \in Alps /\ b.rank \in Alps
  BY MigrationAssumption
<1>2. a.rank \in Nat /\ b.rank \in Nat
  <2>1. PICK n : n = C + Cardinality(Alps) - 1 /\ Alps = C..n
    BY RoutingAssumption
  <2>2. C \in Nat /\ Cardinality(Alps) \in Nat
    BY RoutingAssumption, FS_CardinalityType
  <2>3. n \in Int
    BY <2>1, <2>2
  <2>4. C..n \subseteq Nat
    BY <2>2, <2>3
  <2> QED
    BY <1>1, <2>1, <2>4
<1>3. CASE a.rank = b.rank
  BY <1>3, MigrationAssumption
<1>4. CASE a.rank < b.rank
  BY <1>1, <1>2, <1>4, LpIdConvention DEF SameKey, Greater
<1>5. CASE b.rank < a.rank
  BY <1>1, <1>2, <1>5, LpIdConvention DEF SameKey, Greater
<1> QED
  BY <1>2, <1>3, <1>4, <1>5

LEMMA ForgottenIsAtStart ==
    ASSUME NEW h \in Seq(FitPeriod), NEW key \in Keys(Readers(h)),
           NEW r \in Forgotten(h, key)
    PROVE  r.time = r.start
<1> DEFINE reads == UNION {{[agent |-> d.agent, time |-> d.time, start |-> p.start] :
                              d \in p.reads} : p \in ToSet(h)}
           calls == {[agent |-> d.agent, time |-> d.start] : d \in reads}
<1>1. r \in reads /\ \A a \in key : a = r.agent => RollbackTime(calls, a) > r.time
  BY DEF Forgotten
<1>2. \A p \in ToSet(h) : p \in FitPeriod
  <2>1. \A i \in DOMAIN h : h[i] \in FitPeriod
    OBVIOUS
  <2> QED
    BY <2>1 DEF ToSet
<1>3. ASSUME NEW d \in reads
      PROVE  /\ d.agent \in Agent /\ d.start \in Nat /\ d.time \in Nat
             /\ d.start <= d.time
  <2>0. PICK p \in ToSet(h) : \E f \in p.reads :
          d = [agent |-> f.agent, time |-> f.time, start |-> p.start]
    OBVIOUS
  <2>1. PICK f \in p.reads :
          d = [agent |-> f.agent, time |-> f.time, start |-> p.start]
    BY <2>0
  <2>2. /\ p.start \in GvtTime /\ f \in ReadRecord /\ p.start <= f.time
    BY <1>2, TimesAreNumbers DEF FitPeriod
  <2> QED
    BY <2>1, <2>2, TimesAreNumbers DEF ReadRecord
<1>4. \E p \in ToSet(h) : \E f : f \in p.reads /\ f.agent = r.agent
  <2>1. PICK p \in ToSet(h) : \E f \in p.reads :
          r = [agent |-> f.agent, time |-> f.time, start |-> p.start]
    BY <1>1
  <2> QED
    BY <2>1
<1>5. \A q \in ToSet(h) : \A g \in q.reads : g.agent \in Agent
  BY <1>2, TimesAreNumbers DEF ReadRecord
<1>6. r.agent \in key
  <2>1. [agent |-> r.agent] \in Readers(h)
    BY <1>4 DEF Readers
  <2>2. PICK a \in key : SameKey(a, r.agent)
    BY <2>1 DEF Keys
  <2>3. a \in Agent
    <3>1. \A c \in Readers(h) : c.agent \in Agent
      BY <1>5 DEF Readers
    <3> QED
      BY <3>1 DEF Keys
  <2>4. r.agent \in Agent
    BY <1>1, <1>3
  <2> QED
    BY <2>2, <2>3, <2>4, OneKeyPerAgent
<1> DEFINE a == r.agent
           times == {c.time : c \in {d \in calls : SameKey(d.agent, a)}}
<1>7. r.start \in times
  <2>1. SameKey(a, a)
    <3>1. a.id \in Nat
      BY <1>1, <1>3, MigrationAssumption
    <3> QED
      BY <3>1 DEF SameKey, Greater
  <2>2. [agent |-> a, time |-> r.start] \in calls
    BY <1>1
  <2> HIDE DEF calls
  <2> QED
    BY <2>1, <2>2
<1>8. times \in SUBSET Nat
  BY <1>3
<1>9. Min(times) \in Nat /\ Min(times) <= r.start
  <2> HIDE DEF times
  <2> QED
    BY <1>7, <1>8, MinInSet
<1>10. RollbackTime(calls, a) = Min(times) + 1
  BY DEF RollbackTime, EarliestFor
<1>11. Min(times) + 1 > r.time
  <2>1. RollbackTime(calls, a) > r.time
    BY <1>1, <1>6
  <2> HIDE DEF times, calls
  <2> QED
    BY <1>10, <2>1
<1>12. r.start \in Nat /\ r.time \in Nat /\ r.start <= r.time
  BY <1>1, <1>3
<1> HIDE DEF times
<1> QED
  BY <1>9, <1>11, <1>12

\* The one read that a migration forgets without a rollback is a read at the very
\* start of the period it read (RollbackList.cpp:71).
THEOREM OnlyForgottenAtStart == Spec => []ForgottenOnlyAtStart
<1>1. Init => ForgottenOnlyAtStart
  BY DEF Init, ForgottenOnlyAtStart
<1>2. IInv /\ HistoryInv /\ ForgottenOnlyAtStart /\ [Next]_vars => ForgottenOnlyAtStart'
  <2> SUFFICES ASSUME IInv, HistoryInv, ForgottenOnlyAtStart, [Next]_vars
               PROVE  ForgottenOnlyAtStart'
    OBVIOUS
  <2>1. CASE forgotten' = forgotten
    BY <2>1 DEF ForgottenOnlyAtStart
  <2>2. CASE forgotten' # forgotten
    <3>1. PICK p \in Clp, gvt \in GvtTime : MigrateStateVariables(p, gvt)
      <4>1. ASSUME NEW a \in Agent, NEW t \in Time, NEW type \in {"read", "write"},
                   NEW v \in Value \cup {NoValue}, Ask(a, type, t, v)
            PROVE  FALSE
        BY <2>2, <4>1 DEF Ask, clpVars
      <4>2. ASSUME NEW a \in Agent, NEW t \in Time, ProcessRollback(a, t)
            PROVE  FALSE
        BY <2>2, <4>2 DEF ProcessRollback, clpVars
      <4>3. ASSUME NEW p \in Clp, ReceiveRequest(p)
            PROVE  FALSE
        BY <2>2, <4>3 DEF ReceiveRequest, Execute, Forward, clpVars
      <4>4. ASSUME NEW p \in Clp, StateMigration(p)
            PROVE  FALSE
        BY <2>2, <4>4 DEF StateMigration
      <4>5. ASSUME NEW p \in Clp, NEW gvt \in GvtTime, SetGvt(p, gvt)
            PROVE  MigrateStateVariables(p, gvt)
        BY <2>2, <4>5 DEF SetGvt, SetGvtElsewhere, SetGvtAtHost
      <4>6. CASE UNCHANGED vars
        BY <2>2, <4>6 DEF vars, clpVars
      <4> QED
        BY <4>1, <4>2, <4>3, <4>4, <4>5, <4>6 DEF Next
    <3>0. PICK periods \in CollectEffects(writePeriods[p], gvt) :
            \E key \in Keys(Readers(periods)) :
              p \in hosts /\ forgotten' = forgotten \cup Forgotten(periods, key)
      BY <3>1 DEF MigrateStateVariables
    <3>2. PICK key \in Keys(Readers(periods)) :
            p \in hosts /\ forgotten' = forgotten \cup Forgotten(periods, key)
      BY <3>0
    <3>3. TheHistory = writePeriods[p]
      BY <3>2, HistoryOfHost DEF IInv
    <3>4. PICK h : h = writePeriods[p]
      OBVIOUS
    <3>5. h \in Seq(FitPeriod) /\ periods \in CollectEffects(h, gvt)
      BY <3>2, <3>3, <3>4 DEF HistoryInv
    <3>6. periods \in Seq(FitPeriod)
      BY <3>5, CollectionKeeps
    <3>7. \A r \in Forgotten(periods, key) : r.time = r.start
      BY <3>6, ForgottenIsAtStart
    <3> QED
      BY <3>2, <3>7 DEF ForgottenOnlyAtStart
  <2> QED
    BY <2>1, <2>2
<1> QED
  BY <1>1, <1>2, HistorySound, PTL DEF Spec

-----------------------------------------------------------------------------
(***************************************************************************)
(* The pointers.  What the tables of ranks of all the CLPs say, taken      *)
(* together, is TablesAgree: they come out of a recursive walk, and TLC    *)
(* evaluates that they agree.  The rest is what moves: a variable is sent  *)
(* to a neighbour (SentToNeighbour), because only a port that a CLP really *)
(* has is counted (PortsCounted).                                          *)
(***************************************************************************)
SentToNeighbour ==
    \A e \in Migrations : /\ e.from \in Clp
                          /\ \E d \in PortsOf(e.from) : e.to = GetRankFromDirection(e.from, d)

PortsCounted ==
    /\ access \in [Port -> [count: Nat, hops: Nat]]
    /\ \A h \in hosts, d \in Port : access[d].count > 0 => d \in PortsOf(h)

EnvelopesTyped == \A e \in net : e.from \in LpRank /\ e.hops \in Nat

RouteInv == PointersLeadToVariable /\ SentToNeighbour /\ PortsCounted /\ EnvelopesTyped

\* A step that leaves the variable where it is.
LEMMA SamePlaceKeepsRoute ==
    ASSUME RouteInv, UNCHANGED <<direction, hosts>>, Migrations' = Migrations,
           PortsCounted', \A e \in net' : e \in net \/ (e.from \in LpRank /\ e.hops \in Nat)
    PROVE  RouteInv'
<1>1. PointersLeadToVariable'
  BY DEF RouteInv, PointersLeadToVariable
<1>2. SentToNeighbour'
  BY DEF RouteInv, SentToNeighbour
<1>3. EnvelopesTyped'
  BY DEF RouteInv, EnvelopesTyped
<1> QED
  BY <1>1, <1>2, <1>3 DEF RouteInv

LEMMA SameCountsKeepPorts ==
    ASSUME RouteInv, UNCHANGED <<hosts, access>>
    PROVE  PortsCounted'
BY DEF RouteInv, PortsCounted

LEMMA NothingCounted == NoAccess \in [Port -> [count: Nat, hops: Nat]] /\ \A d \in Port : NoAccess[d].count = 0
BY DEF NoAccess

LEMMA NowhereElse ==
    ASSUME NEW a \in Agent, NEW p \in Clp
    PROVE  a.rank \in LpRank \ {p}
<1>1. a.rank \in Alps
  BY MigrationAssumption
<1>2. a.rank \notin Clp
  <2>1. C \in Nat /\ Alps = C..(C + Cardinality(Alps) - 1) /\ IsFiniteSet(Alps)
    BY RoutingAssumption
  <2>2. PICK k \in Nat : k = Cardinality(Alps)
    BY <2>1, FS_CardinalityType
  <2>3. a.rank \in C..(C + k - 1)
    BY <1>1, <2>1, <2>2
  <2> QED
    BY <2>1, <2>3 DEF Clp
<1> QED
  BY <1>1, <1>2 DEF LpRank

LEMMA InitRoute == ASSUME TablesAgree PROVE Init => RouteInv
<1> SUFFICES ASSUME Init PROVE RouteInv
  OBVIOUS
<1>1. /\ hosts = {StartHost} /\ StartHost \in Clp /\ net = {} /\ access = NoAccess
      /\ direction = [p \in Clp |-> SsvDirection(p, StartHost)]
  BY MigrationAssumption DEF Init
<1>2. Migrations = {}
  BY <1>1 DEF Migrations
<1>3. PointersLeadToVariable
  BY <1>1, <1>2 DEF PointersLeadToVariable, TablesAgree
<1>4. SentToNeighbour /\ EnvelopesTyped
  BY <1>1, <1>2 DEF SentToNeighbour, EnvelopesTyped
<1>5. PortsCounted
  BY <1>1, NothingCounted DEF PortsCounted
<1> QED
  BY <1>3, <1>4, <1>5 DEF RouteInv

\* An agent's messages start at its ALP.
LEMMA SendingKeepsRoute ==
    ASSUME RouteInv, NEW a \in Agent, NEW bodies, NEW k, SendsToClp(a, bodies, k),
           UNCHANGED clpVars, Migrations' = Migrations
    PROVE  RouteInv'
<1>1. \A e \in net' : e \in net \/ (e.from = a.rank /\ e.hops = 0)
  BY DEF SendsToClp, Envelope
<1>2. a.rank \in LpRank
  BY MigrationAssumption DEF LpRank
<1>3. UNCHANGED <<direction, hosts, access>>
  BY DEF clpVars
<1>4. PortsCounted'
  BY <1>3, SameCountsKeepPorts
<1> QED
  BY <1>1, <1>2, <1>3, <1>4, SamePlaceKeepsRoute

\* The port that is counted is the one the agent is behind.
LEMMA CountedIsPort ==
    ASSUME TablesAgree, RouteInv, IInv, NEW p \in Clp, p \in hosts, UNCHANGED hosts,
           NEW m, m.agent \in Agent, NEW hops \in Nat, Counted(p, m, hops)
    PROVE  PortsCounted'
<1> DEFINE d == GetDirectionFromRank(p, m.agent.rank)
<1>1. d \in PortsOf(p) /\ d \in Port
  <2>1. m.agent.rank \in LpRank \ {p}
    BY NowhereElse
  <2> QED
    BY <2>1 DEF TablesAgree
<1>2. access' = [access EXCEPT ![d] = [count |-> @.count + 1, hops |-> @.hops + hops]]
  BY DEF Counted
<1>3. access \in [Port -> [count: Nat, hops: Nat]]
  BY DEF RouteInv, PortsCounted
<1>4. hosts = {p}
  BY HistoryOfHost DEF IInv, AtHost
<1> HIDE DEF d
<1>5. access' \in [Port -> [count: Nat, hops: Nat]]
  BY <1>1, <1>2, <1>3
<1>6. \A c \in Port : c # d => access'[c] = access[c]
  BY <1>2, <1>3
<1>7. \A c \in Port : access[c].count > 0 => c \in PortsOf(p)
  BY <1>4 DEF RouteInv, PortsCounted
<1> QED
  BY <1>1, <1>4, <1>5, <1>6, <1>7 DEF PortsCounted

LEMMA ExecuteKeepsRoute ==
    ASSUME TablesAgree, IInv, HistoryInv, RouteInv,
           NEW p \in Clp, NEW e \in RequestsTo(p), Execute(p, e)
    PROVE  RouteInv'
<1>1. /\ UNCHANGED <<direction, hosts>>
      /\ direction[p] = HERE
      /\ net' = net \ {e}
      /\ UNCHANGED <<access, load>> \/ Counted(p, e.body, e.hops + 1)
  BY DEF Execute
<1>2. e \in Requests /\ e \in net /\ e.body \in Pending
  BY DEF RequestsTo, Requests, Pending
<1>3. Migrations' = Migrations
  BY <1>1, <1>2 DEF Requests, Migrations, IsMigration
<1>4. e.body.agent \in Agent /\ e.hops + 1 \in Nat
  BY <1>2, PendingTyped DEF RouteInv, EnvelopesTyped
<1>5. p \in hosts
  BY <1>1 DEF IInv, HereIsHost
<1>6. PortsCounted'
  <2>1. CASE UNCHANGED <<access, load>>
    BY <1>1, <2>1, SameCountsKeepPorts
  <2>2. CASE Counted(p, e.body, e.hops + 1)
    BY <1>1, <1>4, <1>5, <2>2, CountedIsPort
  <2> QED
    BY <1>1, <2>1, <2>2
<1> QED
  BY <1>1, <1>3, <1>6, SamePlaceKeepsRoute

LEMMA OneMoreHop ==
    ASSUME NEW n \in Nat
    PROVE  Min({n + 1, MaxHops}) \in Nat
<1>1. {n + 1, MaxHops} \in SUBSET Nat /\ {n + 1, MaxHops} # {}
  BY MigrationAssumption
<1>2. PICK S : S = {n + 1, MaxHops}
  OBVIOUS
<1>3. Min(S) \in S
  BY <1>1, <1>2, MinInSet DEF Min
<1> QED
  BY <1>1, <1>2, <1>3

LEMMA ForwardKeepsRoute ==
    ASSUME IInv, RouteInv, NEW p \in Clp, NEW e \in RequestsTo(p), Forward(p, e)
    PROVE  RouteInv'
<1> DEFINE to == GetRankFromDirection(p, direction[p])
<1>1. /\ UNCHANGED clpVars
      /\ net' = (net \ {e}) \cup {OneHopOn(p, e, to)}
  BY DEF Forward, Forwarded
<1>2. e \in net /\ ~IsMigration(e) /\ e.hops \in Nat
  BY DEF RequestsTo, Requests, RouteInv, EnvelopesTyped
<1>3. Migrations' = Migrations
  BY <1>1, <1>2 DEF Migrations, IsMigration, OneHopOn, Envelope
<1>4. Min({e.hops + 1, MaxHops}) \in Nat
  BY <1>2, OneMoreHop
<1>5. OneHopOn(p, e, to).from \in LpRank /\ OneHopOn(p, e, to).hops \in Nat
  BY <1>4 DEF OneHopOn, Envelope, LpRank
<1>6. UNCHANGED <<direction, hosts, access>>
  BY <1>1 DEF clpVars
<1>7. PortsCounted'
  BY <1>6, SameCountsKeepPorts
<1> QED
  BY <1>1, <1>3, <1>5, <1>6, <1>7, SamePlaceKeepsRoute

\* Sums over the ports are sums of natural numbers.
LEMMA TotalIsNatural ==
    ASSUME PortsCounted
    PROVE  TotalCount \in Nat /\ \A d \in Port : access[d].count <= TotalCount
<1> DEFINE g == [d \in Port |-> access[d].count]
<1>1. g \in [Port -> Nat] /\ \A d \in Port : g[d] = access[d].count
  BY DEF PortsCounted
<1>2. IsFiniteSet(Port)
  <2>1. PICK low \in Int, high \in Int : low = UP /\ high = RIGHT
    BY DEF UP, RIGHT
  <2>2. IsFiniteSet(low..high)
    BY FS_Interval
  <2> QED
    BY <2>1, <2>2 DEF Port
<1>3. PICK kt : IsSumOf(kt, g, Port)
  BY <1>1, <1>2, SumExists
<1>4. \A s \in SUBSET Port : s # {} => g[SomeOf(s)] = access[SomeOf(s)].count
  BY <1>1 DEF SomeOf
<1> HIDE DEF g
<1>5. \A it : IsSumOf(it, g, Port) <=>
                it = [s \in SUBSET Port |->
                        IF s = {} THEN 0 ELSE access[SomeOf(s)].count + it[s \ {SomeOf(s)}]]
  BY <1>4 DEF IsSumOf
<1>6. \E it : /\ it = [s \in SUBSET Port |->
                        IF s = {} THEN 0 ELSE access[SomeOf(s)].count + it[s \ {SomeOf(s)}]]
              /\ TotalCount = it[Port]
  <2>1. \E it : it = [s \in SUBSET Port |->
                        IF s = {} THEN 0 ELSE access[SomeOf(s)].count + it[s \ {SomeOf(s)}]]
    BY <1>3, <1>5
  <2> QED
    BY <2>1, Zenon DEF TotalCount, MapThenSumSet, MapThenFoldSet, SomeOf
<1>7. SumIs(TotalCount, g, Port)
  BY <1>5, <1>6 DEF SumIs
<1>8. TotalCount \in Nat /\ \A d \in Port : g[d] <= TotalCount
  BY <1>1, <1>2, <1>7, SumOfNaturals
<1> QED
  BY <1>1, <1>8

LEMMA AskedMostIsPort ==
    ASSUME RouteInv, NEW p \in hosts, NEW d \in Port, PortAsksMost(p, d)
    PROVE  d \in PortsOf(p)
<1>1. TotalCount \in Nat /\ access[d].count \in Nat /\ access[d].count <= TotalCount
  BY TotalIsNatural DEF RouteInv, PortsCounted
<1>2. access[d].count > 2 * (TotalCount - access[d].count)
  BY DEF PortAsksMost
<1>3. access[d].count > 0
  BY <1>1, <1>2
<1> QED
  BY <1>3 DEF RouteInv, PortsCounted

\* The variable leaves for the neighbour that its CLP now points to.
LEMMA LeavingKeepsRoute ==
    ASSUME TablesAgree, IInv, RouteInv, NEW p \in Clp, NEW gvt, MigrateStateVariables(p, gvt)
    PROVE  RouteInv'
<1>1. PICK d \in Port, periods \in CollectEffects(writePeriods[p], gvt) :
        LET to == GetRankFromDirection(p, d) IN
        /\ p \in hosts
        /\ PortAsksMost(p, d)
        /\ net' = net \cup {Envelope(p, to, NextPlace(p, to),
                              [type |-> "migration", periods |-> periods], 0, {})}
        /\ direction' = [direction EXCEPT ![p] = d]
        /\ hosts' = hosts \ {p}
        /\ access' = NoAccess
  BY DEF MigrateStateVariables, PointerTurned, HostsWithout
<1>2. PICK to : to = GetRankFromDirection(p, d)
  OBVIOUS
<1>3. PICK e : e = Envelope(p, to, NextPlace(p, to), [type |-> "migration", periods |-> periods], 0, {})
  OBVIOUS
<1>4. /\ e.from = p /\ e.to = to /\ e.hops = 0 /\ IsMigration(e)
      /\ net' = net \cup {e}
  BY <1>1, <1>2, <1>3 DEF Envelope, IsMigration
<1>5. AtHost(p)
  BY <1>1, HistoryOfHost DEF IInv
<1>6. hosts' = {} /\ Migrations' = {e}
  BY <1>1, <1>4, <1>5 DEF AtHost, Migrations, IsMigration
<1>7. d \in PortsOf(p)
  BY <1>1, AskedMostIsPort
<1>8. direction \in [Clp -> 0..NoDirection]
  BY DEF IInv, Shape
<1>9. PointersLeadToVariable'
  <2>1. ASSUME NEW q \in Clp
        PROVE  direction'[q] = GetDirectionFromRank(q, IF q = p THEN to ELSE p)
    <3>1. CASE q = p
      BY <1>1, <1>2, <1>7, <1>8, <3>1 DEF TablesAgree
    <3>2. CASE q # p
      <4>1. direction'[q] = direction[q]
        BY <1>1, <1>8, <3>2
      <4> QED
        BY <1>1, <3>2, <4>1 DEF RouteInv, PointersLeadToVariable
    <3> QED
      BY <3>1, <3>2
  <2> QED
    BY <1>4, <1>6, <2>1 DEF PointersLeadToVariable
<1>10. SentToNeighbour'
  BY <1>2, <1>4, <1>6, <1>7 DEF SentToNeighbour
<1>11. PortsCounted'
  BY <1>1, <1>6, NothingCounted DEF PortsCounted
<1>12. EnvelopesTyped'
  BY <1>4 DEF RouteInv, EnvelopesTyped, LpRank
<1> QED
  BY <1>9, <1>10, <1>11, <1>12 DEF RouteInv

\* It arrives: from everywhere else the new host is where the old one was.
LEMMA ArrivingKeepsRoute ==
    ASSUME TablesAgree, IInv, RouteInv, NEW p \in Clp, StateMigration(p)
    PROVE  RouteInv'
<1>1. PICK e \in MigrationsTo(p) :
        /\ net' = net \ {e}
        /\ direction' = [direction EXCEPT ![p] = HERE]
        /\ hosts' = hosts \cup {p}
        /\ access' = NoAccess
  BY DEF StateMigration, PointerTurned
<1>2. e \in Migrations /\ e.to = p
  BY DEF MigrationsTo
<1>3. OnItsWay(e)
  BY <1>2, HistoryOnItsWay DEF IInv
<1>4. hosts' = {p} /\ Migrations' = {}
  BY <1>1, <1>3 DEF OnItsWay, Migrations, IsMigration
<1>5. e.from \in Clp /\ \E d \in PortsOf(e.from) : p = GetRankFromDirection(e.from, d)
  BY <1>2 DEF RouteInv, SentToNeighbour
<1>6. direction \in [Clp -> 0..NoDirection]
  BY DEF IInv, Shape
<1>7. ASSUME NEW q \in Clp PROVE direction'[q] = GetDirectionFromRank(q, p)
  <2>1. CASE q = p
    BY <1>1, <1>6, <2>1 DEF TablesAgree
  <2>2. CASE q # p
    <3>1. direction'[q] = direction[q]
      BY <1>1, <1>6, <2>2
    <3>2. direction[q] = GetDirectionFromRank(q, IF q = e.from THEN p ELSE e.from)
      BY <1>2 DEF RouteInv, PointersLeadToVariable
    <3>3. q # e.from => GetDirectionFromRank(q, e.from) = GetDirectionFromRank(q, p)
      BY <1>5, <2>2 DEF TablesAgree
    <3> QED
      BY <3>1, <3>2, <3>3
  <2> QED
    BY <2>1, <2>2
<1>8. PointersLeadToVariable'
  BY <1>4, <1>7 DEF PointersLeadToVariable
<1>9. SentToNeighbour'
  BY <1>4 DEF SentToNeighbour
<1>10. PortsCounted'
  BY <1>1, NothingCounted DEF PortsCounted
<1>11. EnvelopesTyped'
  BY <1>1 DEF RouteInv, EnvelopesTyped
<1> QED
  BY <1>8, <1>9, <1>10, <1>11 DEF RouteInv

LEMMA NextKeepsRoute ==
    ASSUME TablesAgree
    PROVE  IInv /\ HistoryInv /\ RouteInv /\ [Next]_vars => RouteInv'
<1> SUFFICES ASSUME IInv, HistoryInv, RouteInv, [Next]_vars
             PROVE  RouteInv'
  OBVIOUS
<1>1. ASSUME NEW a \in Agent, NEW t \in Time, NEW type \in {"read", "write"},
             NEW v \in Value \cup {NoValue}, Ask(a, type, t, v)
      PROVE  RouteInv'
  <2>1. Migrations' = Migrations /\ UNCHANGED clpVars
    BY <1>1, AskSends DEF Ask
  <2>2. \E bodies : SendsToClp(a, bodies, 1)
    BY <1>1 DEF Ask
  <2> QED
    BY <2>1, <2>2, SendingKeepsRoute
<1>2. ASSUME NEW a \in Agent, NEW t \in Time, ProcessRollback(a, t)
      PROVE  RouteInv'
  <2>1. Migrations' = Migrations /\ UNCHANGED clpVars
    BY <1>2, RollbackSends DEF ProcessRollback
  <2>2. \E bodies, k : SendsToClp(a, bodies, k)
    BY <1>2 DEF ProcessRollback
  <2> QED
    BY <2>1, <2>2, SendingKeepsRoute
<1>3. ASSUME NEW p \in Clp, ReceiveRequest(p)
      PROVE  RouteInv'
  <2>1. PICK e \in RequestsTo(p) : Execute(p, e) \/ Forward(p, e)
    BY <1>3 DEF ReceiveRequest
  <2> QED
    BY <2>1, ExecuteKeepsRoute, ForwardKeepsRoute
<1>4. ASSUME NEW p \in Clp, StateMigration(p)
      PROVE  RouteInv'
  BY <1>4, ArrivingKeepsRoute
<1>5. ASSUME NEW p \in Clp, NEW gvt \in GvtTime, SetGvt(p, gvt)
      PROVE  RouteInv'
  <2>1. CASE MigrateStateVariables(p, gvt)
    BY <2>1, LeavingKeepsRoute
  <2>2. CASE SetGvtElsewhere(p, gvt) \/ SetGvtAtHost(p, gvt)
    <3>1. UNCHANGED <<direction, hosts, access, net>>
      BY <2>2 DEF SetGvtElsewhere, SetGvtAtHost
    <3>2. Migrations' = Migrations /\ PortsCounted'
      BY <3>1, SameCountsKeepPorts DEF Migrations, IsMigration
    <3> QED
      BY <3>1, <3>2, SamePlaceKeepsRoute
  <2> QED
    BY <1>5, <2>1, <2>2 DEF SetGvt
<1>6. CASE UNCHANGED vars
  <2>1. UNCHANGED <<direction, hosts, access, net>>
    BY <1>6 DEF vars, clpVars
  <2>2. Migrations' = Migrations /\ PortsCounted'
    BY <2>1, SameCountsKeepPorts DEF Migrations, IsMigration
  <2> QED
    BY <2>1, <2>2, SamePlaceKeepsRoute
<1> QED
  BY <1>1, <1>2, <1>3, <1>4, <1>5, <1>6 DEF Next

LEMMA RouteSound ==
    ASSUME TablesAgree
    PROVE  Spec => [](IInv /\ HistoryInv /\ RouteInv)
<1>1. Init => RouteInv
  BY InitRoute
<1>2. IInv /\ HistoryInv /\ RouteInv /\ [Next]_vars => RouteInv'
  BY NextKeepsRoute
<1> QED
  BY <1>1, <1>2, HistorySound, PTL DEF Spec

\* In every tree whose tables of ranks agree, every pointer is the direction of
\* the variable, or while it moves of the CLP it left, however often it moves and
\* whatever is on the way to it (Clp.cpp:650-675).
THEOREM PointersAlwaysLead ==
    ASSUME TablesAgree
    PROVE  Spec => []PointersLeadToVariable
<1>1. RouteInv => PointersLeadToVariable
  BY DEF RouteInv
<1> QED
  BY <1>1, RouteSound, PTL

-----------------------------------------------------------------------------
(***************************************************************************)
(* Type correctness.  Every message is for a CLP: a request follows the    *)
(* pointers, and the variable leaves a leaf upwards only.  That a leaf     *)
(* knows itself for one is an assumption: IsParentCLP asks for the lowest  *)
(* level, and a tree whose leaves are on two levels has others.            *)
(***************************************************************************)
Recipients == \A e \in net : e.to \in Clp

EmptyElsewhere == \A p \in Clp : p \notin hosts => writePeriods[p] = << >>

Bounded ==
    /\ \A a \in Agent : sent[a] <= MaxRequests /\ awaiting[a] <= sent[a]
    /\ budget \in 0..MaxRollbacks
    /\ load \in Nat

TypeInv == Recipients /\ EmptyElsewhere /\ Bounded

LEMMA AgentIsFinite == IsFiniteSet(Agent)
<1> DEFINE f == [a \in Agent |-> a.rank]
<1>1. f \in Injection(Agent, Alps)
  BY MigrationAssumption DEF Injection, IsInjective
<1>2. IsFiniteSet(Alps)
  BY RoutingAssumption
<1> HIDE DEF f
<1> QED
  BY <1>1, <1>2, FS_Injection

\* The bound on the messages of all agents is one on those of each.
LEMMA WithinBound ==
    ASSUME IInv, NEW k \in Nat, Within(k), NEW a \in Agent
    PROVE  sent[a] + k <= MaxRequests
<1> DEFINE sum == MapThenSumSet(LAMBDA b : sent[b], Agent)
<1>1. sent \in [Agent -> Nat]
  BY DEF IInv, Shape
<1>2. sent \in [Agent -> Int]
  BY <1>1
<1>3. PICK kt : IsSumOf(kt, sent, Agent)
  BY <1>2, AgentIsFinite, SumExists
<1>4. \E it : /\ it = [s \in SUBSET Agent |->
                        IF s = {} THEN 0 ELSE sent[SomeOf(s)] + it[s \ {SomeOf(s)}]]
              /\ sum = it[Agent]
  <2>1. \E it : it = [s \in SUBSET Agent |->
                        IF s = {} THEN 0 ELSE sent[SomeOf(s)] + it[s \ {SomeOf(s)}]]
    BY <1>3 DEF IsSumOf
  <2> QED
    BY <2>1, Zenon DEF MapThenSumSet, MapThenFoldSet, SomeOf
<1>5. SumIs(sum, sent, Agent)
  BY <1>4 DEF SumIs, IsSumOf
<1>6. sum + k <= MaxRequests
  BY DEF Within
<1>7. PICK v, g : v = sum /\ g = sent
  OBVIOUS
<1> HIDE DEF sum
<1>8. v \in Nat /\ \A b \in Agent : g[b] <= v
  BY <1>1, <1>5, <1>7, AgentIsFinite, SumOfNaturals
<1>9. sent[a] \in Nat /\ sent[a] <= v /\ v + k <= MaxRequests
  BY <1>1, <1>6, <1>7, <1>8
<1> QED
  BY <1>8, <1>9, MigrationAssumption

\* A CLP that does not have the variable points to another CLP.
LEMMA PointsToClp ==
    ASSUME TablesAgree, IInv, RouteInv, TypeInv, NEW p \in Clp, direction[p] # HERE
    PROVE  GetRankFromDirection(p, direction[p]) \in Clp
<1>1. p \notin hosts
  BY DEF IInv, HereIsHost
<1>2. CASE \E h \in Clp : AtHost(h)
  <2>1. PICK h \in Clp : h \in hosts
    BY <1>2 DEF AtHost
  <2>2. direction[p] = GetDirectionFromRank(p, h) /\ h # p
    BY <1>1, <2>1 DEF RouteInv, PointersLeadToVariable
  <2> QED
    BY <2>2 DEF TablesAgree
<1>3. CASE \E e \in net : OnItsWay(e)
  <2>1. PICK e \in Migrations : TRUE
    BY <1>3 DEF OnItsWay
  <2>2. e.from \in Clp /\ e.to \in Clp /\ e \in net
    BY <2>1 DEF RouteInv, SentToNeighbour, TypeInv, Recipients, Migrations
  <2>3. CASE p = e.from
    <3>1. PICK d \in PortsOf(p) : e.to = GetRankFromDirection(p, d)
      BY <2>1, <2>3 DEF RouteInv, SentToNeighbour
    <3>2. direction[p] = GetDirectionFromRank(p, e.to)
      BY <2>1, <2>3 DEF RouteInv, PointersLeadToVariable
    <3>3. direction[p] = d
      BY <3>1, <3>2 DEF TablesAgree
    <3> QED
      BY <2>2, <3>1, <3>3
  <2>4. CASE p # e.from
    <3>1. direction[p] = GetDirectionFromRank(p, e.from)
      BY <2>1, <2>4 DEF RouteInv, PointersLeadToVariable
    <3> QED
      BY <2>2, <2>4, <3>1 DEF TablesAgree
  <2> QED
    BY <2>3, <2>4
<1> QED
  BY <1>2, <1>3 DEF IInv, Located

LEMMA DirectionsInRange ==
    ASSUME TablesAgree, IInv, RouteInv
    PROVE  direction \in [Clp -> Direction]
<1>1. ASSUME NEW p \in Clp PROVE direction[p] \in Direction
  <2>1. \A h \in Clp : GetDirectionFromRank(p, h) \in Port \cup {HERE}
    BY DEF TablesAgree, LpRank
  <2>2. Port \cup {HERE} \subseteq Direction
    BY DEF Port, HERE, UP, RIGHT, Direction, DIRECTION_SIZE
  <2>3. CASE \E h \in Clp : AtHost(h)
    <3>1. PICK h \in Clp : h \in hosts
      BY <2>3 DEF AtHost
    <3>2. direction[p] = GetDirectionFromRank(p, h)
      BY <3>1 DEF RouteInv, PointersLeadToVariable
    <3> QED
      BY <2>1, <2>2, <3>2
  <2>4. CASE \E e \in net : OnItsWay(e)
    <3>1. PICK e \in Migrations : TRUE
      BY <2>4 DEF OnItsWay
    <3>2. e.from \in Clp
      BY <3>1 DEF RouteInv, SentToNeighbour
    <3>3. CASE p = e.from
      <4>1. PICK d \in PortsOf(p) : e.to = GetRankFromDirection(p, d)
        BY <3>1, <3>3 DEF RouteInv, SentToNeighbour
      <4>2. direction[p] = GetDirectionFromRank(p, e.to)
        BY <3>1, <3>3 DEF RouteInv, PointersLeadToVariable
      <4>3. direction[p] = d /\ d \in Port
        BY <4>1, <4>2 DEF TablesAgree
      <4> QED
        BY <2>2, <4>3
    <3>4. CASE p # e.from
      <4>1. direction[p] = GetDirectionFromRank(p, e.from)
        BY <3>1, <3>4 DEF RouteInv, PointersLeadToVariable
      <4> QED
        BY <2>1, <2>2, <3>2, <4>1
    <3> QED
      BY <3>3, <3>4
  <2> QED
    BY <2>3, <2>4 DEF IInv, Located
<1>2. direction \in [Clp -> 0..NoDirection]
  BY DEF IInv, Shape
<1> QED
  BY <1>1, <1>2

LEMMA InitType == Init => TypeInv
<1> SUFFICES ASSUME Init PROVE TypeInv
  OBVIOUS
<1>1. Recipients
  BY DEF Init, Recipients
<1>2. EmptyElsewhere
  BY DEF Init, EmptyElsewhere
<1>3. Bounded
  BY MigrationAssumption DEF Init, Bounded
<1> QED
  BY <1>1, <1>2, <1>3 DEF TypeInv

\* What an agent sends is within the bound.
LEMMA SendingKeepsType ==
    ASSUME IInv, HistoryInv, TypeInv, NEW a \in Agent, NEW bodies, NEW k \in Nat, Within(k),
           SendsToClp(a, bodies, k), UNCHANGED clpVars, budget' \in 0..MaxRollbacks,
           NEW n \in Nat, n <= sent[a] + k, awaiting' = [awaiting EXCEPT ![a] = n]
    PROVE  TypeInv'
<1>1. UNCHANGED <<hosts, writePeriods, load>>
  BY DEF clpVars
<1>2. sent' = [sent EXCEPT ![a] = @ + k] /\ sent \in [Agent -> Nat] /\ awaiting \in [Agent -> Nat]
  BY DEF SendsToClp, IInv, Shape, HistoryInv, Typed
<1>3. sent[a] + k <= MaxRequests
  BY WithinBound
<1>4. \A b \in Agent : sent'[b] <= MaxRequests /\ awaiting'[b] <= sent'[b]
  BY <1>2, <1>3 DEF TypeInv, Bounded
<1>5. AlpParent[a.rank] \in Clp
  BY MigrationAssumption, RoutingAssumption
<1>6. \A e \in net' : e \in net \/ e.to = AlpParent[a.rank]
  BY DEF SendsToClp, Envelope
<1>7. Recipients'
  BY <1>5, <1>6 DEF TypeInv, Recipients
<1>8. Bounded'
  BY <1>1, <1>4 DEF TypeInv, Bounded
<1>9. EmptyElsewhere'
  BY <1>1 DEF TypeInv, EmptyElsewhere
<1> QED
  BY <1>7, <1>8, <1>9 DEF TypeInv

LEMMA AskKeepsType ==
    ASSUME IInv, HistoryInv, TypeInv, NEW a \in Agent, NEW type \in {"read", "write"},
           NEW t \in Time, NEW v \in Value \cup {NoValue}, Ask(a, type, t, v)
    PROVE  TypeInv'
<1>1. PICK m : /\ m.n = sent[a] + 1
               /\ Within(1) /\ SendsToClp(a, {m}, 1)
               /\ awaiting' = [awaiting EXCEPT ![a] = m.n]
               /\ UNCHANGED <<clpVars, budget>>
  BY DEF Ask
<1>2. PICK n \in Nat : n = m.n /\ n <= sent[a] + 1
  BY <1>1, NumbersTyped
<1>3. budget' \in 0..MaxRollbacks
  BY <1>1 DEF TypeInv, Bounded
<1>4. awaiting' = [awaiting EXCEPT ![a] = n]
  BY <1>1, <1>2
<1> QED
  BY <1>1, <1>2, <1>3, <1>4, SendingKeepsType

LEMMA RollbackKeepsType ==
    ASSUME IInv, HistoryInv, TypeInv, NEW a \in Agent, NEW t \in Time, ProcessRollback(a, t)
    PROVE  TypeInv'
<1>1. PICK k : /\ k = Cardinality(Undone(a, t))
               /\ Within(k) /\ SendsToClp(a, AntiMessages(a, Undone(a, t)), k)
               /\ awaiting' = [awaiting EXCEPT ![a] = 0]
               /\ budget > 0 /\ budget' = budget - 1
               /\ UNCHANGED clpVars
  BY DEF ProcessRollback
<1>2. k \in Nat
  <2>1. Undone(a, t) \subseteq sendList
    BY DEF Undone
  <2>2. IsFiniteSet(Undone(a, t))
    BY <2>1, FS_Subset DEF IInv, Shape
  <2> QED
    BY <1>1, <2>2, FS_CardinalityType
<1>3. budget' \in 0..MaxRollbacks
  BY <1>1, MigrationAssumption DEF TypeInv, Bounded
<1>4. 0 <= sent[a] + k
  BY <1>2, NumbersTyped
<1> QED
  BY <1>1, <1>2, <1>3, <1>4, SendingKeepsType

LEMMA ExecuteKeepsType ==
    ASSUME IInv, HistoryInv, RouteInv, TypeInv,
           NEW p \in Clp, NEW e \in RequestsTo(p), Execute(p, e)
    PROVE  TypeInv'
<1>1. /\ direction[p] = HERE
      /\ \E periods : writePeriods' = [writePeriods EXCEPT ![p] = periods]
      /\ UNCHANGED awaiting \/ awaiting' = [awaiting EXCEPT ![e.body.agent] = 0]
      /\ UNCHANGED load \/ load' = load + (e.hops + 1)
      /\ net' = net \ {e}
      /\ UNCHANGED <<hosts, sent, budget>>
  BY DEF Execute, Answered, Counted
<1>2. p \in hosts
  BY <1>1 DEF IInv, HereIsHost
<1>3. e.hops \in Nat
  BY DEF RequestsTo, Requests, RouteInv, EnvelopesTyped
<1>4. Recipients'
  BY <1>1 DEF TypeInv, Recipients
<1>5. EmptyElsewhere'
  BY <1>1, <1>2 DEF TypeInv, EmptyElsewhere, IInv, Shape
<1>6. \A a \in Agent : awaiting'[a] <= sent[a]
  <2>1. \A a \in Agent : awaiting'[a] = awaiting[a] \/ awaiting'[a] = 0
    BY <1>1 DEF HistoryInv, Typed
  <2> QED
    BY <2>1, NumbersTyped DEF TypeInv, Bounded
<1>7. load' \in Nat
  BY <1>1, <1>3 DEF TypeInv, Bounded
<1>8. Bounded'
  BY <1>1, <1>6, <1>7 DEF TypeInv, Bounded
<1> QED
  BY <1>4, <1>5, <1>8 DEF TypeInv

LEMMA ForwardKeepsType ==
    ASSUME TablesAgree, IInv, RouteInv, TypeInv,
           NEW p \in Clp, NEW e \in RequestsTo(p), Forward(p, e)
    PROVE  TypeInv'
<1>1. PICK to : to = GetRankFromDirection(p, direction[p])
  OBVIOUS
<1>2. /\ direction[p] # HERE
      /\ net' = (net \ {e}) \cup {OneHopOn(p, e, to)}
      /\ UNCHANGED <<clpVars, alpVars>>
  BY <1>1 DEF Forward, Forwarded
<1>3. to \in Clp
  BY <1>1, <1>2, PointsToClp
<1>4. Recipients'
  BY <1>2, <1>3 DEF TypeInv, Recipients, OneHopOn, Envelope
<1>5. EmptyElsewhere' /\ Bounded'
  BY <1>2 DEF TypeInv, EmptyElsewhere, Bounded, clpVars, alpVars
<1> QED
  BY <1>4, <1>5 DEF TypeInv

LEMMA GvtKeepsType ==
    ASSUME TablesAgree, LeavesOnLowestLevel, IInv, RouteInv, TypeInv,
           NEW p \in Clp, NEW gvt, SetGvt(p, gvt)
    PROVE  TypeInv'
<1>1. UNCHANGED <<sent, awaiting, budget>>
  BY DEF SetGvt, alpVars
<1>2. CASE SetGvtElsewhere(p, gvt)
  BY <1>1, <1>2 DEF SetGvtElsewhere, TypeInv, Recipients, EmptyElsewhere, Bounded
<1>3. CASE SetGvtAtHost(p, gvt)
  <2>1. /\ p \in hosts /\ UNCHANGED <<hosts, net>> /\ load' = 0
        /\ \E periods : writePeriods' = [writePeriods EXCEPT ![p] = periods]
    BY <1>3 DEF SetGvtAtHost
  <2>2. EmptyElsewhere'
    BY <2>1 DEF TypeInv, EmptyElsewhere, IInv, Shape
  <2> QED
    BY <1>1, <2>1, <2>2 DEF TypeInv, Recipients, Bounded
<1>4. CASE MigrateStateVariables(p, gvt)
  <2>1. PICK d \in Port : \E body : LET to == GetRankFromDirection(p, d) IN
          /\ p \in hosts
          /\ PortAsksMost(p, d)
          /\ net' = net \cup {Envelope(p, to, NextPlace(p, to), body, 0, {})}
          /\ hosts' = hosts \ {p}
          /\ writePeriods' = [writePeriods EXCEPT ![p] = << >>]
          /\ load' = 0
    BY <1>4 DEF MigrateStateVariables, HostsWithout
  <2>2. d \in PortsOf(p)
    BY <2>1, AskedMostIsPort
  <2>3. d = UP \/ ~IsLeaf(p)
    BY <2>1 DEF PortAsksMost, LeavesOnLowestLevel
  <2>4. GetRankFromDirection(p, d) \in Clp
    BY <2>2, <2>3 DEF TablesAgree
  <2>5. Recipients'
    BY <2>1, <2>4 DEF TypeInv, Recipients, Envelope
  <2>6. EmptyElsewhere'
    BY <2>1 DEF TypeInv, EmptyElsewhere, IInv, Shape
  <2> QED
    BY <1>1, <2>1, <2>5, <2>6 DEF TypeInv, Bounded
<1> QED
  BY <1>2, <1>3, <1>4 DEF SetGvt

LEMMA ArrivingKeepsType ==
    ASSUME IInv, TypeInv, NEW p \in Clp, StateMigration(p)
    PROVE  TypeInv'
<1>1. PICK e : /\ net' = net \ {e}
               /\ hosts' = hosts \cup {p}
               /\ \E periods : writePeriods' = [writePeriods EXCEPT ![p] = periods]
               /\ load' = 0
               /\ UNCHANGED alpVars
  BY DEF StateMigration
<1>2. Recipients'
  BY <1>1 DEF TypeInv, Recipients
<1>3. EmptyElsewhere'
  BY <1>1 DEF TypeInv, EmptyElsewhere, IInv, Shape
<1>4. Bounded'
  BY <1>1 DEF TypeInv, Bounded, alpVars
<1> QED
  BY <1>2, <1>3, <1>4 DEF TypeInv

LEMMA NextKeepsType ==
    ASSUME TablesAgree, LeavesOnLowestLevel
    PROVE  IInv /\ HistoryInv /\ RouteInv /\ TypeInv /\ [Next]_vars => TypeInv'
<1> SUFFICES ASSUME IInv, HistoryInv, RouteInv, TypeInv, [Next]_vars
             PROVE  TypeInv'
  OBVIOUS
<1>1. ASSUME NEW a \in Agent, NEW t \in Time, NEW type \in {"read", "write"},
             NEW v \in Value \cup {NoValue}, Ask(a, type, t, v)
      PROVE  TypeInv'
  BY <1>1, AskKeepsType
<1>2. ASSUME NEW a \in Agent, NEW t \in Time, ProcessRollback(a, t)
      PROVE  TypeInv'
  BY <1>2, RollbackKeepsType
<1>3. ASSUME NEW p \in Clp, ReceiveRequest(p)
      PROVE  TypeInv'
  <2>1. PICK e \in RequestsTo(p) : Execute(p, e) \/ Forward(p, e)
    BY <1>3 DEF ReceiveRequest
  <2> QED
    BY <2>1, ExecuteKeepsType, ForwardKeepsType
<1>4. ASSUME NEW p \in Clp, StateMigration(p)
      PROVE  TypeInv'
  BY <1>4, ArrivingKeepsType
<1>5. ASSUME NEW p \in Clp, NEW gvt \in GvtTime, SetGvt(p, gvt)
      PROVE  TypeInv'
  BY <1>5, GvtKeepsType
<1>6. CASE UNCHANGED vars
  BY <1>6 DEF vars, clpVars, alpVars, TypeInv, Recipients, EmptyElsewhere, Bounded
<1> QED
  BY <1>1, <1>2, <1>3, <1>4, <1>5, <1>6 DEF Next

\* What a migration missed was submitted before.
MissedKnown == missed \subseteq submitted

LEMMA NextKeepsMissed == IInv /\ MissedKnown /\ [Next]_vars => MissedKnown'
<1> SUFFICES ASSUME IInv, MissedKnown, [Next]_vars
             PROVE  MissedKnown'
  OBVIOUS
<1>1. ASSUME NEW a \in Agent, NEW t \in Time, NEW type \in {"read", "write"},
             NEW v \in Value \cup {NoValue}, Ask(a, type, t, v)
      PROVE  MissedKnown'
  BY <1>1, AskSends DEF clpVars, MissedKnown
<1>2. ASSUME NEW a \in Agent, NEW t \in Time, ProcessRollback(a, t)
      PROVE  MissedKnown'
  BY <1>2, RollbackSends DEF clpVars, MissedKnown
<1>3. ASSUME NEW p \in Clp, ReceiveRequest(p)
      PROVE  MissedKnown'
  BY <1>3 DEF ReceiveRequest, Execute, Forward, clpVars, alpVars, MissedKnown
<1>4. ASSUME NEW p \in Clp, StateMigration(p)
      PROVE  MissedKnown'
  <2>1. /\ missed' = missed \cup {f.body : f \in {g \in Requests : p \in g.seen}}
        /\ submitted' = submitted
    BY <1>4 DEF StateMigration, alpVars
  <2>2. \A g \in Requests : g.body \in submitted
    BY DEF IInv, Numbered, Pending
  <2> QED
    BY <2>1, <2>2 DEF MissedKnown
<1>5. ASSUME NEW p \in Clp, NEW gvt \in GvtTime, SetGvt(p, gvt)
      PROVE  MissedKnown'
  BY <1>5 DEF SetGvt, alpVars, MissedKnown
<1>6. CASE UNCHANGED vars
  BY <1>6 DEF vars, clpVars, alpVars, MissedKnown
<1> QED
  BY <1>1, <1>2, <1>3, <1>4, <1>5, <1>6 DEF Next

\* The invariants say what TypeOK says.
LEMMA TypeFollows ==
    ASSUME TablesAgree, IInv, HistoryInv, RouteInv, TypeInv, MissedKnown
    PROVE  TypeOK
<1>1. direction \in [Clp -> Direction]
  BY DirectionsInRange
<1>2. hosts \subseteq Clp
  BY DEF IInv, Located, AtHost, OnItsWay
<1>3. writePeriods \in [Clp -> Seq(WritePeriod)]
  <2>1. ASSUME NEW p \in Clp PROVE writePeriods[p] \in Seq(WritePeriod)
    <3>1. CASE p \in hosts
      <4>1. writePeriods[p] \in Seq(FitPeriod)
        BY <3>1, HistoryOfHost DEF IInv, HistoryInv
      <4>2. FitPeriod \subseteq WritePeriod
        BY DEF FitPeriod
      <4> QED
        BY <4>1, <4>2
    <3>2. CASE p \notin hosts
      <4>1. writePeriods[p] = << >>
        BY <3>2 DEF TypeInv, EmptyElsewhere
      <4>2. PICK S : S = WritePeriod
        OBVIOUS
      <4>3. << >> \in Seq(S)
        OBVIOUS
      <4> QED
        BY <4>1, <4>2, <4>3
    <3> QED
      BY <3>1, <3>2
  <2> QED
    BY <2>1 DEF IInv, Shape
<1>4. sent \in [Agent -> 0..MaxRequests] /\ awaiting \in [Agent -> 0..MaxRequests]
  <2>1. \A a \in Agent : sent[a] \in 0..MaxRequests /\ awaiting[a] \in 0..MaxRequests
    BY NumbersTyped, MigrationAssumption DEF TypeInv, Bounded
  <2> QED
    BY <2>1 DEF IInv, Shape, HistoryInv, Typed
<1>5. submitted \subseteq Request
  <2>1. ASSUME NEW m \in submitted PROVE m \in Request
    <3>1. m \in Message /\ m.n <= sent[m.agent]
      BY DEF IInv, Numbered, HistoryInv, Typed
    <3>2. m.n \in Nat \ {0} /\ m.agent \in Agent
      BY <3>1 DEF Message
    <3>3. m.n \in 1..MaxRequests
      BY <1>4, <3>1, <3>2, MigrationAssumption
    <3> QED
      BY <3>1, <3>3 DEF Message, Request
  <2> QED
    BY <2>1
<1>6. access \in [Port -> [count: Nat, hops: Nat]] /\ load \in Nat
  BY DEF RouteInv, PortsCounted, TypeInv, Bounded
<1>7. \A e \in net : e.from \in LpRank /\ e.to \in Clp /\ e.hops \in Nat
  BY DEF RouteInv, EnvelopesTyped, TypeInv, Recipients
<1>8. budget \in 0..MaxRollbacks
  BY DEF TypeInv, Bounded
<1>9. Pending \subseteq submitted /\ sendList \subseteq submitted
  BY DEF IInv, Numbered
<1>10. fGVT \in [Clp -> GvtTime] /\ agentLvt \in [Agent -> GvtTime] /\ overtaken \in BOOLEAN
  BY DEF IInv, Shape, HistoryInv, Typed
<1> QED
  BY <1>1, <1>2, <1>3, <1>4, <1>5, <1>6, <1>7, <1>8, <1>9, <1>10
     DEF TypeOK, MissedKnown, WritePeriod, ReadRecord

LEMMA TypeSound ==
    ASSUME TablesAgree, LeavesOnLowestLevel
    PROVE  Spec => [](IInv /\ HistoryInv /\ RouteInv /\ TypeInv /\ MissedKnown)
<1>1. Init => TypeInv
  BY InitType
<1>2. IInv /\ HistoryInv /\ RouteInv /\ TypeInv /\ [Next]_vars => TypeInv'
  BY NextKeepsType
<1>3. Init => MissedKnown
  BY DEF Init, MissedKnown
<1>4. IInv /\ MissedKnown /\ [Next]_vars => MissedKnown'
  BY NextKeepsMissed
<1> QED
  BY <1>1, <1>2, <1>3, <1>4, RouteSound, PTL DEF Spec

\* Every state has the right types, for any agents, values, times and bounds: in
\* particular no request and no variable is ever sent to an ALP, whose handler
\* exits (Alp.cpp:226-230), in a tree whose leaves know themselves for leaves
\* (AccessCostCalculator.cpp:7).
THEOREM TypeCorrect ==
    ASSUME TablesAgree, LeavesOnLowestLevel
    PROVE  Spec => []TypeOK
<1>1. IInv /\ HistoryInv /\ RouteInv /\ TypeInv /\ MissedKnown => TypeOK
  BY TypeFollows
<1> QED
  BY <1>1, TypeSound, PTL

-----------------------------------------------------------------------------
(***************************************************************************)
(* The order of an agent's requests.  A request leaves a trail: the CLPs   *)
(* it has passed.  Unless the variable has come, or is coming, to one of   *)
(* them (Missed), the trail is a way to where the request is now           *)
(* (TrailsLead), so a later request of the agent is still on it, or right  *)
(* behind (FollowsBehind): it starts where the trail starts.  The variable *)
(* is on no such trail, which is why Execute finds no earlier request that *)
(* it has not missed.                                                      *)
(***************************************************************************)
NextHop(p) == GetRankFromDirection(p, direction[p])

Missed(e) == e.body \in missed \/ \E g \in Migrations : g.to \in e.seen

OnTrail(e) ==
    /\ e.seen \subseteq Clp /\ e.to \notin e.seen
    /\ \A q \in e.seen : /\ direction[q] = GetDirectionFromRank(q, e.to)
                         /\ NextHop(q) \in e.seen \cup {e.to}
                         /\ NextHop(q) = e.to => q = e.from

FirstClp(e) == AlpParent[e.body.agent.rank]

TrailsStart ==
    \A e \in Requests :
      \/ e.seen = {} /\ e.from = e.body.agent.rank /\ e.to = FirstClp(e)
      \/ FirstClp(e) \in e.seen

TrailsLead == \A e \in Requests : ~Missed(e) => OnTrail(e)

Later(m, e) == e.body.agent = m.body.agent /\ e.body.n < m.body.n

Behind(m, e) ==
    \/ m.to \in e.seen
    \/ m.from = e.from /\ m.to = e.to /\ e.place < m.place

FollowsBehind == \A e, m \in Requests : Later(m, e) /\ ~Missed(e) => Behind(m, e)

Placed(b) == \A e \in net : e.place \in 0..b

OrderInv == TrailsStart /\ TrailsLead /\ FollowsBehind /\ \E b \in Nat : Placed(b)

LEMMA NextPlaceIsBehind ==
    ASSUME NEW b \in Nat, Placed(b), NEW from, NEW to
    PROVE  /\ NextPlace(from, to) \in 1..(b + 1)
           /\ \A e \in OnLink(from, to) : e.place < NextPlace(from, to)
<1>1. PICK S : S = {0} \cup {e.place : e \in OnLink(from, to)}
  OBVIOUS
<1>2. S \in SUBSET (0..b) /\ S # {}
  BY <1>1 DEF Placed, OnLink
<1>3. Max(S) \in S /\ \A y \in S : y <= Max(S)
  BY <1>2, MaxFromZero
<1>4. Max(S) \in 0..b
  BY <1>2, <1>3
<1>5. NextPlace(from, to) = 1 + Max(S)
  BY <1>1 DEF NextPlace
<1>6. PICK k \in 0..b : k = Max(S)
  BY <1>4
<1>7. \A e \in OnLink(from, to) : e.place \in 0..b /\ e.place <= k
  BY <1>1, <1>3, <1>6 DEF Placed, OnLink
<1> QED
  BY <1>5, <1>6, <1>7

\* A pointer leads to another CLP, and is the direction of that CLP.
LEMMA PointerLeads ==
    ASSUME TablesAgree, IInv, RouteInv, TypeInv, NEW p \in Clp, direction[p] # HERE
    PROVE  /\ direction[p] \in PortsOf(p)
           /\ NextHop(p) \in Clp \ {p}
           /\ GetDirectionFromRank(p, NextHop(p)) = direction[p]
<1>1. p \notin hosts
  BY DEF IInv, HereIsHost
<1>2. direction[p] \in PortsOf(p)
  <2>1. CASE \E h \in Clp : AtHost(h)
    <3>1. PICK h \in Clp : h \in hosts
      BY <2>1 DEF AtHost
    <3>2. direction[p] = GetDirectionFromRank(p, h) /\ h \in LpRank \ {p}
      BY <1>1, <3>1 DEF RouteInv, PointersLeadToVariable, LpRank
    <3> QED
      BY <3>2 DEF TablesAgree
  <2>2. CASE \E e \in net : OnItsWay(e)
    <3>1. PICK e \in Migrations : TRUE
      BY <2>2 DEF OnItsWay
    <3>2. e.from \in Clp
      BY <3>1 DEF RouteInv, SentToNeighbour
    <3>3. CASE p = e.from
      <4>1. PICK d \in PortsOf(p) : e.to = GetRankFromDirection(p, d)
        BY <3>1, <3>3 DEF RouteInv, SentToNeighbour
      <4>2. direction[p] = GetDirectionFromRank(p, e.to)
        BY <3>1, <3>3 DEF RouteInv, PointersLeadToVariable
      <4> QED
        BY <4>1, <4>2 DEF TablesAgree
    <3>4. CASE p # e.from
      <4>1. direction[p] = GetDirectionFromRank(p, e.from) /\ e.from \in LpRank \ {p}
        BY <3>1, <3>2, <3>4 DEF RouteInv, PointersLeadToVariable, LpRank
      <4> QED
        BY <4>1 DEF TablesAgree
    <3> QED
      BY <3>3, <3>4
  <2> QED
    BY <2>1, <2>2 DEF IInv, Located
<1>3. NextHop(p) \in Clp
  BY PointsToClp DEF NextHop
<1>4. GetDirectionFromRank(p, NextHop(p)) = direction[p]
  BY <1>2 DEF TablesAgree, NextHop
<1>5. NextHop(p) # p
  BY <1>4 DEF TablesAgree
<1> QED
  BY <1>2, <1>3, <1>4, <1>5

\* Only while the variable is on its way between them do two CLPs point at each
\* other.
LEMMA NotBack ==
    ASSUME TablesAgree, LinksCut, IInv, RouteInv, TypeInv, NEW y \in Clp, direction[y] # HERE,
           NEW z \in Clp, z = NextHop(y), direction[z] = GetDirectionFromRank(z, y)
    PROVE  \E g \in Migrations : g.to \in {y, z}
<1>1. /\ direction[y] \in PortsOf(y) /\ z # y
      /\ GetDirectionFromRank(y, z) = direction[y]
      /\ z = GetRankFromDirection(y, direction[y])
  BY PointerLeads DEF NextHop
<1>2. ASSUME NEW h \in Clp, direction[y] = GetDirectionFromRank(y, h)
      PROVE  direction[z] # GetDirectionFromRank(z, h)
  BY <1>1, <1>2 DEF LinksCut
<1>3. CASE \E h \in Clp : AtHost(h)
  <2>1. PICK h \in Clp : h \in hosts
    BY <1>3 DEF AtHost
  <2>2. direction[y] = GetDirectionFromRank(y, h) /\ direction[z] = GetDirectionFromRank(z, h)
    BY <2>1 DEF RouteInv, PointersLeadToVariable
  <2> QED
    BY <1>2, <2>1, <2>2
<1>4. CASE \E e \in net : OnItsWay(e)
  <2>1. PICK g \in Migrations : TRUE
    BY <1>4 DEF OnItsWay
  <2>2. /\ g.from \in Clp /\ g.to \in Clp
        /\ \E d \in PortsOf(g.from) : g.to = GetRankFromDirection(g.from, d)
        /\ \A p \in Clp : direction[p] = GetDirectionFromRank(p, IF p = g.from THEN g.to ELSE g.from)
    BY <2>1 DEF RouteInv, SentToNeighbour, PointersLeadToVariable, TypeInv, Recipients, Migrations
  <2>3. PICK d \in PortsOf(g.from) : g.to = GetRankFromDirection(g.from, d)
    BY <2>2
  <2>4. GetDirectionFromRank(g.from, g.to) = d
    BY <2>2, <2>3 DEF TablesAgree
  <2>5. CASE y = g.from
    <3>1. direction[y] = d
      BY <2>2, <2>4, <2>5
    <3> QED
      BY <1>1, <2>1, <2>3, <2>5, <3>1
  <2>6. CASE y # g.from /\ z = g.from
    <3>1. CASE y = g.to
      BY <2>1, <3>1
    <3>2. CASE y # g.to
      <4>1. GetDirectionFromRank(z, y) = d
        BY <2>2, <2>4, <2>6
      <4>2. GetDirectionFromRank(g.to, y) # GetDirectionFromRank(g.to, z)
        BY <2>2, <2>3, <2>6, <4>1 DEF LinksCut
      <4>3. g.to # z
        <5>1. HERE \notin Port
          BY DEF HERE, Port, UP, RIGHT
        <5> QED
          BY <2>2, <2>3, <2>4, <2>6, <5>1 DEF TablesAgree
      <4>4. GetDirectionFromRank(g.to, y) = GetDirectionFromRank(g.to, z)
        BY <1>1, <2>2, <3>2, <4>3 DEF TablesAgree
      <4> QED
        BY <4>2, <4>4
    <3> QED
      BY <3>1, <3>2
  <2>7. CASE y # g.from /\ z # g.from
    BY <1>2, <2>2, <2>7
  <2> QED
    BY <2>5, <2>6, <2>7
<1> QED
  BY <1>3, <1>4 DEF IInv, Located

\* A step after which there are no new requests, none that was missed before is not
\* missed any more, and no trail has a pointer that was turned.
LEMMA SameTrails ==
    ASSUME OrderInv, Requests' \subseteq Requests, \E b \in Nat : Placed(b)',
           \A e \in Requests' : ~Missed(e)' =>
             ~Missed(e) /\ \A q \in e.seen : direction'[q] = direction[q]
    PROVE  OrderInv'
<1>1. TrailsStart'
  BY DEF OrderInv, TrailsStart, FirstClp
<1>2. TrailsLead'
  <2>1. SUFFICES ASSUME NEW e \in Requests', ~Missed(e)'
                 PROVE  OnTrail(e)'
    BY DEF TrailsLead
  <2>2. OnTrail(e) /\ \A q \in e.seen : direction'[q] = direction[q]
    BY <2>1 DEF OrderInv, TrailsLead
  <2> QED
    BY <2>2 DEF OnTrail, NextHop
<1>3. FollowsBehind'
  <2>1. SUFFICES ASSUME NEW e \in Requests', NEW m \in Requests', Later(m, e), ~Missed(e)'
                 PROVE  Behind(m, e)
    BY DEF FollowsBehind, Later, Behind
  <2> QED
    BY <2>1 DEF OrderInv, FollowsBehind
<1> QED
  BY <1>1, <1>2, <1>3 DEF OrderInv

\* The bodies an agent sends, in the order of their numbers, behind all it sent before.
LEMMA SendingKeepsOrder ==
    ASSUME IInv, OrderInv, NEW a \in Agent, NEW k \in Nat, NEW bodies,
           \A m \in bodies : NewBody(m, a, k),
           SendsToClp(a, bodies, k), UNCHANGED clpVars, Migrations' = Migrations
    PROVE  OrderInv'
<1> DEFINE first == AlpParent[a.rank]
           Place(m) == NextPlace(a.rank, first) + m.n - (sent[a] + 1)
           New(m) == Envelope(a.rank, first, Place(m), m, 0, {})
<1>1. net' = net \cup {New(m) : m \in bodies}
  BY DEF SendsToClp
<1>2. \A m \in bodies : /\ New(m).from = a.rank /\ New(m).to = first /\ New(m).place = Place(m)
                        /\ New(m).body = m /\ New(m).seen = {} /\ ~IsMigration(New(m))
  BY DEF Envelope, IsMigration, NewBody
<1> HIDE DEF New
<1>3. Requests' = Requests \cup {New(m) : m \in bodies}
  BY <1>1, <1>2 DEF Requests, IsMigration
<1>4. UNCHANGED <<direction, missed>>
  BY DEF clpVars
<1>5. sent[a] \in Nat /\ \A m \in bodies : m.n \in Nat /\ sent[a] < m.n /\ m.n <= sent[a] + k /\ m.agent = a
  BY DEF IInv, Shape, NewBody
<1>6. PICK b \in Nat : Placed(b)
  BY DEF OrderInv
<1>7. PICK last \in Int : last = NextPlace(a.rank, first) /\ last \in 1..(b + 1)
  BY <1>6, NextPlaceIsBehind
<1>8. \A e \in OnLink(a.rank, first) : e.place < last
  BY <1>6, <1>7, NextPlaceIsBehind
<1>9. \A m \in bodies : Place(m) \in last..(last + k)
  BY <1>5, <1>7
<1>10. \A m, e \in bodies : e.n < m.n => Place(e) < Place(m)
  BY <1>5, <1>7
<1> HIDE DEF Place
<1>11. Placed(b + 1 + k)'
  <2>1. ASSUME NEW e \in net' PROVE e.place \in 0..(b + 1 + k)
    <3>1. CASE e \in net
      BY <1>6, <3>1 DEF Placed
    <3>2. CASE e \notin net
      <4>1. PICK m \in bodies : e.place = Place(m)
        BY <1>1, <1>2, <3>2
      <4> QED
        BY <1>7, <1>9, <4>1
    <3> QED
      BY <3>1, <3>2
  <2> QED
    BY <2>1 DEF Placed
<1>12. TrailsStart'
  BY <1>2, <1>3, <1>5 DEF OrderInv, TrailsStart, FirstClp
<1>13. \A e \in Requests : Missed(e)' = Missed(e)
  BY <1>4 DEF Missed
<1>14. TrailsLead'
  <2>1. SUFFICES ASSUME NEW e \in Requests', ~Missed(e)'
                 PROVE  OnTrail(e)'
    BY DEF TrailsLead
  <2>2. CASE e \in Requests
    <3>1. OnTrail(e)
      BY <1>13, <2>1, <2>2 DEF OrderInv, TrailsLead
    <3> QED
      BY <1>4, <3>1 DEF OnTrail, NextHop
  <2>3. CASE e \notin Requests
    <3>1. e.seen = {}
      BY <1>2, <1>3, <2>3
    <3> QED
      BY <3>1 DEF OnTrail
  <2> QED
    BY <2>2, <2>3
<1>15. FollowsBehind'
  <2>1. SUFFICES ASSUME NEW e \in Requests', NEW m \in Requests', Later(m, e), ~Missed(e)'
                 PROVE  Behind(m, e)
    BY DEF FollowsBehind, Later, Behind
  <2>2. CASE e \in Requests /\ m \in Requests
    BY <1>13, <2>1, <2>2 DEF OrderInv, FollowsBehind
  <2>3. CASE e \in Requests /\ m \notin Requests
    <3>1. PICK c \in bodies : m = New(c)
      BY <1>3, <2>3
    <3>2. /\ m.from = a.rank /\ m.to = first /\ m.place = Place(c) /\ e.body.agent = a
      BY <1>2, <1>5, <2>1, <3>1 DEF Later
    <3>3. CASE e.seen = {}
      <4>1. e.from = a.rank /\ e.to = first
        BY <2>3, <3>2, <3>3 DEF OrderInv, TrailsStart, FirstClp
      <4>2. e \in OnLink(a.rank, first)
        BY <2>3, <4>1 DEF OnLink, Requests
      <4>3. e.place \in 0..b /\ e.place < last /\ Place(c) \in last..(last + k)
        BY <1>6, <1>8, <1>9, <4>2 DEF Placed, OnLink
      <4>4. e.place < m.place
        BY <1>7, <3>2, <4>3
      <4> QED
        BY <3>2, <4>1, <4>4 DEF Behind
    <3>4. CASE e.seen # {}
      BY <2>3, <3>2, <3>4 DEF OrderInv, TrailsStart, FirstClp, Behind
    <3> QED
      BY <3>3, <3>4
  <2>4. CASE e \notin Requests /\ m \in Requests
    <3>1. PICK c \in bodies : e.body = c
      BY <1>2, <1>3, <2>4
    <3>2. m.body.agent = a /\ c.n < m.body.n
      BY <1>5, <2>1, <3>1 DEF Later
    <3>3. m.body \in submitted
      BY <2>4 DEF IInv, Numbered, Pending
    <3>4. m.body.n \in Nat /\ m.body.n <= sent[a]
      BY <3>2, <3>3 DEF IInv, Numbered
    <3> QED
      BY <1>5, <3>1, <3>2, <3>4
  <2>5. CASE e \notin Requests /\ m \notin Requests
    <3>1. PICK c \in bodies, x \in bodies : e = New(c) /\ m = New(x)
      BY <1>3, <2>5
    <3>2. c.n < x.n
      BY <1>2, <2>1, <3>1 DEF Later
    <3> QED
      BY <1>2, <1>10, <3>1, <3>2 DEF Behind
  <2> QED
    BY <2>2, <2>3, <2>4, <2>5
<1> QED
  BY <1>6, <1>11, <1>12, <1>14, <1>15 DEF OrderInv

\* The CLP a request comes to next was not on its trail.
LEMMA NotSeenBefore ==
    ASSUME TablesAgree, LinksCut, IInv, RouteInv, TypeInv, NEW p \in Clp, direction[p] # HERE,
           NEW e \in RequestsTo(p), OnTrail(e),
           \A g \in Migrations : g.to \notin e.seen \cup {p}
    PROVE  NextHop(p) \notin e.seen \cup {p}
<1>1. NextHop(p) \in Clp \ {p}
  BY PointerLeads
<1>2. ASSUME NextHop(p) \in e.seen
      PROVE  FALSE
  <2>1. direction[NextHop(p)] = GetDirectionFromRank(NextHop(p), p)
    BY <1>2 DEF OnTrail, RequestsTo
  <2>2. \E g \in Migrations : g.to \in {p, NextHop(p)}
    BY <1>1, <2>1, NotBack
  <2> QED
    BY <1>2, <2>2
<1> QED
  BY <1>1, <1>2

\* One CLP further, the trail is a way to the new place.
LEMMA TrailGrows ==
    ASSUME TablesAgree, LinksCut, IInv, RouteInv, TypeInv, NEW p \in Clp, direction[p] # HERE,
           NEW e \in RequestsTo(p), OnTrail(e),
           \A g \in Migrations : g.to \notin e.seen \cup {p}
    PROVE  OnTrail(OneHopOn(p, e, NextHop(p)))
<1> DEFINE z == NextHop(p)
           f == OneHopOn(p, e, z)
<1>1. f.from = p /\ f.to = z /\ f.seen = e.seen \cup {p}
  BY DEF OneHopOn, Envelope
<1>2. e.to = p /\ e.seen \subseteq Clp /\ p \notin e.seen
  BY DEF OnTrail, RequestsTo
<1>3. /\ direction[p] \in PortsOf(p) /\ z \in Clp \ {p}
      /\ GetDirectionFromRank(p, z) = direction[p]
  BY PointerLeads
<1>4. z \notin e.seen \cup {p}
  BY NotSeenBefore
<1>5. ASSUME NEW q \in e.seen
      PROVE  /\ direction[q] = GetDirectionFromRank(q, z)
             /\ NextHop(q) \in e.seen \cup {p}
  <2>1. direction[q] = GetDirectionFromRank(q, p) /\ NextHop(q) \in e.seen \cup {p}
    BY <1>2 DEF OnTrail
  <2>2. GetDirectionFromRank(q, p) = GetDirectionFromRank(q, z)
    BY <1>2, <1>3, <1>4 DEF TablesAgree, NextHop
  <2> QED
    BY <2>1, <2>2
<1> HIDE DEF f, z
<1>6. f.seen \subseteq Clp /\ f.to \notin f.seen
  BY <1>1, <1>2, <1>4
<1>7. ASSUME NEW q \in f.seen
      PROVE  /\ direction[q] = GetDirectionFromRank(q, f.to)
             /\ NextHop(q) \in f.seen \cup {f.to}
             /\ NextHop(q) = f.to => q = f.from
  <2>1. CASE q = p
    BY <1>1, <1>3, <2>1 DEF z
  <2>2. CASE q \in e.seen
    BY <1>1, <1>4, <1>5, <2>2
  <2> QED
    BY <1>1, <2>1, <2>2
<1>8. OnTrail(f)
  BY <1>6, <1>7 DEF OnTrail
<1> QED
  BY <1>8 DEF f, z

\* A request is sent on along the trails of those before it.
LEMMA ForwardKeepsOrder ==
    ASSUME TablesAgree, LinksCut, IInv, HistoryInv, RouteInv, TypeInv, OrderInv,
           NEW p \in Clp, NEW e \in RequestsTo(p), MayArrive(e), Forward(p, e)
    PROVE  OrderInv'
<1> DEFINE z == NextHop(p)
           f == OneHopOn(p, e, z)
<1>1. /\ direction[p] # HERE
      /\ net' = (net \ {e}) \cup {f}
      /\ UNCHANGED <<direction, missed>>
  BY DEF Forward, Forwarded, NextHop, clpVars
<1>2. /\ f.from = p /\ f.to = z /\ f.place = NextPlace(p, z)
      /\ f.body = e.body /\ f.seen = e.seen \cup {p}
  BY DEF OneHopOn, Envelope
<1>3. e \in Requests /\ e.to = p /\ e \in net /\ ~IsMigration(e) /\ ~IsMigration(f)
  BY <1>2 DEF RequestsTo, Requests, IsMigration
<1>4. \/ e.seen = {} /\ p = FirstClp(e)
      \/ FirstClp(e) \in e.seen
  BY <1>3 DEF OrderInv, TrailsStart
<1>5. OnTrail(e) /\ (\A g \in Migrations : g.to \notin e.seen \cup {p}) => OnTrail(f)
  BY <1>1, TrailGrows
<1> HIDE DEF f, z
<1>6. Requests' = (Requests \ {e}) \cup {f} /\ Migrations' = Migrations
  BY <1>1, <1>3 DEF Requests, Migrations, IsMigration
<1>7. PICK b \in Nat : Placed(b)
  BY DEF OrderInv
<1>8. Placed(b + 1)'
  <2>1. NextPlace(p, z) \in 1..(b + 1)
    BY <1>7, NextPlaceIsBehind
  <2>2. \A x \in net : x.place \in 0..(b + 1)
    BY <1>7 DEF Placed
  <2> QED
    BY <1>1, <1>2, <2>1, <2>2 DEF Placed
<1>9. TrailsStart'
  <2>1. FirstClp(f) \in f.seen
    BY <1>2, <1>4 DEF FirstClp
  <2> QED
    BY <1>6, <2>1 DEF OrderInv, TrailsStart, FirstClp
<1>10. \A x : Missed(x)' = Missed(x)
  BY <1>1, <1>6 DEF Missed
<1>11. Missed(e) => Missed(f)
  BY <1>2 DEF Missed
<1>12. ~Missed(f) => \A g \in Migrations : g.to \notin e.seen \cup {p}
  BY <1>2 DEF Missed
<1>13. TrailsLead'
  <2>1. SUFFICES ASSUME NEW x \in Requests', ~Missed(x)
                 PROVE  OnTrail(x)'
    BY <1>10 DEF TrailsLead
  <2>2. OnTrail(x)
    <3>1. CASE x = f
      BY <1>3, <1>5, <1>11, <1>12, <2>1, <3>1 DEF OrderInv, TrailsLead
    <3>2. CASE x \in Requests
      BY <2>1, <3>2 DEF OrderInv, TrailsLead
    <3> QED
      BY <1>6, <3>1, <3>2
  <2> QED
    BY <1>1, <2>2 DEF OnTrail, NextHop
<1>14. FollowsBehind'
  <2>1. SUFFICES ASSUME NEW x \in Requests', NEW m \in Requests', Later(m, x), ~Missed(x)
                 PROVE  Behind(m, x)
    BY <1>10 DEF FollowsBehind, Later, Behind
  <2>2. e.body.n \in Nat
    BY <1>3, PendingTyped DEF Pending
  <2>3. CASE x \in Requests /\ m \in Requests
    BY <2>1, <2>3 DEF OrderInv, FollowsBehind
  <2>4. CASE x = f /\ m = f
    BY <1>2, <2>1, <2>2, <2>4 DEF Later
  <2>5. CASE x = f /\ m \in Requests
    <3>1. Later(m, e) /\ ~Missed(e)
      BY <1>2, <1>11, <2>1, <2>5 DEF Later
    <3>2. m.to \in e.seen \cup {p}
      BY <1>3, <2>5, <3>1 DEF OrderInv, FollowsBehind, Behind
    <3> QED
      BY <1>2, <2>5, <3>2 DEF Behind
  <2>6. CASE x \in Requests /\ m = f
    <3>1. Later(e, x) /\ OnTrail(x) /\ Behind(e, x)
      BY <1>2, <1>3, <2>1, <2>6 DEF Later, OrderInv, FollowsBehind, TrailsLead
    <3>2. p \in x.seen
      <4>1. SUFFICES ASSUME e.from = x.from /\ e.to = x.to /\ x.place < e.place
                     PROVE  FALSE
        BY <1>3, <3>1 DEF Behind
      <4>2. x \in OnLink(e.from, e.to)
        BY <2>6, <4>1 DEF OnLink, Requests
      <4>3. x.place >= e.place
        BY <1>3, <4>2 DEF MayArrive
      <4>4. x.place \in 0..b /\ e.place \in 0..b
        BY <1>3, <1>7, <2>6 DEF Placed, Requests
      <4> QED
        BY <4>1, <4>3, <4>4
    <3>3. z \in x.seen \cup {x.to} /\ (z = x.to => p = x.from)
      BY <3>1, <3>2 DEF OnTrail, z
    <3>4. CASE z \in x.seen
      BY <1>2, <2>6, <3>4 DEF Behind
    <3>5. CASE z = x.to /\ p = x.from
      <4>1. x \in OnLink(p, z)
        BY <2>6, <3>5 DEF OnLink, Requests
      <4>2. x.place < NextPlace(p, z)
        BY <1>7, <4>1, NextPlaceIsBehind
      <4> QED
        BY <1>2, <2>6, <3>5, <4>2 DEF Behind
    <3> QED
      BY <3>3, <3>4, <3>5
  <2> QED
    BY <1>6, <2>3, <2>4, <2>5, <2>6
<1> QED
  BY <1>8, <1>9, <1>13, <1>14 DEF OrderInv

LEMMA ExecuteKeepsOrder ==
    ASSUME OrderInv, NEW p \in Clp, NEW e \in RequestsTo(p), Execute(p, e)
    PROVE  OrderInv'
<1>1. net' = net \ {e} /\ UNCHANGED <<direction, missed>>
  BY DEF Execute
<1>2. Requests' \subseteq Requests /\ Migrations' = Migrations
  BY <1>1 DEF RequestsTo, Requests, Migrations, IsMigration
<1>3. \E b \in Nat : Placed(b)'
  BY <1>1 DEF OrderInv, Placed
<1>4. \A x : Missed(x)' = Missed(x)
  BY <1>1, <1>2 DEF Missed
<1> QED
  BY <1>1, <1>2, <1>3, <1>4, SameTrails

\* The host is on no trail, so the pointer that is turned is none of a trail's.
LEMMA LeavingKeepsOrder ==
    ASSUME TablesAgree, IInv, RouteInv, TypeInv, OrderInv,
           NEW p \in Clp, NEW gvt, SetGvt(p, gvt), MigrateStateVariables(p, gvt)
    PROVE  OrderInv'
<1>1. PICK d \in Port, periods \in CollectEffects(writePeriods[p], gvt) :
        LET to == GetRankFromDirection(p, d) IN
        /\ p \in hosts
        /\ net' = net \cup {Envelope(p, to, NextPlace(p, to),
                              [type |-> "migration", periods |-> periods], 0, {})}
        /\ direction' = [direction EXCEPT ![p] = d]
  BY DEF MigrateStateVariables, PointerTurned
<1>2. PICK g : g = Envelope(p, GetRankFromDirection(p, d),
                     NextPlace(p, GetRankFromDirection(p, d)),
                     [type |-> "migration", periods |-> periods], 0, {})
  OBVIOUS
<1>3. /\ net' = net \cup {g} /\ IsMigration(g)
      /\ g.place = NextPlace(p, GetRankFromDirection(p, d))
  BY <1>1, <1>2 DEF Envelope, IsMigration
<1>4. missed' = missed
  BY DEF SetGvt
<1>5. Requests' = Requests /\ Migrations \subseteq Migrations'
  BY <1>3 DEF Requests, Migrations, IsMigration
<1>6. \E b \in Nat : Placed(b)'
  <2>1. PICK b \in Nat : Placed(b)
    BY DEF OrderInv
  <2>2. g.place \in 1..(b + 1)
    BY <1>3, <2>1, NextPlaceIsBehind
  <2>3. \A x \in net : x.place \in 0..(b + 1)
    BY <2>1 DEF Placed
  <2>4. Placed(b + 1)'
    BY <1>3, <2>2, <2>3 DEF Placed
  <2> QED
    BY <2>1, <2>4
<1>7. direction[p] = HERE /\ direction \in [Clp -> 0..NoDirection]
  BY <1>1 DEF IInv, HereIsHost, Shape
<1>8. ASSUME NEW e \in Requests, ~Missed(e)'
      PROVE  ~Missed(e) /\ \A q \in e.seen : direction'[q] = direction[q]
  <2>1. ~Missed(e)
    BY <1>4, <1>5, <1>8 DEF Missed
  <2>2. OnTrail(e)
    BY <2>1 DEF OrderInv, TrailsLead
  <2>3. ASSUME NEW q \in e.seen PROVE q \in Clp /\ q # p
    <3>1. q \in Clp /\ e.to \in LpRank \ {q} /\ direction[q] = GetDirectionFromRank(q, e.to)
      BY <2>2 DEF OnTrail, TypeInv, Recipients, Requests, LpRank
    <3>2. direction[q] \in Port
      BY <3>1 DEF TablesAgree
    <3>3. HERE \notin Port
      BY DEF HERE, Port, UP, RIGHT
    <3> QED
      BY <1>7, <3>1, <3>2, <3>3
  <2> QED
    BY <1>1, <1>7, <2>1, <2>3
<1> QED
  BY <1>5, <1>6, <1>8, SameTrails

\* What had passed the new host is missed from now on, and all other trails keep
\* clear of it.
LEMMA ArrivingKeepsOrder ==
    ASSUME IInv, OrderInv, NEW p \in Clp, StateMigration(p)
    PROVE  OrderInv'
<1>1. PICK g \in MigrationsTo(p) :
        /\ net' = net \ {g}
        /\ direction' = [direction EXCEPT ![p] = HERE]
        /\ missed' = missed \cup {f.body : f \in {x \in Requests : p \in x.seen}}
  BY DEF StateMigration, PointerTurned
<1>2. g \in Migrations /\ g.to = p
  BY DEF MigrationsTo
<1>3. OnItsWay(g)
  BY <1>2, HistoryOnItsWay DEF IInv
<1>4. Requests' = Requests
  BY <1>1, <1>2 DEF Requests, Migrations, IsMigration
<1>5. \E b \in Nat : Placed(b)'
  BY <1>1 DEF OrderInv, Placed
<1>6. direction \in [Clp -> 0..NoDirection]
  BY DEF IInv, Shape
<1>7. ASSUME NEW e \in Requests, ~Missed(e)'
      PROVE  ~Missed(e) /\ \A q \in e.seen : direction'[q] = direction[q]
  <2>1. e.body \notin missed /\ p \notin e.seen
    BY <1>1, <1>7 DEF Missed
  <2>2. ~Missed(e)
    BY <1>2, <1>3, <2>1 DEF Missed, OnItsWay
  <2>3. e.seen \subseteq Clp
    BY <2>2 DEF OrderInv, TrailsLead, OnTrail
  <2> QED
    BY <1>1, <1>6, <2>1, <2>2, <2>3
<1> QED
  BY <1>4, <1>5, <1>7, SameTrails

LEMMA NextKeepsOrder ==
    ASSUME TablesAgree, LinksCut
    PROVE  IInv /\ HistoryInv /\ RouteInv /\ TypeInv /\ OrderInv /\ [Next]_vars => OrderInv'
<1> SUFFICES ASSUME IInv, HistoryInv, RouteInv, TypeInv, OrderInv, [Next]_vars
             PROVE  OrderInv'
  OBVIOUS
<1>1. ASSUME NEW a \in Agent, NEW t \in Time, NEW type \in {"read", "write"},
             NEW v \in Value \cup {NoValue}, Ask(a, type, t, v)
      PROVE  OrderInv'
  <2>1. Migrations' = Migrations /\ UNCHANGED clpVars
    BY <1>1, AskSends
  <2>2. PICK m : m.n = sent[a] + 1 /\ m.agent = a /\ m.type = type /\ SendsToClp(a, {m}, 1)
    BY <1>1 DEF Ask
  <2>3. sent[a] \in Nat
    BY DEF IInv, Shape
  <2>4. NewBody(m, a, 1)
    BY <2>2, <2>3 DEF NewBody
  <2>5. \A b \in {m} : NewBody(b, a, 1)
    BY <2>4
  <2> QED
    BY <2>1, <2>2, <2>5, SendingKeepsOrder
<1>2. ASSUME NEW a \in Agent, NEW t \in Time, ProcessRollback(a, t)
      PROVE  OrderInv'
  <2>1. Migrations' = Migrations /\ UNCHANGED clpVars
    BY <1>2, RollbackSends
  <2>2. PICK antis, k : antis = AntiMessages(a, Undone(a, t)) /\ k = Cardinality(Undone(a, t))
    OBVIOUS
  <2>3. SendsToClp(a, antis, k)
    BY <1>2, <2>2 DEF ProcessRollback
  <2>4. k \in Nat /\ \A b \in antis : NewBody(b, a, k)
    BY <2>2, AntiMessagesAreNew
  <2> QED
    BY <2>1, <2>3, <2>4, SendingKeepsOrder
<1>3. ASSUME NEW p \in Clp, ReceiveRequest(p)
      PROVE  OrderInv'
  <2>1. PICK e \in RequestsTo(p) : MayArrive(e) /\ (Execute(p, e) \/ Forward(p, e))
    BY <1>3 DEF ReceiveRequest
  <2> QED
    BY <2>1, ExecuteKeepsOrder, ForwardKeepsOrder
<1>4. ASSUME NEW p \in Clp, StateMigration(p)
      PROVE  OrderInv'
  BY <1>4, ArrivingKeepsOrder
<1>5. ASSUME UNCHANGED <<direction, missed, net>>
      PROVE  OrderInv'
  <2>1. Requests' = Requests /\ Migrations' = Migrations
    BY <1>5 DEF Requests, Migrations, IsMigration
  <2>2. \E b \in Nat : Placed(b)'
    BY <1>5 DEF OrderInv, Placed
  <2>3. \A x : Missed(x)' = Missed(x)
    BY <1>5, <2>1 DEF Missed
  <2> QED
    BY <1>5, <2>1, <2>2, <2>3, SameTrails
<1>6. ASSUME NEW p \in Clp, NEW gvt \in GvtTime, SetGvt(p, gvt)
      PROVE  OrderInv'
  <2>1. CASE MigrateStateVariables(p, gvt)
    BY <1>6, <2>1, LeavingKeepsOrder
  <2>2. CASE SetGvtElsewhere(p, gvt) \/ SetGvtAtHost(p, gvt)
    BY <1>5, <1>6, <2>2 DEF SetGvt, SetGvtElsewhere, SetGvtAtHost
  <2> QED
    BY <1>6, <2>1, <2>2 DEF SetGvt
<1>7. CASE UNCHANGED vars
  BY <1>5, <1>7 DEF vars, clpVars
<1> QED
  BY <1>1, <1>2, <1>3, <1>4, <1>6, <1>7 DEF Next

\* A request leaves the network where it is executed: at the host, which is on no
\* trail, and before no request that is in front of it on the link.
LEMMA ExecutedInOrder ==
    ASSUME TablesAgree, IInv, HistoryInv, RouteInv, TypeInv, OrderInv,
           NEW p \in Clp, NEW m \in RequestsTo(p), MayArrive(m), Execute(p, m),
           NEW e \in Requests, Later(m, e)
    PROVE  e.body \in missed
<1>1. SUFFICES ASSUME e.body \notin missed
               PROVE  FALSE
  OBVIOUS
<1>2. direction[p] = HERE /\ p \in hosts
  BY DEF Execute, IInv, HereIsHost
<1>3. Migrations = {}
  BY <1>2, HistoryOfHost DEF IInv, AtHost
<1>4. ~Missed(e)
  BY <1>1, <1>3 DEF Missed
<1>5. OnTrail(e) /\ Behind(m, e)
  BY <1>4 DEF OrderInv, TrailsLead, FollowsBehind, RequestsTo
<1>6. CASE m.to \in e.seen
  <2>1. p \in e.seen /\ e.to \in LpRank \ {p} /\ direction[p] = GetDirectionFromRank(p, e.to)
    BY <1>5, <1>6 DEF OnTrail, RequestsTo, TypeInv, Recipients, Requests, LpRank
  <2>2. direction[p] \in Port
    BY <2>1 DEF TablesAgree
  <2>3. HERE \notin Port
    BY DEF HERE, Port, UP, RIGHT
  <2> QED
    BY <1>2, <2>2, <2>3
<1>7. CASE m.from = e.from /\ m.to = e.to /\ e.place < m.place
  <2>1. e \in OnLink(m.from, m.to) /\ m \in net /\ e \in net /\ ~IsMigration(m)
    BY <1>7 DEF OnLink, RequestsTo, Requests
  <2>2. e.place >= m.place
    BY <2>1 DEF MayArrive
  <2>3. PICK b \in Nat : Placed(b)
    BY DEF OrderInv
  <2>4. e.place \in 0..b /\ m.place \in 0..b
    BY <2>1, <2>3 DEF Placed
  <2> QED
    BY <1>7, <2>2, <2>4
<1> QED
  BY <1>5, <1>6, <1>7 DEF Behind

\* In every tree, and for all agents, values, times and bounds: what is executed
\* before an earlier request of its agent overtakes one that a migration missed
\* (Clp.cpp:482-500).
THEOREM OnlyOvertakenAfterPassing ==
    ASSUME TablesAgree, LinksCut, LeavesOnLowestLevel
    PROVE  Spec => OvertakenOnlyAfterPassing
<1> DEFINE Inv == IInv /\ HistoryInv /\ RouteInv /\ TypeInv /\ OrderInv
           Overtakes == \A m, e \in Requests :
             m.body \notin Pending' /\ e.body.agent = m.body.agent /\ e.body.n < m.body.n
             => e.body \in missed
<1>1. Init => OrderInv
  <2> SUFFICES ASSUME Init PROVE OrderInv
    OBVIOUS
  <2>1. net = {} /\ Requests = {}
    BY DEF Init, Requests
  <2> QED
    BY <2>1 DEF OrderInv, TrailsStart, TrailsLead, FollowsBehind, Placed
<1>2. IInv /\ HistoryInv /\ RouteInv /\ TypeInv /\ OrderInv /\ [Next]_vars => OrderInv'
  BY NextKeepsOrder
<1>3. Inv /\ [Next]_vars => Overtakes
  <2> SUFFICES ASSUME Inv, [Next]_vars, NEW m \in Requests, NEW e \in Requests,
                      m.body \notin Pending', Later(m, e)
               PROVE  e.body \in missed
    BY DEF Later
  <2>1. m.body \in Pending
    BY DEF Pending
  <2>2. ASSUME NEW a \in Agent, NEW t \in Time, NEW type \in {"read", "write"},
               NEW v \in Value \cup {NoValue}, Ask(a, type, t, v)
        PROVE  FALSE
    <3>1. Pending \subseteq Pending'
      BY <2>2, AskSends
    <3> QED
      BY <2>1, <3>1
  <2>3. ASSUME NEW a \in Agent, NEW t \in Time, ProcessRollback(a, t)
        PROVE  FALSE
    <3>1. Pending \subseteq Pending'
      BY <2>3, RollbackSends
    <3> QED
      BY <2>1, <3>1
  <2>4. ASSUME NEW p \in Clp, ReceiveRequest(p)
        PROVE  e.body \in missed
    <3>1. PICK x \in RequestsTo(p) : MayArrive(x) /\ (Execute(p, x) \/ Forward(p, x))
      BY <2>4 DEF ReceiveRequest
    <3>2. \E y : net' = (net \ {x}) \cup y
      BY <3>1 DEF Execute, Forward, Forwarded
    <3>3. x = m
      <4>1. m \in net /\ m \notin net'
        BY DEF Requests, Pending, IsMigration
      <4> QED
        BY <3>2, <4>1
    <3>4. ~Forward(p, m)
      <4>1. SUFFICES ASSUME Forward(p, m) PROVE FALSE
        OBVIOUS
      <4>2. PICK to : net' = (net \ {m}) \cup {OneHopOn(p, m, to)}
        BY <4>1 DEF Forward, Forwarded
      <4>3. OneHopOn(p, m, to) \in net' /\ OneHopOn(p, m, to).body = m.body
        BY <4>2 DEF OneHopOn, Envelope
      <4> QED
        BY <4>3 DEF Requests, Pending, IsMigration
    <3> QED
      BY <3>1, <3>3, <3>4, ExecutedInOrder
  <2>5. ASSUME NEW p \in Clp, StateMigration(p)
        PROVE  FALSE
    <3>1. PICK g \in Migrations : net' = net \ {g}
      BY <2>5 DEF StateMigration, MigrationsTo
    <3>2. Requests' = Requests
      BY <3>1 DEF Requests, Migrations, IsMigration
    <3> QED
      BY <2>1, <3>2 DEF Pending
  <2>6. ASSUME NEW p \in Clp, NEW gvt \in GvtTime, SetGvt(p, gvt)
        PROVE  FALSE
    <3>1. net \subseteq net'
      BY <2>6 DEF SetGvt, SetGvtElsewhere, SetGvtAtHost, MigrateStateVariables
    <3> QED
      BY <3>1 DEF Requests, Pending, IsMigration
  <2>7. CASE UNCHANGED vars
    BY <2>1, <2>7 DEF vars, Requests, Pending, IsMigration
  <2> QED
    BY <2>2, <2>3, <2>4, <2>5, <2>6, <2>7 DEF Next
<1>4. Spec => [][Overtakes]_vars
  BY <1>1, <1>2, <1>3, TypeSound, PTL DEF Spec
<1> QED
  BY <1>4 DEF OvertakenOnlyAfterPassing
=============================================================================
