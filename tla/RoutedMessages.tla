--------------------------- MODULE RoutedMessages ---------------------------
(***************************************************************************)
(* A message on its way (lp/Clp.cpp Send and Receive, routing/Router.cpp,  *)
(* lp/SendThread.cpp, lp/ReceiveThread.cpp).  An answer or a rollback goes *)
(* from a CLP to its agent's ALP, a request from an ALP to the CLP of its  *)
(* variable, which does not move here; each CLP looks up where the message *)
(* goes next, by what it reads in it, and nobody checks that it gets       *)
(* nearer.  The other messages go straight to their destination.  At every *)
(* hop the message is stamped with the sender's Mattern colour, printed    *)
(* and made again from the text.                                           *)
(***************************************************************************)
EXTENDS Routing, WireFormat

CONSTANTS
    Host,      \* [the shared state variables -> their CLP]
    Messages   \* messages to send; whom they are from and to is filled in

VARIABLES
    message,   \* the message, as the LP has it that it has come to
    at,        \* that LP
    sent,      \* history: the message as it was sent, in its present colour
    origin,    \* history: the LP that sent it
    target     \* history: the LP it is for

vars == <<message, at, sent, origin, target>>

Requests == {"SINGLEREADMESSAGE", "SINGLEREADANTIMESSAGE", "WRITEMESSAGE", "WRITEANTIMESSAGE"}
Responses == {"SINGLEREADRESPONSEMESSAGE", "WRITERESPONSEMESSAGE", "ROLLBACKMESSAGE"}

\* m with other values in the fields that it has.
Filled(m, values) ==
    [m EXCEPT !.fields = [f \in DOMAIN @ |-> IF f \in DOMAIN values THEN values[f] ELSE @[f]]]

Word(n) == ToString(n)

\* As a colour is printed (MatternColour.h).
WHITE == Word(1)
RED == Word(0)
AgentAt(r) == [id |-> Word(r), rank |-> Word(r)]

Sends(m, r, s, values) ==
    /\ message = Filled(m, [fOrigin |-> Word(r), fDestination |-> Word(s),
                            fNumberOfHops |-> Word(0)] @@ values)
    /\ at = r /\ origin = r /\ target = s /\ sent = message

Init ==
    \E m \in Messages :
      \/ /\ m.type \in Responses
         /\ \E r \in Clp, s \in Alps : Sends(m, r, s, [original_agent_ |-> AgentAt(s)])
      \/ /\ m.type \in Requests
         /\ \E r \in Alps, x \in DOMAIN Host :
              Sends(m, r, Host[x], [original_agent_ |-> AgentAt(r), fSsvId |-> x])
      \/ /\ m.type \notin Requests \cup Responses
         /\ \E r \in Clp, s \in LpRank \ {0} : r = 0 /\ Sends(m, r, s, <<>>)

\* PreProcessSendMessage: a simulation message takes the colour of the LP that
\* sends it on, but for the anti-message of a range query at a CLP.
Stamped(m, colour) ==
    IF m.type = "RANGEQUERYANTIMESSAGE" /\ at \in Clp
    THEN m
    ELSE Filled(m, [fMatternColour |-> colour])

\* Send and Receive: r gets what can be read in the text of the message.
Exchanged(m, r) == Deserialise(Serialise(Filled(m, [fDestination |-> Word(r)])))

\* Mutant: the hop from the ALP is not counted.
CountedHopOfClps(m) ==
    IF "fNumberOfHops" \in DOMAIN m.fields /\ at \in Clp
    THEN Filled(m, [fNumberOfHops |-> Word(Number(m.fields.fNumberOfHops) + 1)])
    ELSE m

\* IncrementNumberOfHops, by the CLP that has received the message.
CountedHop(m) ==
    IF "fNumberOfHops" \in DOMAIN m.fields
    THEN Filled(m, [fNumberOfHops |-> Word(Number(m.fields.fNumberOfHops) + 1)])
    ELSE m

MovesTo(r) == \E colour \in {WHITE, RED} :
    LET read == Exchanged(Stamped(message, colour), r) IN
    /\ at' = r
    /\ message' = IF r \in Clp THEN CountedHop(read) ELSE read
    /\ sent' = Stamped(sent, colour)
    /\ UNCHANGED <<origin, target>>

\* Router::Route by the rank of the agent.
RouteToAgent ==
    /\ message.type \in Responses /\ at \in Clp
    /\ LET rank == Number(message.fields.original_agent_.rank)
       IN  MovesTo(GetRankFromDirection(at, GetDirectionFromRank(at, rank)))

\* An ALP sends to its parent CLP.
SendToParentClp ==
    /\ message.type \in Requests /\ at \in Alps
    /\ MovesTo(AlpParent[at])

\* Router::Route by the variable, at a CLP that is not its host.
RouteToSsv ==
    /\ message.type \in Requests /\ at \in Clp
    /\ LET direction == SsvDirection(at, Host[message.fields.fSsvId])
       IN  /\ direction # HERE
           /\ MovesTo(GetRankFromDirection(at, direction))

\* What is sent to a rank: control messages, range queries and updates, migrations.
SendToDestination ==
    /\ message.type \notin Requests \cup Responses
    /\ at = origin
    /\ MovesTo(Number(message.fields.fDestination))

Next == RouteToAgent \/ SendToParentClp \/ RouteToSsv \/ SendToDestination

\* ENABLED Next, and WF_vars(Next) in terms of it: every step moves the message.
CanMove ==
    CASE message.type \in Responses -> at \in Clp
      [] message.type \in Requests -> at \in Alps \/ SsvDirection(at, Host[message.fields.fSsvId]) # HERE
      [] OTHER -> at = origin

Fairness == []<>(~CanMove) \/ []<><<at' # at>>_vars

Spec == Init /\ [][Next]_vars /\ Fairness

-----------------------------------------------------------------------------
(***************************************************************************)
(* Properties, against the tree itself and the message that was sent.      *)
(***************************************************************************)
\* r and the LPs above it.
PathUp == LET path[r \in Nat] == IF r = 0 THEN {0} ELSE {r} \cup path[Parent(r)]
          IN  [r \in LpRank |-> IF r \in Alps THEN {r} \cup path[AlpParent[r]]
                                              ELSE path[r]]

Distance == [r, s \in LpRank |-> Cardinality((PathUp[r] \ PathUp[s])
                                               \cup (PathUp[s] \ PathUp[r]))]

\* The hops a request has counted are the CLPs between its agent and here, which
\* is what the access cost of the variable is computed from.
HopsAreDistance ==
    message.type \in Requests => message.fields.fNumberOfHops = Word(Distance[origin, at])

\* Whatever its class, a message that has plain values says at every LP what it said
\* when it was sent, and has the colour that it was last stamped with (Lp.cpp:29); only
\* its destination and its hops are counted or set on the way.  Every reader leaves the
\* text where the next one expects it (WritePeriod.cpp:141 puts back what it has read
\* too far).
ArrivesUnchanged ==
    HasPlainValues(sent) =>
      \A f \in DOMAIN sent.fields \ {"fDestination", "fNumberOfHops"} :
        message.fields[f] = sent.fields[f]

\* The message gets there.
Arrives == <>(at = target)
=============================================================================
