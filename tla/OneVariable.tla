---------------------------- MODULE OneVariable ----------------------------
(***************************************************************************)
(* What a distributed shared state variable promises: one history, to      *)
(* which every request that is submitted is applied at most once, in some  *)
(* order, as one step.  Nothing here moves, and nothing is routed.  What a *)
(* request makes of a history is not this module's business.               *)
(***************************************************************************)
CONSTANTS
    InitialPeriods,        \* the history the variable starts with
    GvtTime,
    Effects(_, _, _),      \* what a request makes of a history at a GVT
    CollectEffects(_, _),  \* what fossil collection makes of it
    Inserted(_)            \* a copy of it, the readers of which are forgotten

VARIABLES
    history,    \* the write periods
    submitted,  \* the requests made so far
    pending     \* those of them that are not applied yet

vars == <<history, submitted, pending>>

Init ==
    /\ history = InitialPeriods
    /\ submitted = {}
    /\ pending = {}

\* New requests; a rollback retracts several earlier ones at once.
Submit ==
    /\ submitted \subseteq submitted'
    /\ pending' = pending \cup (submitted' \ submitted)
    /\ UNCHANGED history

\* A request is applied, by a CLP whose GVT is gvt.
Apply(m, gvt) ==
    /\ m \in pending
    /\ pending' = pending \ {m}
    /\ \E e \in Effects(history, m, gvt) : history' = e.periods
    /\ UNCHANGED submitted

\* Fossil collection.
Collect(gvt) ==
    /\ history' \in CollectEffects(history, gvt)
    /\ UNCHANGED <<submitted, pending>>

\* The writes stay, the record of who read them is lost.
ForgetReaders ==
    /\ history' = Inserted(history)
    /\ UNCHANGED <<submitted, pending>>

Next ==
    \/ Submit
    \/ \E m \in pending, gvt \in GvtTime : Apply(m, gvt)
    \/ \E gvt \in GvtTime : Collect(gvt)
    \/ ForgetReaders

Spec == Init /\ [][Next]_vars
=============================================================================
