------------------------------ MODULE Delivery ------------------------------
(***************************************************************************)
(* What the outbox promises of each event, without rows, workers or        *)
(* claims: an accepted event waits until its handlers complete, which      *)
(* happens at most once, or until it is given up and parked; a parked      *)
(* event waits again when an operator asks for it.                         *)
(***************************************************************************)
EXTENDS Naturals

CONSTANT Events

VARIABLES
    state,      \* where each event stands
    effects     \* how often its handlers completed

vars == <<state, effects>>

Init ==
    /\ state = [e \in Events |-> "none"]
    /\ effects = [e \in Events |-> 0]

Accept(e) ==
    /\ state[e] = "none"
    /\ state' = [state EXCEPT ![e] = "waiting"]
    /\ UNCHANGED effects

Deliver(e) ==
    /\ state[e] = "waiting"
    /\ state' = [state EXCEPT ![e] = "done"]
    /\ effects' = [effects EXCEPT ![e] = @ + 1]

Park(e) ==
    /\ state[e] = "waiting"
    /\ state' = [state EXCEPT ![e] = "parked"]
    /\ UNCHANGED effects

Unpark(e) ==
    /\ state[e] = "parked"
    /\ state' = [state EXCEPT ![e] = "waiting"]
    /\ UNCHANGED effects

Next == \E e \in Events : Accept(e) \/ Deliver(e) \/ Park(e) \/ Unpark(e)

Spec == Init /\ [][Next]_vars

\* An event that keeps waiting is delivered or given up.
FairSpec == Spec /\ \A e \in Events : WF_vars(Deliver(e) \/ Park(e))

=============================================================================
