---------------------------- MODULE RetryBudget ----------------------------
(***************************************************************************)
(* What the workflow service promises about the user code it calls: the    *)
(* attempts of a run come one after the other, never two at a time, never  *)
(* more than Budget, and none after the run has been given up.  The death  *)
(* of the process ends the attempts in flight and gives their runs up.     *)
(***************************************************************************)
EXTENDS Naturals

CONSTANTS Runs, Budget

VARIABLES begun,     \* how many attempts of each run have begun
          inFlight,  \* the runs with an attempt executing
          over       \* the runs with no attempt to come

Init ==
    /\ begun = [r \in Runs |-> 0]
    /\ inFlight = {}
    /\ over = {}

Begin(r) ==
    /\ r \notin over \cup inFlight
    /\ begun[r] < Budget
    /\ begun' = [begun EXCEPT ![r] = @ + 1]
    /\ inFlight' = inFlight \cup {r}
    /\ over' = over

End(r) ==
    /\ r \in inFlight
    /\ inFlight' = inFlight \ {r}
    /\ UNCHANGED <<begun, over>>

GiveUp(r) ==
    /\ r \notin inFlight
    /\ over' = over \cup {r}
    /\ UNCHANGED <<begun, inFlight>>

Death ==
    /\ inFlight' = {}
    /\ over' \in SUBSET Runs
    /\ over \cup inFlight \subseteq over'
    /\ begun' = begun

Next == Death \/ \E r \in Runs : Begin(r) \/ End(r) \/ GiveUp(r)

Spec == Init /\ [][Next]_<<begun, inFlight, over>>
=============================================================================
