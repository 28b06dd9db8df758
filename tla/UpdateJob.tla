------------------------------ MODULE UpdateJob ------------------------------
(***************************************************************************)
(* What the update agent promises its clients about jobs, and all the CRM  *)
(* relies on: a key names at most one job, for one target, forever; at     *)
(* most one job is active; an active job only moves forward through its    *)
(* phases; it fails plainly only before deployment and succeeds only from  *)
(* verification; a terminal job never changes again.                       *)
(*                                                                         *)
(* UpdateAgent implements this specification, UpdateCenter is checked      *)
(* against it.                                                             *)
(***************************************************************************)
EXTENDS Naturals

CONSTANTS Keys, Versions, InitialVersion

VARIABLES
    state,     \* of the job of each key, NONE where there is no job
    target     \* the version the job installs

jobVars == <<state, target>>

\* The phases in the order _run_job goes through them.
PhaseOrder == [REQUESTED |-> 0, PREFLIGHT |-> 1, BACKING_UP |-> 2,
               DEPLOYING |-> 3, VERIFYING |-> 4]

ActivePhases == DOMAIN PhaseOrder
Outcomes == {"SUCCEEDED", "FAILED", "MANUAL_INTERVENTION"}

JobInit ==
    /\ state = [k \in Keys |-> "NONE"]
    /\ target = [k \in Keys |-> InitialVersion]

Accept(k, t) ==
    /\ state[k] = "NONE"
    /\ \A j \in Keys : state[j] \notin ActivePhases
    /\ state' = [state EXCEPT ![k] = "REQUESTED"]
    /\ target' = [target EXCEPT ![k] = t]

Advance(k) ==
    /\ state[k] \in ActivePhases
    /\ \E s \in ActivePhases :
         /\ PhaseOrder[s] = PhaseOrder[state[k]] + 1
         /\ state' = [state EXCEPT ![k] = s]
    /\ UNCHANGED target

Succeed(k) ==
    /\ state[k] = "VERIFYING"
    /\ state' = [state EXCEPT ![k] = "SUCCEEDED"]
    /\ UNCHANGED target

Fail(k) ==
    /\ state[k] \in {"REQUESTED", "PREFLIGHT", "BACKING_UP"}
    /\ state' = [state EXCEPT ![k] = "FAILED"]
    /\ UNCHANGED target

\* A failure after deployment began, or a restart in any phase.
NeedOperator(k) ==
    /\ state[k] \in ActivePhases
    /\ state' = [state EXCEPT ![k] = "MANUAL_INTERVENTION"]
    /\ UNCHANGED target

JobNext ==
    \E k \in Keys :
        \/ \E t \in Versions : Accept(k, t)
        \/ Advance(k) \/ Succeed(k) \/ Fail(k) \/ NeedOperator(k)

JobSpec == JobInit /\ [][JobNext]_jobVars
=============================================================================
