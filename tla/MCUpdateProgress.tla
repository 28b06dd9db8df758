-------------------------- MODULE MCUpdateProgress ---------------------------
(* Liveness of the update agent and of the screen that shows its runs,     *)
(* which share nothing that the models keep, in one run: a behaviour is    *)
(* one of either, chosen in the initial state.  The part that was not      *)
(* chosen is in a state in which none of its fair actions is enabled, so   *)
(* that fairness asks nothing of it.                                       *)
EXTENDS MCUpdateAgent, UpdateScreen

VARIABLE part

updateProgressVars == <<part, vars, screenVars>>

\* One agent process serves, every other was launched and is about to be
\* refused the lock; nothing has been requested.
AgentServes ==
    /\ LET p == CHOOSE p \in Procs : TRUE
       IN proc = [q \in Procs |-> IF q = p THEN "serving" ELSE "launched"]
    /\ jobs = [k \in Keys |-> NoJob] /\ version = InitialVersion
    /\ reqs = [r \in Reqs |-> IdleReq] /\ worker = [k \in Keys |-> NoWorker]
    /\ desired = InitialVersion /\ running = InitialVersion
    /\ orphans = {} /\ backups = {} /\ touched = {} /\ stops = 0

UpdateProgressInit ==
    /\ ScreenInit
    /\ \/ part = "agent" /\ Init
       \/ part = "screen" /\ AgentServes

UpdateProgressNext ==
    /\ \/ part = "agent" /\ Next /\ UNCHANGED screenVars
       \/ part = "screen" /\ ScreenNext /\ UNCHANGED vars
    /\ UNCHANGED part

UpdateProgressSpec ==
    UpdateProgressInit /\ [][UpdateProgressNext]_updateProgressVars /\ Fairness /\ ScreenFairness
=============================================================================
