----------------------------- MODULE MCProgress ------------------------------
(* Liveness of the Update Center and the outbox, which share nothing, in    *)
(* one run: a behaviour is one of either component, chosen in the initial   *)
(* state.  Fairness asks nothing of the component that was not chosen: none *)
(* of its actions can change its initial state.                             *)
EXTENDS MCUpdateCenter, MCOutbox

VARIABLE component

progressVars == <<component, vars, outboxVars>>

ProgressInit == component \in {"center", "outbox"} /\ Init /\ OutboxInit

ProgressNext ==
    /\ \/ component = "center" /\ Next /\ UNCHANGED outboxVars
       \/ component = "outbox" /\ OutboxNext /\ UNCHANGED vars
    /\ UNCHANGED component

ProgressSpec ==
    ProgressInit /\ [][ProgressNext]_progressVars /\ Fairness /\ OutboxFairness
=============================================================================
