------------------------------ MODULE MCServer -------------------------------
(* The Update Center, the screen that shows it and billing, which share     *)
(* nothing that the models keep, checked in one run: a behaviour is one of  *)
(* one component, chosen in the initial state.                              *)
EXTENDS MCUpdateCenter, MCBilling, UpdateScreen

VARIABLE part

serverVars == <<part, vars, billingVars, screenVars>>

\* A component with several initial states has them in its own behaviours.
ServerInit ==
    /\ part \in {"center", "billing", "screen"}
    /\ Init /\ BillingInit /\ ScreenInit
    /\ part = "billing" \/ terms = CHOOSE a \in Agreements : TRUE

ServerNext ==
    /\ \/ part = "center" /\ Next /\ UNCHANGED <<billingVars, screenVars>>
       \/ part = "billing" /\ BillingNext /\ UNCHANGED <<vars, screenVars>>
       \/ part = "screen" /\ ScreenNext /\ UNCHANGED <<vars, billingVars>>
    /\ UNCHANGED part

ServerSpec == ServerInit /\ [][ServerNext]_serverVars

ServerSymmetry == CenterSymmetry \cup BillingSymmetry

\* The rows of update runs and of a subscription hold what their columns allow,
\* whatever the agent answered or a request read before it got the lock, and
\* the screen's stores are about runs that were requested.
ServerTypeOK == CenterTypeOK /\ BillingTypeOK /\ ScreenTypeOK
=============================================================================
