-------------------------------- MODULE Setup --------------------------------
(***************************************************************************)
(* The first-run setup: the status query by which the root layout chooses  *)
(* between the wizard and the login page (components/layout/AppLayout),    *)
(* the wizard with its test e-mail (pages/Setup, features/setup) and the   *)
(* endpoint that creates the first administrator and workspace under a row *)
(* lock (onboarding/api/setup.py).  Other clients may post a setup too.    *)
(*                                                                         *)
(* The fields are those a step validates and the test e-mail is made of:   *)
(* token stands for the fields of the first step, smtp for the settings    *)
(* and the recipient of the third, "blank" for what the schema refuses.    *)
(***************************************************************************)
EXTENDS Naturals, FiniteSets

CONSTANT MaxPosts   \* bound: setups that are posted, by the wizard or others

ASSUME SetupAssumption == MaxPosts \in Nat

VARIABLES
    setupStatus,  \* the query of useSetupStatus: its data, error and request
    form, step,   \* the wizard: react-hook-form's values and the step shown
    setup,        \* the mutation of useCompleteSetup
    emailTest,    \* the mutation of useTestSmtpConnection, and what it tests
    post,         \* the setups posted: who waits for the answer, and the server
    installed     \* what the setups that were committed created

setupVars == <<setupStatus, form, step, setup, emailTest, post, installed>>
wizard == <<form, step, setup, emailTest>>

Posts == 1..MaxPosts
lastStep == 3
setupDefaults == [token |-> "blank", workspace |-> "blank", enabled |-> FALSE, smtp |-> "blank"]
Form == [token : {"blank", "wrong", "right"}, workspace : {"blank", "given"},
         enabled : BOOLEAN, smtp : {"blank", "given"}]
Payload == [token : {"wrong", "right"}, smtp : {"none", "given"}]
NoTest == [at |-> "idle", token |-> "blank", smtp |-> "blank"]
\* waits: the wizard that posted it is shown and pending; "gone": that wizard
\* was unmounted; "nobody": another client, or a wizard that got no answer.
Unposted == [at |-> "unposted", waits |-> "nobody",
             values |-> [token |-> "wrong", smtp |-> "none"]]
Over == [Unposted EXCEPT !.at = "over"]
IsNext(p) == post[p].at = "unposted" /\ \A q \in 1..(p - 1) : post[q].at # "unposted"

SetupTypeOK ==
    /\ setupStatus \in [data : {"none", "available", "done"}, error : BOOLEAN,
                        request : {"none", "asked", "available", "done", "lost"}]
    /\ form \in Form /\ step \in 0..lastStep
    /\ setup \in {"idle", "pending", "error", "success"}
    /\ emailTest \in [at : {"idle", "pending", "sent", "failed"},
                      token : {"blank", "wrong", "right"}, smtp : {"blank", "given"}]
    /\ post \in [Posts -> [at : {"unposted", "sent", "locked", "created", "refused", "over"},
                           waits : {"wizard", "gone", "nobody"}, values : Payload]]
    /\ installed \subseteq Payload \X Posts

SetupInit ==
    /\ setupStatus = [data |-> "none", error |-> FALSE, request |-> "asked"]
    /\ form = setupDefaults /\ step = 0 /\ setup = "idle" /\ emailTest = NoTest
    /\ post = [p \in Posts |-> Unposted]
    /\ installed = {}

-----------------------------------------------------------------------------
(* The status query and the root layout.                                   *)

setup_available == installed = {}

SetupShown == setupStatus.data = "available" /\ ~setupStatus.error

\* Whatever takes the wizard off the page takes its values with it; what it
\* has posted goes on, and completes without it.
LayoutFollows(status) ==
    /\ setupStatus' = status
    /\ IF status.data = "available" /\ ~status.error
         THEN UNCHANGED <<wizard, post>>
         ELSE /\ form' = setupDefaults /\ step' = 0 /\ setup' = "idle" /\ emailTest' = NoTest
              /\ post' = [p \in Posts |-> IF post[p].waits = "wizard"
                                          THEN [post[p] EXCEPT !.waits = "gone"] ELSE post[p]]

SetupStatusIsRead ==
    /\ setupStatus.request = "asked"
    /\ setupStatus' = [setupStatus EXCEPT !.request = IF setup_available THEN "available" ELSE "done"]
    /\ UNCHANGED <<wizard, post, installed>>

SetupStatusArrives ==
    /\ setupStatus.request \in {"available", "done"}
    /\ LayoutFollows([data |-> setupStatus.request, error |-> FALSE, request |-> "none"])
    /\ UNCHANGED installed

\* The query does not retry.  With data or without, the page is the failure.
SetupStatusFails ==
    /\ setupStatus.request # "none"
    /\ LayoutFollows([setupStatus EXCEPT !.error = TRUE, !.request = "none"])
    /\ UNCHANGED installed

\* Retry on the failure page, and the refetch of a stale query when the window
\* is focused.  Without data the query is pending again.
SetupStatusRefetches ==
    /\ setupStatus.request = "none"
    /\ LayoutFollows([setupStatus EXCEPT !.request = "asked",
                                         !.error = @ /\ setupStatus.data # "none"])
    /\ UNCHANGED installed

-----------------------------------------------------------------------------
(* The wizard.                                                             *)

StepIsValid(s) ==
    CASE s = 0 -> form.token # "blank"
      [] s = 1 -> form.workspace # "blank"
      [] s = 2 -> form.enabled => form.smtp # "blank"
      [] OTHER -> TRUE
setupSchema == \A s \in 0..2 : StepIsValid(s)

\* Mutant: only the result of an answered test is reset.
resetTest_Answered == emailTest' = IF emailTest.at = "pending" THEN emailTest ELSE NoTest

resetTest == emailTest' = NoTest

AdminStep ==
    /\ SetupShown /\ step = 0
    /\ \E token \in {"blank", "wrong", "right"} \ {form.token} : form' = [form EXCEPT !.token = token]
    /\ resetTest
    /\ UNCHANGED <<setupStatus, step, setup, post, installed>>

WorkspaceStep ==
    /\ SetupShown /\ step = 1
    /\ \E name \in {"blank", "given"} \ {form.workspace} : form' = [form EXCEPT !.workspace = name]
    /\ UNCHANGED <<setupStatus, step, setup, emailTest, post, installed>>

EmailStep ==
    /\ SetupShown /\ step = 2
    /\ \/ form' = [form EXCEPT !.enabled = ~@]
       \/ /\ form.enabled
          /\ \E s \in {"blank", "given"} \ {form.smtp} : form' = [form EXCEPT !.smtp = s]
    /\ resetTest
    /\ UNCHANGED <<setupStatus, step, setup, post, installed>>

next ==
    /\ SetupShown /\ step < lastStep /\ setup # "pending"
    /\ StepIsValid(step)
    /\ step' = step + 1
    /\ UNCHANGED <<setupStatus, form, setup, emailTest, post, installed>>

Skip ==
    /\ SetupShown /\ step = 2 /\ ~form.enabled
    /\ step' = lastStep
    /\ UNCHANGED <<setupStatus, form, setup, emailTest, post, installed>>

\* Mutant: the back button is not disabled on the first step.
Back_FromFirst ==
    /\ SetupShown /\ setup # "pending"
    /\ step' = step - 1
    /\ UNCHANGED <<setupStatus, form, setup, emailTest, post, installed>>

Back ==
    /\ SetupShown /\ step > 0 /\ setup # "pending"
    /\ step' = step - 1
    /\ UNCHANGED <<setupStatus, form, setup, emailTest, post, installed>>

sendTestEmail ==
    /\ SetupShown /\ step = 2 /\ form.enabled /\ emailTest.at # "pending"
    /\ form.smtp # "blank"
    /\ emailTest' = [at |-> "pending", token |-> form.token, smtp |-> form.smtp]
    /\ UNCHANGED <<setupStatus, form, step, setup, post, installed>>

\* The test endpoint asks for the token and an installation that is not set
\* up; then the mail server decides.  A test that was reset has no observer.
TestAnswers ==
    /\ emailTest.at = "pending"
    /\ \/ emailTest' = [emailTest EXCEPT !.at = "failed"]
       \/ /\ setup_available /\ emailTest.token = "right"
          /\ emailTest' = [emailTest EXCEPT !.at = "sent"]
    /\ UNCHANGED <<setupStatus, form, step, setup, post, installed>>

payload == [token |-> form.token, smtp |-> IF form.enabled THEN form.smtp ELSE "none"]

complete(p) ==
    /\ SetupShown /\ step = lastStep /\ setup # "pending"
    /\ setupSchema
    /\ IsNext(p)
    /\ post' = [post EXCEPT ![p] = [at |-> "sent", waits |-> "wizard", values |-> payload]]
    /\ setup' = "pending"
    /\ UNCHANGED <<setupStatus, form, step, emailTest, installed>>

\* The closure of complete outlives its wizard: onComplete refetches the status,
\* which cancels the request under way.  The form stays as it was.
Completed(p) ==
    /\ post[p].at = "created"
    /\ post' = [post EXCEPT ![p] = Over]
    /\ setup' = IF post[p].waits = "wizard" THEN "success" ELSE setup
    /\ setupStatus' = IF post[p].waits = "nobody" THEN setupStatus
                      ELSE [setupStatus EXCEPT !.request = "asked"]
    /\ UNCHANGED <<form, step, emailTest, installed>>

CompleteFails(p) ==
    /\ \/ post[p].at = "refused" /\ post' = [post EXCEPT ![p] = Over]
       \/ \* no answer: the server may still be at it
          /\ post[p].at \in {"sent", "locked", "created"} /\ post[p].waits # "nobody"
          /\ post' = [post EXCEPT ![p].waits = "nobody"]
    /\ setup' = IF post[p].waits = "wizard" THEN "error" ELSE setup
    /\ UNCHANGED <<setupStatus, form, step, emailTest, installed>>

-----------------------------------------------------------------------------
(* The server.                                                             *)

PostedElsewhere(p) ==
    /\ IsNext(p)
    /\ post' = [post EXCEPT ![p] = [at |-> "sent", waits |-> "nobody",
                                    values |-> [token |-> "right", smtp |-> "none"]]]
    /\ UNCHANGED <<setupStatus, wizard, installed>>

\* Mutant: the installation's row is read without a lock.
RowIsFree_Always == TRUE

RowIsFree == \A p \in Posts : post[p].at # "locked"

\* select_for_update of the installation's row, then setup_access_error and
\* the serializer, which may refuse what the wizard's schema let through.
Locks(p) ==
    /\ post[p].at = "sent" /\ RowIsFree
    /\ \E valid \in BOOLEAN :
         post' = [post EXCEPT ![p].at =
             IF setup_available /\ post[p].values.token = "right" /\ valid THEN "locked" ELSE "refused"]
    /\ UNCHANGED <<setupStatus, wizard, installed>>

\* The end of the transaction, or its failure.
Commits(p) ==
    /\ post[p].at = "locked"
    /\ \/ /\ installed' = installed \cup {<<post[p].values, p>>}
          /\ post' = [post EXCEPT ![p].at = "created"]
       \/ /\ post' = [post EXCEPT ![p].at = "refused"]
          /\ UNCHANGED installed
    /\ UNCHANGED <<setupStatus, wizard>>

SetupNext ==
    \/ SetupStatusIsRead \/ SetupStatusArrives \/ SetupStatusFails \/ SetupStatusRefetches
    \/ AdminStep \/ WorkspaceStep \/ EmailStep \/ next \/ Skip \/ Back
    \/ sendTestEmail \/ TestAnswers
    \/ \E p \in Posts : complete(p) \/ Completed(p) \/ CompleteFails(p)
                        \/ PostedElsewhere(p) \/ Locks(p) \/ Commits(p)

SetupSpec == SetupInit /\ [][SetupNext]_setupVars

-----------------------------------------------------------------------------
(* What makes it correct.                                                  *)

\* Whatever setups are posted at once, retried after a lost answer or sent by
\* others, one of them creates the administrator and the workspace.
OneInstallation == Cardinality(installed) <= 1

\* The test e-mail that the wizard reports as sent was sent with the settings
\* and the token that the form holds: an answer to a test of former settings,
\* or a change made while a test is under way, is never reported.
TestShownIsOfTheSettings ==
    (SetupShown /\ emailTest.at = "sent") =>
        form.enabled /\ emailTest.smtp = form.smtp /\ emailTest.token = form.token
=============================================================================
