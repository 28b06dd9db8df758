---------------------------- MODULE UpdateCenter -----------------------------
(***************************************************************************)
(* The CRM's Update Center (onboarding/services/update_orchestration.py,   *)
(* update_agent.py and api/update_center.py): the InstallationUpdateRun    *)
(* rows and the Django request handlers that start, resume and poll them.  *)
(*                                                                         *)
(* The agent is the one of UpdateJob: this module adds the HTTP calls in   *)
(* between.  A start request may be served long after its caller's timeout *)
(* (settings.BUBLLIO_UPDATE_AGENT_TIMEOUT, 5 s, against the agent's        *)
(* download and its 30 s Compose check).  The deployment of a job replaces *)
(* the CRM itself and ends every handler.                                  *)
(*                                                                         *)
(* A handler works on its own copy of the row, read without a lock.  The   *)
(* rows of the audit trail, progress, labels and failure texts are written *)
(* with the status and are left out.                                       *)
(***************************************************************************)
EXTENDS UpdateJob, FiniteSets

CONSTANTS
    Handlers,     \* concurrent Django requests
    Policy,       \* migration_policy in the manifest of each version
    MaxRestarts   \* bound: CRM crashes other than the deployments

ASSUME CenterAssumption ==
    /\ Versions \subseteq Nat
    /\ InitialVersion \in Versions
    /\ Policy \in [Versions -> {"online_safe", "maintenance", "irreversible"}]
    /\ MaxRestarts \in Nat

VARIABLES
    runs,      \* InstallationUpdateRun rows, by idempotency key
    handler,   \* the request handlers
    inflight,  \* start requests the agent has yet to serve
    crm,       \* current_version() of the CRM that runs
    restarts   \* crashes so far

centerVars == <<runs, handler, crm, restarts>>
vars == <<jobVars, inflight, centerVars>>

ACTIVE_STATUSES == {"requested", "preflight", "backing_up", "deploying", "verifying"}
TERMINAL_STATUSES == {"succeeded", "failed", "manual_intervention"}

\* Mutant: a status taken over as the agent spells it.
Lower_AsSent ==
    [REQUESTED |-> "requested", PREFLIGHT |-> "preflight",
     BACKING_UP |-> "backing_up", DEPLOYING |-> "deploying",
     VERIFYING |-> "verifying", SUCCEEDED |-> "succeeded",
     FAILED |-> "failed", MANUAL_INTERVENTION |-> "MANUAL_INTERVENTION"]

\* The agent's state names in lower case: status.lower() in sync_update_run.
Lower == [REQUESTED |-> "requested", PREFLIGHT |-> "preflight",
          BACKING_UP |-> "backing_up", DEPLOYING |-> "deploying",
          VERIFYING |-> "verifying", SUCCEEDED |-> "succeeded",
          FAILED |-> "failed", MANUAL_INTERVENTION |-> "manual_intervention"]

\* acked: agent_job_id is set.  The agent's job of key k is the only one whose
\* id a run with key k can be given.
Run == [status : ACTIVE_STATUSES \cup TERMINAL_STATUSES \cup {"none"},
        target : Versions, acked : BOOLEAN]
NoRun == [status |-> "none", target |-> InitialVersion, acked |-> FALSE]

HandlerPCs == {"idle", "insert", "mark", "preflight", "send", "waiting",
               "poll", "save"}
Replies == {"none", "accepted", "rejected"} \cup ActivePhases \cup Outcomes

Handler == [pc : HandlerPCs, key : Keys \cup {"none"}, run : Run,
            resume : BOOLEAN, reply : Replies]
Idle == [pc |-> "idle", key |-> "none", run |-> NoRun, resume |-> FALSE,
         reply |-> "none"]

\* A start request: its caller, or "none" once the caller has given up.
Message == [by : Handlers \cup {"none"}, key : Keys, target : Versions]

ActiveRun(k) == runs[k].status \in ACTIVE_STATUSES

CenterTypeOK ==
    /\ state \in [Keys -> ActivePhases \cup Outcomes \cup {"NONE"}]
    /\ target \in [Keys -> Versions]
    /\ runs \in [Keys -> Run]
    /\ handler \in [Handlers -> Handler]
    /\ inflight \subseteq Message
    /\ crm \in Versions
    /\ restarts \in 0..MaxRestarts

Init ==
    /\ JobInit
    /\ runs = [k \in Keys |-> NoRun]
    /\ handler = [h \in Handlers |-> Idle]
    /\ inflight = {}
    /\ crm = InitialVersion
    /\ restarts = 0

-----------------------------------------------------------------------------
(* create_update_run.                                                      *)

End(h) == handler' = [handler EXCEPT ![h] = Idle]

\* one_active_installation_update: no second active row.
ConstraintAllows(k, status) ==
    status \in ACTIVE_STATUSES => \A j \in Keys \ {k} : ~ActiveRun(j)

\* _resume_unacknowledged_run with a copy of the row.
Resume(h, k, run) ==
    handler' = [handler EXCEPT ![h] =
        IF run.acked \/ run.status \notin ACTIVE_STATUSES THEN Idle
        ELSE [Idle EXCEPT !.pc = "send", !.key = k, !.run = run, !.resume = TRUE]]

\* validate_upgrade_target and the first lookup of the key.
StartRequest(h, k, t) ==
    /\ handler[h].pc = "idle"
    /\ t > crm
    /\ \/ /\ runs[k].status = "none"
          /\ handler' = [handler EXCEPT ![h] =
               [Idle EXCEPT !.pc = "insert", !.key = k, !.run.target = t]]
       \/ /\ runs[k].status # "none"
          /\ runs[k].target = t
          /\ Resume(h, k, runs[k])
    /\ UNCHANGED <<jobVars, inflight, runs, crm, restarts>>

\* InstallationUpdateRun.objects.create in its transaction; an IntegrityError
\* of the key is a replay, one of the active row ends in 409.
InsertRun(h) ==
    LET k == handler[h].key
        t == handler[h].run.target
        new == [status |-> "requested", target |-> t, acked |-> FALSE]
    IN
    /\ handler[h].pc = "insert"
    /\ \/ /\ runs[k].status = "none"
          /\ ConstraintAllows(k, "requested")
          /\ runs' = [runs EXCEPT ![k] = new]
          /\ handler' = [handler EXCEPT ![h].pc = "mark", ![h].run = new]
       \/ /\ runs[k].status # "none" /\ runs[k].target = t
          /\ Resume(h, k, runs[k])
          /\ UNCHANGED runs
       \/ /\ \/ runs[k].status # "none" /\ runs[k].target # t
             \/ runs[k].status = "none" /\ ~ConstraintAllows(k, "requested")
          /\ End(h)
          /\ UNCHANGED runs
    /\ UNCHANGED <<jobVars, inflight, crm, restarts>>

\* run.save(update_fields=("status", ...)): written whatever the row holds by
\* now; the constraint can refuse it and the handler then ends in a 500.
SaveStatus(h, status) ==
    LET k == handler[h].key IN
    IF ConstraintAllows(k, status)
    THEN runs' = [runs EXCEPT ![k].status = status]
    ELSE UNCHANGED runs

MarkPreflight(h) ==
    /\ handler[h].pc = "mark"
    /\ SaveStatus(h, "preflight")
    /\ handler' = [handler EXCEPT
         ![h] = IF ConstraintAllows(handler[h].key, "preflight")
                THEN [@ EXCEPT !.pc = "preflight", !.run.status = "preflight"]
                ELSE Idle]
    /\ UNCHANGED <<jobVars, inflight, crm, restarts>>

\* _set_failure, which ends the handler.
SetFailure(h, status) == SaveStatus(h, status) /\ End(h)

\* run_preflight: the agent may refuse, be out of reach, report a release that
\* needs a maintenance window, or blockers.
RunPreflight(h) ==
    /\ handler[h].pc = "preflight"
    /\ \/ SetFailure(h, "failed")
       \/ /\ Policy[handler[h].run.target] # "online_safe"
          /\ SetFailure(h, "manual_intervention")
       \/ /\ Policy[handler[h].run.target] = "online_safe"
          /\ handler' = [handler EXCEPT ![h].pc = "send"]
          /\ UNCHANGED runs
    /\ UNCHANGED <<jobVars, inflight, crm, restarts>>

\* start_agent_update leaves the CRM.
SendStart(h) ==
    /\ handler[h].pc = "send"
    /\ inflight' = inflight \cup
         {[by |-> h, key |-> handler[h].key, target |-> handler[h].run.target]}
    /\ handler' = [handler EXCEPT ![h].pc = "waiting"]
    /\ UNCHANGED <<jobVars, runs, crm, restarts>>

\* Mutant: an answer whose status code is not looked at.
StartAccepted_AnyAnswer(h) ==
    LET k == handler[h].key IN
    /\ handler[h].pc = "waiting"
    /\ handler[h].reply # "none"
    /\ runs' = [runs EXCEPT ![k].acked = TRUE]
    /\ handler' = [handler EXCEPT ![h].pc = "poll", ![h].run.acked = TRUE]
    /\ UNCHANGED <<jobVars, inflight, crm, restarts>>

\* The agent's answer: the job id is saved, then the run is polled.
StartAccepted(h) ==
    LET k == handler[h].key IN
    /\ handler[h].pc = "waiting"
    /\ handler[h].reply = "accepted"
    /\ runs' = [runs EXCEPT ![k].acked = TRUE]
    /\ handler' = [handler EXCEPT ![h].pc = "poll", ![h].run.acked = TRUE]
    /\ UNCHANGED <<jobVars, inflight, crm, restarts>>

StartRejected(h) ==
    /\ handler[h].pc = "waiting"
    /\ handler[h].reply = "rejected"
    /\ SetFailure(h, "failed")
    /\ UNCHANGED <<jobVars, inflight, crm, restarts>>

\* UpdateAgentUnavailable: no connection, a timeout or a broken response.  The
\* request, or its answer, may be anywhere.  A first start gives the run up;
\* a resumed one leaves it as it is.
StartUnavailable(h) ==
    /\ handler[h].pc = "waiting"
    /\ inflight' = {[m EXCEPT !.by = IF @ = h THEN "none" ELSE @] : m \in inflight}
    /\ IF handler[h].resume THEN End(h) /\ UNCHANGED runs
                            ELSE SetFailure(h, "failed")
    /\ UNCHANGED <<jobVars, crm, restarts>>

-----------------------------------------------------------------------------
(* sync_update_run.                                                        *)

\* The detail view, or get_update_center_status for the active run.
SyncRequest(h, k) ==
    /\ handler[h].pc = "idle"
    /\ runs[k].acked
    /\ ActiveRun(k)
    /\ handler' = [handler EXCEPT ![h] =
         [Idle EXCEPT !.pc = "poll", !.key = k, !.run = runs[k]]]
    /\ UNCHANGED <<jobVars, inflight, runs, crm, restarts>>

\* get_agent_update: the agent reads its row; or the call fails, which leaves
\* the run as stored.
PollAgent(h) ==
    /\ handler[h].pc = "poll"
    /\ \/ handler' = [handler EXCEPT ![h].pc = "save",
                                     ![h].reply = state[handler[h].key]]
       \/ End(h)
    /\ UNCHANGED <<jobVars, inflight, runs, crm, restarts>>

\* Mutant: success concluded from the version that runs.
SaveSync_ByVersion(h) ==
    LET k == handler[h].key
        status == IF crm = handler[h].run.target THEN "succeeded"
                  ELSE Lower[handler[h].reply]
    IN
    /\ handler[h].pc = "save"
    /\ runs' = IF handler[h].reply # "REQUESTED" /\ ConstraintAllows(k, status)
               THEN [runs EXCEPT ![k] = [handler[h].run EXCEPT !.status = status]]
               ELSE runs
    /\ End(h)
    /\ UNCHANGED <<jobVars, inflight, crm, restarts>>

\* Mutant: a poll that does not know MANUAL_INTERVENTION.
SaveSync_UnknownOutcome(h) ==
    LET k == handler[h].key
        status == Lower[handler[h].reply]
    IN
    /\ handler[h].pc = "save"
    /\ runs' = IF /\ handler[h].reply \notin {"REQUESTED", "MANUAL_INTERVENTION"}
                  /\ ConstraintAllows(k, status)
               THEN [runs EXCEPT ![k] = [handler[h].run EXCEPT !.status = status]]
               ELSE runs
    /\ End(h)
    /\ UNCHANGED <<jobVars, inflight, crm, restarts>>

\* run.save() of the whole copy.  REQUESTED is not yet a reportable status.
SaveSync(h) ==
    LET k == handler[h].key
        status == Lower[handler[h].reply]
    IN
    /\ handler[h].pc = "save"
    /\ runs' = IF handler[h].reply # "REQUESTED" /\ ConstraintAllows(k, status)
               THEN [runs EXCEPT ![k] = [handler[h].run EXCEPT !.status = status]]
               ELSE runs
    /\ End(h)
    /\ UNCHANGED <<jobVars, inflight, crm, restarts>>

-----------------------------------------------------------------------------
(* The agent serves a start request, as UpdateService.start does.          *)

Answer(m, reply) ==
    /\ inflight' = inflight \ {m}
    /\ handler' = IF m.by = "none" THEN handler
                  ELSE [handler EXCEPT ![m.by].reply = reply]

ServeStart(m) ==
    /\ m \in inflight
    /\ \/ /\ Accept(m.key, m.target)
          /\ Policy[m.target] = "online_safe"
          /\ Answer(m, "accepted")
       \/ /\ state[m.key] # "NONE"
          /\ target[m.key] = m.target
          /\ Answer(m, "accepted")
          /\ UNCHANGED jobVars
       \/ /\ state[m.key] = "NONE" \/ target[m.key] # m.target
          /\ Answer(m, "rejected")
          /\ UNCHANGED jobVars
    /\ UNCHANGED <<runs, crm, restarts>>

\* A request that never reaches the agent.
LoseStart(m) ==
    /\ m \in inflight
    /\ inflight' = inflight \ {m}
    /\ UNCHANGED <<jobVars, centerVars>>

KillHandlers ==
    /\ handler' = [h \in Handlers |-> Idle]
    /\ inflight' = {[m EXCEPT !.by = "none"] : m \in inflight}

\* `compose up' replaces the CRM's containers during the DEPLOYING phase.
Deploy(k) ==
    /\ state[k] = "DEPLOYING"
    /\ crm # target[k]
    /\ crm' = target[k]
    /\ KillHandlers
    /\ UNCHANGED <<jobVars, runs, restarts>>

CrmCrash ==
    /\ restarts < MaxRestarts
    /\ restarts' = restarts + 1
    /\ KillHandlers
    /\ UNCHANGED <<jobVars, runs, crm>>

\* The agent's own steps; it verifies only what has been brought up.
AgentStep(k) ==
    /\ \/ Advance(k) /\ (state[k] = "DEPLOYING" => crm = target[k])
       \/ Succeed(k) \/ Fail(k) \/ NeedOperator(k)
    /\ UNCHANGED <<inflight, centerVars>>

-----------------------------------------------------------------------------
HandlerStep(h) ==
    \/ InsertRun(h) \/ MarkPreflight(h) \/ RunPreflight(h) \/ SendStart(h)
    \/ StartAccepted(h) \/ StartRejected(h) \/ StartUnavailable(h)
    \/ PollAgent(h) \/ SaveSync(h)

Next ==
    \/ \E h \in Handlers :
         \/ \E k \in Keys, t \in Versions : StartRequest(h, k, t)
         \/ \E k \in Keys : SyncRequest(h, k)
         \/ HandlerStep(h)
    \/ \E m \in inflight : ServeStart(m) \/ LoseStart(m)
    \/ \E k \in Keys : Deploy(k) \/ AgentStep(k)
    \/ CrmCrash

Spec == Init /\ [][Next]_vars

\* Handlers run to their end (every call has a timeout), the agent finishes
\* its jobs (UpdateAgent!EveryJobEnds), and the Account page polls an active
\* run every two seconds and now and then gets through.
Fairness ==
    /\ \A h \in Handlers : WF_vars(HandlerStep(h))
    /\ \A h \in Handlers : SF_vars(PollAgent(h) /\ handler'[h].pc = "save")
    /\ \A k \in Keys : WF_vars(AgentStep(k) \/ Deploy(k))
    /\ \A k \in Keys : SF_vars(\E h \in Handlers : SyncRequest(h, k))

\* A client that retries a start with the key of an unfinished run, and calls
\* of its retries that now and then get through and are answered in time.
RetryFairness ==
    /\ \A k \in Keys : SF_vars(\E h \in Handlers, t \in Versions :
                                 runs[k].status # "none" /\ StartRequest(h, k, t))
    /\ \A h \in Handlers :
         /\ SF_vars(\E m \in inflight : m.by = h /\ ServeStart(m))
         /\ SF_vars(StartAccepted(h) \/ StartRejected(h))

FairSpec == Spec /\ Fairness
RetrySpec == Spec /\ Fairness /\ RetryFairness

-----------------------------------------------------------------------------
\* The Update Center never shows success the agent did not report: a run
\* reads succeeded only if the agent's job of that key succeeded, for the
\* target the run was created for.
NoFalseSuccess ==
    \A k \in Keys : runs[k].status = "succeeded" =>
        state[k] = "SUCCEEDED" /\ target[k] = runs[k].target

\* A run that holds an agent_job_id holds the id of a job for its own target,
\* through replays, lost answers, restarts and late requests.
AcknowledgedRunsHaveTheirJob ==
    \A k \in Keys : runs[k].acked =>
        state[k] # "NONE" /\ target[k] = runs[k].target

\* A run the agent acknowledged reaches an end in the CRM: polls that overlap
\* and save an older status never keep it active for good.
AcknowledgedRunsEnd ==
    \A k \in Keys : (runs[k].acked /\ ActiveRun(k)) ~> ~ActiveRun(k)

\* A replay with the same key recovers a run whose handler died before the
\* job id was saved, so no run stays active for ever.
RunsEnd == \A k \in Keys : ActiveRun(k) ~> ~ActiveRun(k)
=============================================================================
