----------------------------- MODULE UpdateAgent -----------------------------
(***************************************************************************)
(* The Bubllio Update Agent: the service outside the CRM deployment that   *)
(* owns the update jobs (store.py), answers POST /v1/updates in one thread *)
(* per request (service.py, api.py), runs each accepted job in a daemon    *)
(* thread (_run_job), drives Docker Compose (adapters/compose.py) and, at  *)
(* start-up, takes the process lock and marks the jobs a dead process left *)
(* behind (cli.py, process_lock.py).                                       *)
(*                                                                         *)
(* A job is known by its idempotency key, which the store keeps UNIQUE.    *)
(* `progress', `phase' and the rows of the events table are functions of   *)
(* the state written with them and of nothing else, and are left out.      *)
(***************************************************************************)
EXTENDS Integers, FiniteSets

CONSTANTS
    Keys,            \* idempotency keys clients may send
    Versions,        \* stable versions, ordered as StableVersion is
    InitialVersion,  \* config.current_version, the release first deployed
    Manifest,        \* the signed manifest published for each version
    Reqs,            \* request threads of the HTTP server
    Procs,           \* agent processes an operator or supervisor launches
    MaxStops,        \* bound: process deaths (crash or interrupt) in a run
    Supervised,      \* TRUE: no launch while an interrupted process lingers
    StoreFaults      \* TRUE: a SQLite write of the worker may raise

Policies == {"online_safe", "maintenance", "irreversible"}

ASSUME VersionsAssumption ==
    /\ Versions \subseteq Nat
    /\ InitialVersion \in Versions
ASSUME ManifestAssumption ==
    Manifest \in [Versions -> [policy : Policies, min : Versions, max : Versions]]
ASSUME BoundAssumption ==
    /\ MaxStops \in Nat
    /\ Supervised \in BOOLEAN
    /\ StoreFaults \in BOOLEAN

VARIABLES
    jobs,      \* the jobs table, by idempotency key
    version,   \* metadata.current_version, or the configured version
    proc,      \* the life of each agent process
    reqs,      \* the request threads
    worker,    \* the _run_job thread of each job
    desired,   \* release.env: the release Compose is told to run
    running,   \* the release the Compose project runs
    orphans,   \* releases a dead agent's `compose up' may still bring up
    backups,   \* jobs whose backup command returned success
    touched,   \* jobs that have written release.env
    stops      \* process deaths so far

vars == <<jobs, version, proc, reqs, worker, desired, running, orphans,
          backups, touched, stops>>

-----------------------------------------------------------------------------
(* State of the parts.                                                     *)

ACTIVE_STATES == {"REQUESTED", "PREFLIGHT", "BACKING_UP", "DEPLOYING", "VERIFYING"}
TERMINAL_STATES == {"SUCCEEDED", "FAILED", "ROLLED_BACK", "MANUAL_INTERVENTION"}

\* A row of the jobs table; state NONE stands for the absence of the row.
Job == [state : ACTIVE_STATES \cup TERMINAL_STATES \cup {"NONE"},
        target : Versions, source : Versions]

NoJob == [state |-> "NONE", target |-> InitialVersion, source |-> InitialVersion]

\* Where a _run_job thread stands: a "mark" pc is about to call store.update,
\* the others are inside an adapter call, set_current_version or the handler.
WorkerPCs == {"none", "begin", "preflight", "markBackup", "backup", "markDeploy",
              "persist", "up", "markVerify", "verify", "record", "markSucceeded",
              "fail"}

Worker == [pc : WorkerPCs, started : BOOLEAN, proc : Procs \cup {"none"}]
NoWorker == [pc |-> "none", started |-> FALSE, proc |-> "none"]

ReqPCs == {"idle", "verify", "preflight", "create", "done"}
Results == {"none", "created", "replayed", "rejected", "conflict"}

Req == [pc : ReqPCs, key : Keys \cup {"none"}, target : Versions,
        source : Versions, result : Results, proc : Procs \cup {"none"}]
IdleReq == [pc |-> "idle", key |-> "none", target |-> InitialVersion,
            source |-> InitialVersion, result |-> "none", proc |-> "none"]

\* off; launched (configuration loaded); locked (flock held, store not yet
\* recovered); serving; closing (interrupted: lock released, threads alive).
ProcStates == {"off", "launched", "locked", "serving", "closing"}

Active(k) == jobs[k].state \in ACTIVE_STATES
Terminal(k) == jobs[k].state \in TERMINAL_STATES
HoldsLock(p) == proc[p] \in {"locked", "serving"}

\* A thread runs while its process does, the daemon threads of a closing
\* process included.
Alive(p) == proc[p] \in {"serving", "closing"}

TypeOK ==
    /\ jobs \in [Keys -> Job]
    /\ version \in Versions
    /\ proc \in [Procs -> ProcStates]
    /\ reqs \in [Reqs -> Req]
    /\ worker \in [Keys -> Worker]
    /\ desired \in Versions
    /\ running \in Versions
    /\ orphans \subseteq Versions
    /\ backups \subseteq Keys
    /\ touched \subseteq Keys
    /\ stops \in 0..MaxStops

Init ==
    /\ jobs = [k \in Keys |-> NoJob]
    /\ version = InitialVersion
    /\ proc = [p \in Procs |-> "off"]
    /\ reqs = [r \in Reqs |-> IdleReq]
    /\ worker = [k \in Keys |-> NoWorker]
    /\ desired = InitialVersion
    /\ running = InitialVersion
    /\ orphans = {}
    /\ backups = {}
    /\ touched = {}
    /\ stops = 0

-----------------------------------------------------------------------------
(* Agent processes: cli.main and AgentProcessLock.                         *)

stack == <<desired, running>>
store == <<jobs, version>>
history == <<backups, touched>>

Launch(p) ==
    /\ proc[p] = "off"
    /\ proc' = [proc EXCEPT ![p] = "launched"]
    /\ UNCHANGED <<store, reqs, worker, stack, orphans, history, stops>>

\* Mutant: start-up that does not take the lock.
AcquireLock_Unlocked(p) ==
    /\ proc[p] = "launched"
    /\ proc' = [proc EXCEPT ![p] = "locked"]
    /\ UNCHANGED <<store, reqs, worker, stack, orphans, history, stops>>

\* flock(LOCK_EX | LOCK_NB) succeeds.  A supervisor that waits for the old
\* process to exit never lets a launch overlap an interrupted process.
AcquireLock(p) ==
    /\ proc[p] = "launched"
    /\ \A q \in Procs : ~HoldsLock(q)
    /\ Supervised => \A q \in Procs : proc[q] # "closing"
    /\ proc' = [proc EXCEPT ![p] = "locked"]
    /\ UNCHANGED <<store, reqs, worker, stack, orphans, history, stops>>

\* BlockingIOError: ConfigurationError ends the second process.
LockRefused(p) ==
    /\ proc[p] = "launched"
    /\ \E q \in Procs : HoldsLock(q)
    /\ proc' = [proc EXCEPT ![p] = "off"]
    /\ UNCHANGED <<store, reqs, worker, stack, orphans, history, stops>>

\* Mutant: a recovery that writes a state JobState does not have.
Interrupted_UnknownState(job) ==
    IF job.state \in ACTIVE_STATES
    THEN [job EXCEPT !.state = "INTERRUPTED"] ELSE job

\* Mutant: a recovery without its WHERE clause.
Interrupted_EveryRow(job) ==
    IF job.state # "NONE"
    THEN [job EXCEPT !.state = "MANUAL_INTERVENTION"] ELSE job

Interrupted(job) ==
    IF job.state \in ACTIVE_STATES
    THEN [job EXCEPT !.state = "MANUAL_INTERVENTION"] ELSE job

\* Mutant: a start-up without recovery.
recover_interrupted_Skipped(p) ==
    /\ proc[p] = "locked"
    /\ proc' = [proc EXCEPT ![p] = "serving"]
    /\ UNCHANGED <<store, reqs, worker, stack, orphans, history, stops>>

\* store.recover_interrupted, one UPDATE statement, then the server starts.
recover_interrupted(p) ==
    /\ proc[p] = "locked"
    /\ jobs' = [k \in Keys |-> Interrupted(jobs[k])]
    /\ proc' = [proc EXCEPT ![p] = "serving"]
    /\ UNCHANGED <<version, reqs, worker, stack, orphans, history, stops>>

\* Every thread of p ends.  A `docker compose up' child is not killed with
\* its parent and may still bring up the release it was started for.
KillThreads(p) ==
    /\ reqs' = [r \in Reqs |-> IF reqs[r].proc = p THEN IdleReq ELSE reqs[r]]
    /\ worker' = [k \in Keys |-> IF worker[k].proc = p THEN NoWorker ELSE worker[k]]
    /\ orphans' = orphans \cup
         {jobs[k].target : k \in {j \in Keys : worker[j].proc = p /\ worker[j].pc = "up"}}

Crash(p) ==
    /\ proc[p] \in {"locked", "serving"}
    /\ stops < MaxStops
    /\ stops' = stops + 1
    /\ proc' = [proc EXCEPT ![p] = "off"]
    /\ KillThreads(p)
    /\ UNCHANGED <<store, stack, history>>

\* KeyboardInterrupt: server_close, then the lock is released; the daemon
\* threads go on until the interpreter is gone.
Interrupt(p) ==
    /\ proc[p] = "serving"
    /\ stops < MaxStops
    /\ stops' = stops + 1
    /\ proc' = [proc EXCEPT ![p] = "closing"]
    /\ UNCHANGED <<store, reqs, worker, stack, orphans, history>>

Exit(p) ==
    /\ proc[p] = "closing"
    /\ proc' = [proc EXCEPT ![p] = "off"]
    /\ KillThreads(p)
    /\ UNCHANGED <<store, stack, history, stops>>

\* The child process a dead agent left behind finishes, or fails.
OrphanUp(v) ==
    /\ v \in orphans
    /\ running' \in {running, v}
    /\ orphans' = orphans \ {v}
    /\ UNCHANGED <<store, proc, reqs, worker, desired, history, stops>>

-----------------------------------------------------------------------------
(* POST /v1/updates: UpdateService.start in a request thread.              *)

Reply(r, result) ==
    reqs' = [reqs EXCEPT ![r].pc = "done", ![r].result = result,
                         ![r].source = InitialVersion]

\* The request arrives and the key is looked up.
StartLookup(r, p, k, t) ==
    /\ proc[p] = "serving"
    /\ reqs[r].pc = "idle"
    /\ reqs' = [reqs EXCEPT ![r] =
         [pc |-> IF jobs[k].state = "NONE" THEN "verify" ELSE "done",
          key |-> k, target |-> t, source |-> InitialVersion, proc |-> p,
          result |-> IF jobs[k].state = "NONE" THEN "none"
                     ELSE IF jobs[k].target = t THEN "replayed" ELSE "rejected"]]
    /\ UNCHANGED <<store, proc, worker, stack, orphans, history, stops>>

\* parse_verified_manifest against the version installed now.
Upgradable(t, current) ==
    /\ Manifest[t].min <= current
    /\ current <= Manifest[t].max
    /\ t > current

\* _verified_manifest: the release is downloaded, verified and compared with
\* the installed version.  A download or signature failure also ends here.
StartVerify(r) ==
    /\ reqs[r].pc = "verify"
    /\ Alive(reqs[r].proc)
    /\ \/ /\ Upgradable(reqs[r].target, version)
          /\ reqs' = [reqs EXCEPT ![r].pc = "preflight"]
       \/ Reply(r, "rejected")
    /\ UNCHANGED <<store, proc, worker, stack, orphans, history, stops>>

\* adapter.preflight, then the version is read again, as source_version.
StartPreflight(r) ==
    /\ reqs[r].pc = "preflight"
    /\ Alive(reqs[r].proc)
    /\ \/ /\ Manifest[reqs[r].target].policy = "online_safe"
          /\ reqs' = [reqs EXCEPT ![r].pc = "create", ![r].source = version]
       \/ Reply(r, "rejected")
    /\ UNCHANGED <<store, proc, worker, stack, orphans, history, stops>>

\* The row is inserted and the thread of the job is started.
Accepted(r) ==
    LET k == reqs[r].key IN
    /\ jobs' = [jobs EXCEPT ![k] =
         [state |-> "REQUESTED", target |-> reqs[r].target, source |-> reqs[r].source]]
    /\ worker' = [worker EXCEPT ![k] =
         [pc |-> "begin", started |-> FALSE, proc |-> reqs[r].proc]]
    /\ Reply(r, "created")

\* Mutant: a create_job that neither looks for an active job nor has the index.
create_job_ManyActive(r) ==
    LET k == reqs[r].key IN
    /\ reqs[r].pc = "create"
    /\ Alive(reqs[r].proc)
    /\ \/ /\ jobs[k].state # "NONE"
          /\ Reply(r, IF jobs[k].target = reqs[r].target THEN "replayed" ELSE "rejected")
          /\ UNCHANGED <<jobs, worker>>
       \/ jobs[k].state = "NONE" /\ Accepted(r)
    /\ UNCHANGED <<version, proc, stack, orphans, history, stops>>

\* Mutant: a create_job that replays a key without comparing the target.
create_job_AnyTarget(r) ==
    LET k == reqs[r].key IN
    /\ reqs[r].pc = "create"
    /\ Alive(reqs[r].proc)
    /\ \/ /\ jobs[k].state # "NONE"
          /\ Reply(r, "replayed")
          /\ UNCHANGED <<jobs, worker>>
       \/ /\ jobs[k].state = "NONE"
          /\ \A j \in Keys : ~Active(j)
          /\ Accepted(r)
    /\ UNCHANGED <<version, proc, stack, orphans, history, stops>>

\* store.create_job (one BEGIN IMMEDIATE transaction under the store's lock)
\* and, for a new job, the start of its thread.
create_job(r) ==
    LET k == reqs[r].key
        t == reqs[r].target
    IN
    /\ reqs[r].pc = "create"
    /\ Alive(reqs[r].proc)
    /\ \/ /\ jobs[k].state # "NONE"
          /\ Reply(r, IF jobs[k].target = t THEN "replayed" ELSE "rejected")
          /\ UNCHANGED <<jobs, worker>>
       \/ /\ jobs[k].state = "NONE"
          /\ \E j \in Keys : Active(j)
          /\ Reply(r, "conflict")
          /\ UNCHANGED <<jobs, worker>>
       \/ /\ jobs[k].state = "NONE"
          /\ \A j \in Keys : ~Active(j)
          /\ Accepted(r)
    /\ UNCHANGED <<version, proc, stack, orphans, history, stops>>

\* The response is written (or its client has gone) and the thread ends.
Respond(r) ==
    /\ reqs[r].pc = "done"
    /\ Alive(reqs[r].proc)
    /\ reqs' = [reqs EXCEPT ![r] = IdleReq]
    /\ UNCHANGED <<store, proc, worker, stack, orphans, history, stops>>

-----------------------------------------------------------------------------
(* UpdateService._run_job, one thread per job.                             *)

At(k, pc) == worker[k].pc = pc /\ Alive(worker[k].proc)

\* The partial unique index jobs_single_active: a second active row raises.
IndexAllows(k, state) ==
    state \in ACTIVE_STATES => \A j \in Keys \ {k} : ~Active(j)

\* store.update: the row is overwritten whatever its state was; any failure
\* of the write sends the thread to its exception handler.
Mark(k, pc, state, next) ==
    /\ At(k, pc)
    /\ \/ /\ IndexAllows(k, state)
          /\ jobs' = [jobs EXCEPT ![k].state = state]
          /\ worker' = [worker EXCEPT ![k].pc = next,
                                      ![k].started = @ \/ state = "DEPLOYING"]
       \/ /\ StoreFaults \/ ~IndexAllows(k, state)
          /\ worker' = [worker EXCEPT ![k].pc = "fail"]
          /\ UNCHANGED jobs
    /\ UNCHANGED <<version, proc, reqs, stack, orphans, history, stops>>

MarkPreflight(k) == Mark(k, "begin", "PREFLIGHT", "preflight")
MarkBackingUp(k) == Mark(k, "markBackup", "BACKING_UP", "backup")
MarkDeploying(k) == Mark(k, "markDeploy", "DEPLOYING", "persist")
MarkVerifying(k) == Mark(k, "markVerify", "VERIFYING", "verify")

Goto(k, pc) == worker' = [worker EXCEPT ![k].pc = pc]

\* adapter.preflight inside the job.
JobPreflight(k) ==
    /\ At(k, "preflight")
    /\ \/ Manifest[jobs[k].target].policy = "online_safe" /\ Goto(k, "markBackup")
       \/ Goto(k, "fail")
    /\ UNCHANGED <<store, proc, reqs, stack, orphans, history, stops>>

Backup(k) ==
    /\ At(k, "backup")
    /\ \/ Goto(k, "markDeploy") /\ backups' = backups \cup {k}
       \/ Goto(k, "fail") /\ UNCHANGED backups
    /\ UNCHANGED <<store, proc, reqs, stack, orphans, touched, stops>>

\* _persist_release_environment: mkstemp, fsync, os.replace; then the pull.
PersistRelease(k) ==
    /\ At(k, "persist")
    /\ \/ /\ desired' = jobs[k].target
          /\ touched' = touched \cup {k}
          /\ \/ Goto(k, "up")
             \/ Goto(k, "fail")    \* the pull failed
       \/ Goto(k, "fail") /\ UNCHANGED <<desired, touched>>
    /\ UNCHANGED <<store, proc, reqs, running, orphans, backups, stops>>

\* `compose up': a failing command may have replaced the containers or not.
ComposeUp(k) ==
    /\ At(k, "up")
    /\ \/ running' = desired /\ Goto(k, "markVerify")
       \/ running' \in {running, desired} /\ Goto(k, "fail")
    /\ UNCHANGED <<store, proc, reqs, desired, orphans, history, stops>>

\* The health endpoint must report the exact release before the deadline.
Verify(k) ==
    /\ At(k, "verify")
    /\ \/ running = jobs[k].target /\ Goto(k, "record")
       \/ Goto(k, "fail")
    /\ UNCHANGED <<store, proc, reqs, stack, orphans, history, stops>>

\* Mutant: a job that succeeds without recording its version.
set_current_version_Skipped(k) ==
    /\ At(k, "record")
    /\ Goto(k, "markSucceeded")
    /\ UNCHANGED <<store, proc, reqs, stack, orphans, history, stops>>

set_current_version(k) ==
    /\ At(k, "record")
    /\ \/ version' = jobs[k].target /\ Goto(k, "markSucceeded")
       \/ StoreFaults /\ Goto(k, "fail") /\ UNCHANGED version
    /\ UNCHANGED <<jobs, proc, reqs, stack, orphans, history, stops>>

\* The last write of a thread, after which it is gone.  If the handler's own
\* write raises, the thread dies and leaves its row active.
Finish(k, pc, state) ==
    /\ At(k, pc)
    /\ jobs' = [jobs EXCEPT ![k].state = state]
    /\ worker' = [worker EXCEPT ![k] = NoWorker]
    /\ UNCHANGED <<version, proc, reqs, stack, orphans, history, stops>>

MarkSucceeded(k) ==
    \/ Finish(k, "markSucceeded", "SUCCEEDED")
    \/ /\ StoreFaults
       /\ At(k, "markSucceeded")
       /\ Goto(k, "fail")
       /\ UNCHANGED <<store, proc, reqs, stack, orphans, history, stops>>

\* Mutant: a handler that forgets deployment_started.
FailureState_AlwaysFailed(k) == "FAILED"

FailureState(k) == IF worker[k].started THEN "MANUAL_INTERVENTION" ELSE "FAILED"

HandleFailure(k) ==
    \/ Finish(k, "fail", FailureState(k))
    \/ /\ StoreFaults
       /\ At(k, "fail")
       /\ worker' = [worker EXCEPT ![k] = NoWorker]
       /\ UNCHANGED <<store, proc, reqs, stack, orphans, history, stops>>

run_job(k) ==
    \/ MarkPreflight(k) \/ JobPreflight(k)
    \/ MarkBackingUp(k) \/ Backup(k)
    \/ MarkDeploying(k) \/ PersistRelease(k) \/ ComposeUp(k)
    \/ MarkVerifying(k) \/ Verify(k)
    \/ set_current_version(k) \/ MarkSucceeded(k)
    \/ HandleFailure(k)

-----------------------------------------------------------------------------
Next ==
    \/ \E p \in Procs :
         \/ Launch(p) \/ AcquireLock(p) \/ LockRefused(p)
         \/ recover_interrupted(p) \/ Crash(p) \/ Interrupt(p) \/ Exit(p)
    \/ \E v \in Versions : OrphanUp(v)
    \/ \E r \in Reqs :
         \/ \E p \in Procs, k \in Keys, t \in Versions : StartLookup(r, p, k, t)
         \/ StartVerify(r) \/ StartPreflight(r) \/ create_job(r) \/ Respond(r)
    \/ \E k \in Keys : run_job(k)

Spec == Init /\ [][Next]_vars

\* Adapter calls have timeouts, so a worker thread always goes on; a process
\* that stopped is started again and runs through its start-up.
Fairness ==
    /\ \A k \in Keys : WF_vars(run_job(k))
    /\ \A p \in Procs : WF_vars(recover_interrupted(p)) /\ WF_vars(Exit(p))
    /\ WF_vars(\E p \in Procs : Launch(p))
    /\ WF_vars(\E p \in Procs : AcquireLock(p))

FairSpec == Spec /\ Fairness

-----------------------------------------------------------------------------
(* Correctness properties.                                                 *)

\* At most one update is active: create_job's check, the jobs_single_active
\* index and the recovery at start-up never leave two active rows, whatever
\* requests race and wherever the process dies.
OneActiveUpdate ==
    \A j, k \in Keys : Active(j) /\ Active(k) => j = k

\* A job whose thread is still at work is never marked interrupted by the
\* recovery of another process (cli.py takes the lock before recovering), so
\* a row that reads terminal has nobody behind it still changing the stack.
InFlightNeverInterrupted ==
    \A k \in Keys : worker[k].pc # "none" => Active(k)

\* FAILED is the state an operator may simply retry from: release.env was
\* never written for such a job.  SUCCEEDED is only ever shown for a job that
\* was backed up first and whose release was written.
OutcomesAreHonest ==
    \A k \in Keys :
        /\ jobs[k].state = "FAILED" => k \notin touched
        /\ jobs[k].state = "SUCCEEDED" => k \in backups \cap touched
        /\ k \in touched => k \in backups

\* Unless a job is being deployed or awaits an operator, the version the
\* agent reports and compares targets with is the one Compose is told to run
\* and does run, across crashes at any point of a job.
RecordedVersionIsRunning ==
    (\A k \in Keys : jobs[k].state \notin {"DEPLOYING", "VERIFYING", "MANUAL_INTERVENTION"})
        => version = running /\ version = desired

\* A start that was answered with a job was answered with a job for the
\* target it asked for, also when two starts with one key and different
\* targets race past the first lookup.
RepliesMatchTheirKey ==
    \A r \in Reqs :
        reqs[r].pc = "done" /\ reqs[r].result \in {"created", "replayed"}
            => /\ jobs[reqs[r].key].state # "NONE"
               /\ jobs[reqs[r].key].target = reqs[r].target

\* The agent keeps its promise to its clients (see UpdateJob): jobs only move
\* forward and a terminal row is never rewritten.
Contract == INSTANCE UpdateJob
              WITH state <- [k \in Keys |-> jobs[k].state],
                   target <- [k \in Keys |-> jobs[k].target]
ImplementsContract == Contract!JobSpec

\* "Downgrades and same-version installs are not supported": the recorded
\* version only ever changes to a newer one.
OnlyUpgrades == [][version' > version]_version

\* The thread of an active job is gone while an agent serves: the write of its
\* exception handler raised, and nothing but a restart looks at the row again.
Abandoned(k) == Active(k) /\ worker[k].pc = "none" /\ \E p \in Procs : proc[p] = "serving"

\* Every accepted job ends, whatever its adapter does, whichever of its writes
\* fail and wherever the agent stops, unless the handler's own write fails;
\* then it is the next agent that ends the job: a job that is active while no
\* agent serves ends, provided the agent is started again.
EveryJobEnds ==
    \A k \in Keys : /\ Active(k) ~> Terminal(k) \/ Abandoned(k)
                    /\ (Active(k) /\ \A p \in Procs : proc[p] # "serving") ~> Terminal(k)
=============================================================================
