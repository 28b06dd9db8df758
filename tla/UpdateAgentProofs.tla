-------------------------- MODULE UpdateAgentProofs --------------------------
(***************************************************************************)
(* Machine-checked proofs about UpdateAgent, for every set of keys,        *)
(* versions, request threads and processes, any manifests and any number   *)
(* of stops.                                                               *)
(*                                                                         *)
(* OneActiveUpdate and RepliesMatchTheirKey need no supervisor and are     *)
(* inductive once types are known.  The theorems about worker threads rest *)
(* on Inv: one live process at a time (OneLiveProcess), threads that       *)
(* belong to it (OwnedReqs, OwnedWorkers), the row state each worker pc    *)
(* goes with (Phases), and what a worker has done by each pc (Deeds).      *)
(* Refinement maps each step with Inv to a step of UpdateJob or a stutter. *)
(* RecordedIsRunning adds StackFollows: where the stack and the recorded   *)
(* version stand at each worker pc, as long as no operator is needed.      *)
(***************************************************************************)
EXTENDS UpdateAgent, TLAPS

LiveStates == {"locked", "serving", "closing"}

\* The process lock, and a supervisor that waits for an interrupted process.
OneLiveProcess ==
    \A p, q \in Procs : proc[p] \in LiveStates /\ proc[q] \in LiveStates => p = q

\* A busy thread belongs to a process that accepted requests.
OwnedReqs ==
    \A r \in Reqs : reqs[r].pc # "idle" =>
        /\ reqs[r].key \in Keys
        /\ reqs[r].proc \in Procs
        /\ proc[reqs[r].proc] \in {"serving", "closing"}

OwnedWorkers ==
    \A k \in Keys : worker[k].pc # "none" =>
        /\ worker[k].proc \in Procs
        /\ proc[worker[k].proc] \in {"serving", "closing"}

Before == {"REQUESTED", "PREFLIGHT", "BACKING_UP"}
After == {"DEPLOYING", "VERIFYING"}

\* The row state a worker at pc has written last.
PhaseOf(pc, state, started) ==
    /\ pc = "begin" => state = "REQUESTED"
    /\ pc \in {"preflight", "markBackup"} => state = "PREFLIGHT"
    /\ pc \in {"backup", "markDeploy"} => state = "BACKING_UP"
    /\ pc \in {"persist", "up", "markVerify"} => state = "DEPLOYING"
    /\ pc \in {"verify", "record", "markSucceeded"} => state = "VERIFYING"
    /\ pc # "none" => state \in Before \cup After
    /\ pc # "none" => (started <=> state \in After)

Phases == \A k \in Keys : PhaseOf(worker[k].pc, jobs[k].state, worker[k].started)

\* What has happened to the backup and to release.env.
Deeds ==
    /\ touched \subseteq backups
    /\ \A k \in Keys :
         /\ jobs[k].state \in Before \cup {"NONE", "FAILED"} => k \notin touched
         /\ worker[k].pc = "markDeploy" => k \in backups
         /\ jobs[k].state \in After \cup {"SUCCEEDED"} => k \in backups
         /\ worker[k].pc \in {"up", "markVerify", "verify", "record", "markSucceeded"}
              => k \in touched
         /\ jobs[k].state = "SUCCEEDED" => k \in touched

Inv == TypeOK /\ OneActiveUpdate /\ OneLiveProcess /\ OwnedReqs /\ OwnedWorkers
       /\ Phases /\ Deeds

-----------------------------------------------------------------------------
(* Typing.                                                                 *)

\* A worker thread that moves on, a thread that is killed and a row that is
\* rewritten keep their tables well typed.
LEMMA GotoTyped ==
    ASSUME worker \in [Keys -> Worker], NEW k \in Keys, NEW pc \in WorkerPCs,
           Goto(k, pc)
    PROVE  worker' \in [Keys -> Worker]
<1>1. [worker[k] EXCEPT !.pc = pc] \in Worker
    BY DEF Worker
<1> QED BY <1>1 DEF Goto

\* A start request that is answered stays well typed.
LEMMA ReplyTyped ==
    ASSUME reqs \in [Reqs -> Req], NEW r \in Reqs, NEW result \in Results,
           Reply(r, result)
    PROVE  reqs' \in [Reqs -> Req]
<1>1. [reqs[r] EXCEPT !.pc = "done", !.result = result,
                    !.source = InitialVersion] \in Req
    BY VersionsAssumption DEF Req, ReqPCs
<1> QED BY <1>1 DEF Reply

\* The threads of a process that ends are replaced by well typed ones.
LEMMA KillTyped ==
    ASSUME TypeOK, NEW p \in Procs, KillThreads(p)
    PROVE  /\ reqs' \in [Reqs -> Req]
           /\ worker' \in [Keys -> Worker]
           /\ orphans' \subseteq Versions
<1>1. IdleReq \in Req
    BY VersionsAssumption DEF IdleReq, Req, ReqPCs, Results
<1>2. NoWorker \in Worker
    BY DEF NoWorker, Worker, WorkerPCs
<1>3. \A k \in Keys : jobs[k].target \in Versions
    BY DEF TypeOK, Job
<1>4. reqs' \in [Reqs -> Req]
    BY <1>1 DEF TypeOK, KillThreads
<1>5. worker' \in [Keys -> Worker]
    BY <1>2 DEF TypeOK, KillThreads
<1>6. orphans' \subseteq Versions
    BY <1>3 DEF TypeOK, KillThreads
<1> QED BY <1>4, <1>5, <1>6

\* store.update keeps the jobs table and its caller well typed.
LEMMA MarkTyped ==
    ASSUME TypeOK, NEW k \in Keys, NEW pc, NEW state \in ACTIVE_STATES,
           NEW next \in WorkerPCs, Mark(k, pc, state, next)
    PROVE  TypeOK'
<1>1. [jobs[k] EXCEPT !.state = state] \in Job
    BY DEF TypeOK, Job
<1>2. [worker[k] EXCEPT !.pc = next, !.started = @ \/ state = "DEPLOYING"] \in Worker
    BY DEF TypeOK, Worker
<1>3. [worker[k] EXCEPT !.pc = "fail"] \in Worker
    BY DEF TypeOK, Worker, WorkerPCs
<1>4. jobs' \in [Keys -> Job]
    BY <1>1 DEF TypeOK, Mark
<1>5. worker' \in [Keys -> Worker]
    BY <1>2, <1>3 DEF TypeOK, Mark
<1> QED BY <1>4, <1>5 DEF TypeOK, Mark, stack, store, history

\* So does the last write of a thread.
LEMMA FinishTyped ==
    ASSUME TypeOK, NEW k \in Keys, NEW pc, NEW state \in TERMINAL_STATES,
           Finish(k, pc, state)
    PROVE  TypeOK'
<1>1. [jobs[k] EXCEPT !.state = state] \in Job
    BY DEF TypeOK, Job
<1>2. NoWorker \in Worker
    BY DEF NoWorker, Worker, WorkerPCs
<1>3. jobs' \in [Keys -> Job]
    BY <1>1 DEF TypeOK, Finish
<1>4. worker' \in [Keys -> Worker]
    BY <1>2 DEF TypeOK, Finish
<1> QED BY <1>3, <1>4 DEF TypeOK, Finish, stack, store, history

\* The initial state is well typed.
LEMMA InitTyped == Init => TypeOK
BY VersionsAssumption, BoundAssumption
   DEF Init, TypeOK, Job, NoJob, Worker, NoWorker, WorkerPCs, Req, IdleReq,
       ReqPCs, Results, ProcStates

\* Every step of the agent keeps the store, the threads and the stack well
\* typed.
LEMMA NextTyped == TypeOK /\ [Next]_vars => TypeOK'
<1> SUFFICES ASSUME TypeOK, [Next]_vars PROVE TypeOK'
    OBVIOUS
<1> USE DEF TypeOK, stack, store, history
<1>1. ASSUME NEW p \in Procs, Launch(p) PROVE TypeOK'
    BY <1>1 DEF Launch, ProcStates
<1>2. ASSUME NEW p \in Procs, AcquireLock(p) PROVE TypeOK'
    BY <1>2 DEF AcquireLock, ProcStates
<1>3. ASSUME NEW p \in Procs, LockRefused(p) PROVE TypeOK'
    BY <1>3 DEF LockRefused, ProcStates
<1>4. ASSUME NEW p \in Procs, recover_interrupted(p) PROVE TypeOK'
  <2>1. \A k \in Keys : Interrupted(jobs[k]) \in Job
    BY DEF Interrupted, Job, ACTIVE_STATES, TERMINAL_STATES
  <2> QED BY <1>4, <2>1 DEF recover_interrupted, ProcStates
<1>5. ASSUME NEW p \in Procs, Crash(p) PROVE TypeOK'
  <2>1. stops' \in 0..MaxStops
    BY <1>5, BoundAssumption DEF Crash
  <2>2. proc' \in [Procs -> ProcStates]
    BY <1>5 DEF Crash, ProcStates
  <2> QED BY <1>5, <2>1, <2>2, KillTyped DEF Crash
<1>6. ASSUME NEW p \in Procs, Interrupt(p) PROVE TypeOK'
    BY <1>6, BoundAssumption DEF Interrupt, ProcStates
<1>7. ASSUME NEW p \in Procs, Exit(p) PROVE TypeOK'
  <2>1. proc' \in [Procs -> ProcStates]
    BY <1>7 DEF Exit, ProcStates
  <2> QED BY <1>7, <2>1, KillTyped DEF Exit
<1>8. ASSUME NEW v \in Versions, OrphanUp(v) PROVE TypeOK'
    BY <1>8 DEF OrphanUp
<1>9. ASSUME NEW r \in Reqs, NEW p \in Procs, NEW k \in Keys, NEW t \in Versions,
             StartLookup(r, p, k, t)
      PROVE TypeOK'
  <2> DEFINE new ==
         [pc |-> IF jobs[k].state = "NONE" THEN "verify" ELSE "done",
          key |-> k, target |-> t, source |-> InitialVersion, proc |-> p,
          result |-> IF jobs[k].state = "NONE" THEN "none"
                     ELSE IF jobs[k].target = t THEN "replayed" ELSE "rejected"]
  <2>1. new \in Req
    BY VersionsAssumption DEF Req, ReqPCs, Results
  <2>2. reqs' = [reqs EXCEPT ![r] = new]
    BY <1>9 DEF StartLookup
  <2> HIDE DEF new
  <2>3. reqs' \in [Reqs -> Req]
    BY <2>1, <2>2
  <2> QED BY <1>9, <2>3 DEF StartLookup
<1>10. ASSUME NEW r \in Reqs, StartVerify(r) PROVE TypeOK'
  <2>1. [reqs[r] EXCEPT !.pc = "preflight"] \in Req
    BY DEF Req, ReqPCs
  <2>2. "rejected" \in Results
    BY DEF Results
  <2>3. reqs' \in [Reqs -> Req]
    BY <1>10, <2>1, <2>2, ReplyTyped DEF StartVerify
  <2> QED BY <1>10, <2>3 DEF StartVerify
<1>11. ASSUME NEW r \in Reqs, StartPreflight(r) PROVE TypeOK'
  <2>1. [reqs[r] EXCEPT !.pc = "create", !.source = version] \in Req
    BY DEF Req, ReqPCs
  <2>2. "rejected" \in Results
    BY DEF Results
  <2>3. reqs' \in [Reqs -> Req]
    BY <1>11, <2>1, <2>2, ReplyTyped DEF StartPreflight
  <2> QED BY <1>11, <2>3 DEF StartPreflight
<1>12. ASSUME NEW r \in Reqs, create_job(r) PROVE TypeOK'
  <2> DEFINE k == reqs[r].key
             job == [state |-> "REQUESTED", target |-> reqs[r].target,
                     source |-> reqs[r].source]
             thread == [pc |-> "begin", started |-> FALSE, proc |-> reqs[r].proc]
  <2>1. job \in Job /\ thread \in Worker
    BY DEF Job, ACTIVE_STATES, Worker, WorkerPCs, Req
  <2>2. {"replayed", "rejected", "conflict", "created"} \subseteq Results
    BY DEF Results
  <2>3. PICK result \in Results : Reply(r, result)
    BY <1>12, <2>2 DEF create_job, Accepted
  <2>4. reqs' \in [Reqs -> Req]
    BY <2>3, ReplyTyped
  <2>5. \/ UNCHANGED <<jobs, worker>>
        \/ jobs' = [jobs EXCEPT ![k] = job] /\ worker' = [worker EXCEPT ![k] = thread]
    BY <1>12 DEF create_job, Accepted
  <2> HIDE DEF job, thread
  <2>6. jobs' \in [Keys -> Job] /\ worker' \in [Keys -> Worker]
    BY <2>1, <2>5
  <2> QED BY <1>12, <2>4, <2>6 DEF create_job, Accepted
<1>13. ASSUME NEW r \in Reqs, Respond(r) PROVE TypeOK'
  <2>1. IdleReq \in Req
    BY VersionsAssumption DEF IdleReq, Req, ReqPCs, Results
  <2> QED BY <1>13, <2>1 DEF Respond
<1>14. ASSUME NEW k \in Keys,
              MarkPreflight(k) \/ MarkBackingUp(k) \/ MarkDeploying(k) \/ MarkVerifying(k)
       PROVE TypeOK'
  <2>1. {"PREFLIGHT", "BACKING_UP", "DEPLOYING", "VERIFYING"} \subseteq ACTIVE_STATES
    BY DEF ACTIVE_STATES
  <2>2. {"preflight", "backup", "persist", "verify"} \subseteq WorkerPCs
    BY DEF WorkerPCs
  <2> HIDE DEF TypeOK
  <2> QED BY <1>14, <2>1, <2>2, MarkTyped
          DEF MarkPreflight, MarkBackingUp, MarkDeploying, MarkVerifying
<1>15. ASSUME NEW k \in Keys,
              JobPreflight(k) \/ Backup(k) \/ PersistRelease(k) \/ ComposeUp(k)
                \/ Verify(k) \/ set_current_version(k)
       PROVE TypeOK'
  <2>1. PICK pc \in WorkerPCs : Goto(k, pc)
    BY <1>15 DEF JobPreflight, Backup, PersistRelease, ComposeUp, Verify,
                 set_current_version, WorkerPCs
  <2>2. worker' \in [Keys -> Worker]
    BY <2>1, GotoTyped
  <2>3. jobs[k].target \in Versions
    BY DEF Job
  <2> QED BY <1>15, <2>2, <2>3
          DEF JobPreflight, Backup, PersistRelease, ComposeUp, Verify, set_current_version
<1>16. ASSUME NEW k \in Keys, MarkSucceeded(k) PROVE TypeOK'
  <2>1. CASE Finish(k, "markSucceeded", "SUCCEEDED")
    BY <2>1, FinishTyped DEF TERMINAL_STATES
  <2>2. CASE Goto(k, "fail") /\ UNCHANGED <<store, proc, reqs, stack, orphans, history, stops>>
    BY <2>2, GotoTyped DEF WorkerPCs
  <2> QED BY <1>16, <2>1, <2>2 DEF MarkSucceeded
<1>17. ASSUME NEW k \in Keys, HandleFailure(k) PROVE TypeOK'
  <2>1. CASE Finish(k, "fail", FailureState(k))
    BY <2>1, FinishTyped DEF FailureState, TERMINAL_STATES
  <2>2. NoWorker \in Worker
    BY DEF NoWorker, Worker, WorkerPCs
  <2>3. CASE /\ worker' = [worker EXCEPT ![k] = NoWorker]
             /\ UNCHANGED <<store, proc, reqs, stack, orphans, history, stops>>
    BY <2>2, <2>3
  <2> QED BY <1>17, <2>1, <2>3 DEF HandleFailure
<1>18. ASSUME UNCHANGED vars PROVE TypeOK'
    BY <1>18 DEF vars
<1> HIDE DEF TypeOK
<1> QED
    BY <1>1, <1>2, <1>3, <1>4, <1>5, <1>6, <1>7, <1>8, <1>9, <1>10, <1>11,
       <1>12, <1>13, <1>14, <1>15, <1>16, <1>17, <1>18 DEF Next, run_job

\* Type correctness of the agent's store, threads and deployment state.
THEOREM TypeCorrect == Spec => []TypeOK
BY InitTyped, NextTyped, PTL DEF Spec

-----------------------------------------------------------------------------
(* At most one active update.                                              *)

\* What a step may do to the jobs table: nothing, accept one job when none is
\* active, rewrite one row under the single-active index, or end active rows.
JobStep(k) ==
    \/ /\ jobs[k].state = "NONE"
       /\ \A j \in Keys : ~Active(j)
       /\ \E job \in Job : jobs' = [jobs EXCEPT ![k] = job]
    \/ \E s \in ACTIVE_STATES :
         IndexAllows(k, s) /\ jobs' = [jobs EXCEPT ![k].state = s]
    \/ \E s \in TERMINAL_STATES : jobs' = [jobs EXCEPT ![k].state = s]

\* Each of these leaves at most one active row.
LEMMA JobStepKeepsOne ==
    ASSUME TypeOK, OneActiveUpdate, NEW k \in Keys, JobStep(k)
    PROVE  OneActiveUpdate'
<1>1. CASE /\ \A j \in Keys : ~Active(j)
           /\ \E job \in Job : jobs' = [jobs EXCEPT ![k] = job]
    BY <1>1 DEF TypeOK, OneActiveUpdate, Active
<1>2. ASSUME NEW s \in ACTIVE_STATES, IndexAllows(k, s),
             jobs' = [jobs EXCEPT ![k].state = s]
      PROVE OneActiveUpdate'
    BY <1>2 DEF TypeOK, Job, OneActiveUpdate, Active, IndexAllows
<1>3. ASSUME NEW s \in TERMINAL_STATES, jobs' = [jobs EXCEPT ![k].state = s]
      PROVE OneActiveUpdate'
    BY <1>3 DEF TypeOK, Job, OneActiveUpdate, Active, ACTIVE_STATES, TERMINAL_STATES
<1> QED BY <1>1, <1>2, <1>3 DEF JobStep

\* Every step is a JobStep, the recovery, or leaves the jobs table alone.
LEMMA NextIsJobStep ==
    ASSUME TypeOK, [Next]_vars
    PROVE  \/ UNCHANGED jobs
           \/ \E p \in Procs : recover_interrupted(p)
           \/ \E k \in Keys : JobStep(k)
<1> USE DEF store
<1>1. ASSUME NEW p \in Procs,
             Launch(p) \/ AcquireLock(p) \/ LockRefused(p) \/ Crash(p)
               \/ Interrupt(p) \/ Exit(p)
      PROVE UNCHANGED jobs
    BY <1>1 DEF Launch, AcquireLock, LockRefused, Crash, Interrupt, Exit
<1>2. ASSUME NEW v \in Versions, OrphanUp(v) PROVE UNCHANGED jobs
    BY <1>2 DEF OrphanUp
<1>3. ASSUME NEW r \in Reqs, NEW p \in Procs, NEW k \in Keys, NEW t \in Versions,
             StartLookup(r, p, k, t)
      PROVE UNCHANGED jobs
    BY <1>3 DEF StartLookup
<1>4. ASSUME NEW r \in Reqs, StartVerify(r) \/ StartPreflight(r) \/ Respond(r)
      PROVE UNCHANGED jobs
    BY <1>4 DEF StartVerify, StartPreflight, Respond
<1>5. ASSUME NEW r \in Reqs, create_job(r)
      PROVE UNCHANGED jobs \/ \E k \in Keys : JobStep(k)
  <2> DEFINE k == reqs[r].key
             job == [state |-> "REQUESTED", target |-> reqs[r].target,
                     source |-> reqs[r].source]
  <2>1. CASE UNCHANGED jobs
    BY <2>1
  <2>2. CASE /\ jobs[k].state = "NONE"
             /\ \A j \in Keys : ~Active(j)
             /\ jobs' = [jobs EXCEPT ![k] = job]
    <3>1. job \in Job
      BY DEF TypeOK, Job, Req, ACTIVE_STATES
    <3> HIDE DEF job
    <3>2. CASE k \in Keys
      BY <2>2, <3>1, <3>2 DEF JobStep
    <3>3. CASE k \notin Keys
      BY <2>2, <3>3 DEF TypeOK
    <3> QED BY <3>2, <3>3
  <2> QED BY <1>5, <2>1, <2>2 DEF create_job, Accepted
<1>6. ASSUME NEW k \in Keys,
              MarkPreflight(k) \/ MarkBackingUp(k) \/ MarkDeploying(k) \/ MarkVerifying(k)
      PROVE UNCHANGED jobs \/ JobStep(k)
    BY <1>6 DEF MarkPreflight, MarkBackingUp, MarkDeploying, MarkVerifying, Mark,
                JobStep, ACTIVE_STATES
<1>7. ASSUME NEW k \in Keys,
              JobPreflight(k) \/ Backup(k) \/ PersistRelease(k) \/ ComposeUp(k)
                \/ Verify(k) \/ set_current_version(k)
      PROVE UNCHANGED jobs
    BY <1>7 DEF JobPreflight, Backup, PersistRelease, ComposeUp, Verify,
                set_current_version
<1>8. ASSUME NEW k \in Keys, MarkSucceeded(k) \/ HandleFailure(k)
      PROVE UNCHANGED jobs \/ JobStep(k)
    BY <1>8 DEF MarkSucceeded, HandleFailure, FailureState, Finish, JobStep,
                TERMINAL_STATES
<1>9. CASE UNCHANGED vars
    BY <1>9 DEF vars
<1> QED
    BY <1>1, <1>2, <1>3, <1>4, <1>5, <1>6, <1>7, <1>8, <1>9 DEF Next, run_job

\* Recovery leaves no active row at all.
LEMMA RecoveryEndsAll ==
    ASSUME NEW p \in Procs, recover_interrupted(p)
    PROVE  \A k \in Keys : ~Active(k)'
BY DEF recover_interrupted, Interrupted, Active, ACTIVE_STATES

\* At most one update is active, for any number of racing requests, keys,
\* processes, crashes and store faults; no supervisor is assumed.
THEOREM OneActive == Spec => []OneActiveUpdate
<1>1. Init => OneActiveUpdate
    BY DEF Init, OneActiveUpdate, Active, NoJob, ACTIVE_STATES
<1>2. ASSUME TypeOK, OneActiveUpdate, [Next]_vars PROVE OneActiveUpdate'
  <2>1. CASE UNCHANGED jobs
    BY <1>2, <2>1 DEF OneActiveUpdate, Active
  <2>2. ASSUME NEW p \in Procs, recover_interrupted(p) PROVE OneActiveUpdate'
    BY <2>2, RecoveryEndsAll DEF OneActiveUpdate
  <2>3. ASSUME NEW k \in Keys, JobStep(k) PROVE OneActiveUpdate'
    BY <1>2, <2>3, JobStepKeepsOne
  <2> QED BY <1>2, <2>1, <2>2, <2>3, NextIsJobStep
<1> QED BY <1>1, <1>2, TypeCorrect, PTL DEF Spec

-----------------------------------------------------------------------------
(* Worker threads, under a supervisor.                                     *)

\* The lock and the supervisor allow one live process at a time.
LEMMA OneLiveStep ==
    ASSUME Supervised, TypeOK, OneLiveProcess, [Next]_vars
    PROVE  OneLiveProcess'
<1> USE DEF TypeOK, OneLiveProcess, LiveStates
<1>1. ASSUME NEW p \in Procs, Launch(p) \/ LockRefused(p) PROVE OneLiveProcess'
    BY <1>1 DEF Launch, LockRefused
<1>2. ASSUME NEW p \in Procs, AcquireLock(p) PROVE OneLiveProcess'
    BY <1>2 DEF AcquireLock, HoldsLock
<1>3. ASSUME NEW p \in Procs, recover_interrupted(p) PROVE OneLiveProcess'
    BY <1>3 DEF recover_interrupted
<1>4. ASSUME NEW p \in Procs, Crash(p) \/ Exit(p) \/ Interrupt(p)
      PROVE OneLiveProcess'
    BY <1>4 DEF Crash, Exit, Interrupt
<1>5. CASE UNCHANGED proc
    BY <1>5
<1>6. ASSUME NEW v \in Versions, OrphanUp(v) PROVE UNCHANGED proc
    BY <1>6 DEF OrphanUp
<1>7. ASSUME NEW r \in Reqs,
             \/ \E p \in Procs, k \in Keys, t \in Versions : StartLookup(r, p, k, t)
             \/ StartVerify(r) \/ StartPreflight(r) \/ create_job(r) \/ Respond(r)
      PROVE UNCHANGED proc
    BY <1>7 DEF StartLookup, StartVerify, StartPreflight, create_job, Respond
<1>8. ASSUME NEW k \in Keys, run_job(k) PROVE UNCHANGED proc
    BY <1>8 DEF run_job, MarkPreflight, MarkBackingUp, MarkDeploying, MarkVerifying,
                Mark, JobPreflight, Backup, PersistRelease, ComposeUp, Verify,
                set_current_version, MarkSucceeded, HandleFailure, Finish
<1>9. CASE UNCHANGED vars
    BY <1>9 DEF vars
<1> QED
    BY <1>1, <1>2, <1>3, <1>4, <1>5, <1>6, <1>7, <1>8, <1>9 DEF Next

\* Request threads stay with a process that accepted requests.
LEMMA OwnedReqsStep ==
    ASSUME TypeOK, OwnedReqs, [Next]_vars
    PROVE  OwnedReqs'
<1> USE DEF TypeOK, OwnedReqs, stack, store, history
<1>1. ASSUME NEW p \in Procs,
             Launch(p) \/ AcquireLock(p) \/ LockRefused(p) \/ recover_interrupted(p)
               \/ Interrupt(p)
      PROVE OwnedReqs'
    BY <1>1 DEF Launch, AcquireLock, LockRefused, recover_interrupted, Interrupt
<1>2. ASSUME NEW p \in Procs, Crash(p) \/ Exit(p) PROVE OwnedReqs'
  <2>1. \A r \in Reqs : reqs'[r] = IdleReq \/ (reqs'[r] = reqs[r] /\ reqs[r].proc # p)
    BY <1>2 DEF Crash, Exit, KillThreads
  <2>2. \A q \in Procs \ {p} : proc'[q] = proc[q]
    BY <1>2 DEF Crash, Exit
  <2>3. IdleReq.pc = "idle"
    BY DEF IdleReq
  <2> QED BY <2>1, <2>2, <2>3
<1>3. CASE UNCHANGED <<proc, reqs>>
    BY <1>3
<1>4. ASSUME NEW v \in Versions, OrphanUp(v) PROVE UNCHANGED <<proc, reqs>>
    BY <1>4 DEF OrphanUp
<1>5. ASSUME NEW r \in Reqs, NEW p \in Procs, NEW k \in Keys, NEW t \in Versions,
             StartLookup(r, p, k, t)
      PROVE OwnedReqs'
  <2>1. reqs'[r].key = k /\ reqs'[r].proc = p /\ proc[p] = "serving"
    BY <1>5 DEF StartLookup
  <2>2. \A s \in Reqs \ {r} : reqs'[s] = reqs[s]
    BY <1>5 DEF StartLookup
  <2>3. UNCHANGED proc
    BY <1>5 DEF StartLookup
  <2> QED BY <2>1, <2>2, <2>3
<1>6. ASSUME NEW r \in Reqs,
             StartVerify(r) \/ StartPreflight(r) \/ create_job(r) \/ Respond(r)
      PROVE OwnedReqs'
  <2>1. reqs[r].pc # "idle"
    BY <1>6 DEF StartVerify, StartPreflight, create_job, Respond
  <2>2. \/ reqs'[r].key = reqs[r].key /\ reqs'[r].proc = reqs[r].proc
        \/ reqs'[r] = IdleReq
    BY <1>6 DEF StartVerify, StartPreflight, create_job, Accepted, Respond, Reply, Req
  <2>3. \A s \in Reqs \ {r} : reqs'[s] = reqs[s]
    BY <1>6 DEF StartVerify, StartPreflight, create_job, Accepted, Respond, Reply
  <2>4. UNCHANGED proc
    BY <1>6 DEF StartVerify, StartPreflight, create_job, Respond
  <2> QED BY <2>1, <2>2, <2>3, <2>4 DEF IdleReq
<1>7. ASSUME NEW k \in Keys, run_job(k) PROVE UNCHANGED <<proc, reqs>>
    BY <1>7 DEF run_job, MarkPreflight, MarkBackingUp, MarkDeploying, MarkVerifying,
                Mark, JobPreflight, Backup, PersistRelease, ComposeUp, Verify,
                set_current_version, MarkSucceeded, HandleFailure, Finish
<1>8. CASE UNCHANGED vars
    BY <1>8 DEF vars
<1> QED
    BY <1>1, <1>2, <1>3, <1>4, <1>5, <1>6, <1>7, <1>8 DEF Next

\* So do worker threads.
LEMMA OwnedWorkersStep ==
    ASSUME TypeOK, OwnedReqs, OwnedWorkers, [Next]_vars
    PROVE  OwnedWorkers'
<1> USE DEF TypeOK, OwnedWorkers, stack, store, history
<1>1. ASSUME NEW p \in Procs,
             Launch(p) \/ AcquireLock(p) \/ LockRefused(p) \/ recover_interrupted(p)
               \/ Interrupt(p)
      PROVE OwnedWorkers'
    BY <1>1 DEF Launch, AcquireLock, LockRefused, recover_interrupted, Interrupt
<1>2. ASSUME NEW p \in Procs, Crash(p) \/ Exit(p) PROVE OwnedWorkers'
  <2>1. \A k \in Keys : worker'[k] = NoWorker
                          \/ (worker'[k] = worker[k] /\ worker[k].proc # p)
    BY <1>2 DEF Crash, Exit, KillThreads
  <2>2. \A q \in Procs \ {p} : proc'[q] = proc[q]
    BY <1>2 DEF Crash, Exit
  <2>3. NoWorker.pc = "none"
    BY DEF NoWorker
  <2> QED BY <2>1, <2>2, <2>3
<1>3. CASE UNCHANGED <<proc, worker>>
    BY <1>3
<1>4. ASSUME NEW v \in Versions, OrphanUp(v) PROVE UNCHANGED <<proc, worker>>
    BY <1>4 DEF OrphanUp
<1>5. ASSUME NEW r \in Reqs,
             \/ \E p \in Procs, k \in Keys, t \in Versions : StartLookup(r, p, k, t)
             \/ StartVerify(r) \/ StartPreflight(r) \/ Respond(r)
      PROVE UNCHANGED <<proc, worker>>
    BY <1>5 DEF StartLookup, StartVerify, StartPreflight, Respond
<1>6. ASSUME NEW r \in Reqs, create_job(r) PROVE OwnedWorkers'
  <2> DEFINE k == reqs[r].key
             thread == [pc |-> "begin", started |-> FALSE, proc |-> reqs[r].proc]
  <2>1. reqs[r].pc # "idle"
    BY <1>6 DEF create_job
  <2>2. UNCHANGED worker \/ worker' = [worker EXCEPT ![k] = thread]
    BY <1>6 DEF create_job, Accepted
  <2>3. reqs[r].proc \in Procs /\ proc[reqs[r].proc] \in {"serving", "closing"}
    BY <2>1 DEF OwnedReqs
  <2>4. UNCHANGED proc
    BY <1>6 DEF create_job
  <2> QED BY <2>2, <2>3, <2>4
<1>7. ASSUME NEW k \in Keys, run_job(k) PROVE OwnedWorkers'
  <2> USE DEF run_job, MarkPreflight, MarkBackingUp, MarkDeploying, MarkVerifying,
              Mark, JobPreflight, Backup, PersistRelease, ComposeUp, Verify,
              set_current_version, MarkSucceeded, HandleFailure, Finish, Goto
  <2>1. UNCHANGED proc /\ worker[k].pc # "none"
    BY <1>7 DEF At
  <2>2. \A j \in Keys \ {k} : worker'[j] = worker[j]
    BY <1>7
  <2>3. worker'[k].proc = worker[k].proc \/ worker'[k] = NoWorker
    BY <1>7 DEF Worker
  <2> QED BY <2>1, <2>2, <2>3 DEF NoWorker
<1>8. CASE UNCHANGED vars
    BY <1>8 DEF vars
<1> QED
    BY <1>1, <1>2, <1>3, <1>4, <1>5, <1>6, <1>7, <1>8 DEF Next

\* While a process recovers the store, no worker thread is alive.
LEMMA NoWorkerDuringRecovery ==
    ASSUME OneLiveProcess, OwnedWorkers, NEW p \in Procs, recover_interrupted(p)
    PROVE  \A k \in Keys : worker[k].pc = "none"
BY DEF OneLiveProcess, LiveStates, OwnedWorkers, recover_interrupted

\* Each step of a worker's own thread takes its pc and its row together to
\* the next line of the table Phases.
LEMMA PhasesStep ==
    ASSUME TypeOK, OneLiveProcess, OwnedReqs, OwnedWorkers, Phases, [Next]_vars
    PROVE  Phases'
<1> USE DEF TypeOK, Phases, PhaseOf, stack, store, history
<1>1. CASE UNCHANGED <<jobs, worker>>
    BY <1>1
<1>2. ASSUME NEW p \in Procs,
             Launch(p) \/ AcquireLock(p) \/ LockRefused(p) \/ Interrupt(p)
      PROVE UNCHANGED <<jobs, worker>>
    BY <1>2 DEF Launch, AcquireLock, LockRefused, Interrupt
<1>3. ASSUME NEW p \in Procs, recover_interrupted(p) PROVE Phases'
  <2>1. \A k \in Keys : worker'[k].pc = "none"
    BY <1>3, NoWorkerDuringRecovery DEF recover_interrupted
  <2> QED BY <2>1
<1>4. ASSUME NEW p \in Procs, Crash(p) \/ Exit(p) PROVE Phases'
  <2>1. \A k \in Keys : worker'[k] = NoWorker \/ worker'[k] = worker[k]
    BY <1>4 DEF Crash, Exit, KillThreads
  <2>2. UNCHANGED jobs
    BY <1>4 DEF Crash, Exit
  <2> QED BY <2>1, <2>2 DEF NoWorker
<1>5. ASSUME NEW v \in Versions, OrphanUp(v) PROVE UNCHANGED <<jobs, worker>>
    BY <1>5 DEF OrphanUp
<1>6. ASSUME NEW r \in Reqs,
             \/ \E p \in Procs, k \in Keys, t \in Versions : StartLookup(r, p, k, t)
             \/ StartVerify(r) \/ StartPreflight(r) \/ Respond(r)
      PROVE UNCHANGED <<jobs, worker>>
    BY <1>6 DEF StartLookup, StartVerify, StartPreflight, Respond
<1>7. ASSUME NEW r \in Reqs, create_job(r) PROVE Phases'
  <2> DEFINE k == reqs[r].key
             job == [state |-> "REQUESTED", target |-> reqs[r].target,
                     source |-> reqs[r].source]
             thread == [pc |-> "begin", started |-> FALSE, proc |-> reqs[r].proc]
  <2>1. k \in Keys
    BY <1>7 DEF create_job, OwnedReqs
  <2>2. \/ UNCHANGED <<jobs, worker>>
        \/ jobs' = [jobs EXCEPT ![k] = job] /\ worker' = [worker EXCEPT ![k] = thread]
    BY <1>7 DEF create_job, Accepted
  <2> QED BY <2>1, <2>2 DEF Before, After
<1>8. ASSUME NEW k \in Keys, run_job(k) PROVE Phases'
  <2>1. \A j \in Keys \ {k} : worker'[j] = worker[j] /\ jobs'[j] = jobs[j]
    BY <1>8 DEF run_job, MarkPreflight, MarkBackingUp, MarkDeploying, MarkVerifying,
              Mark, JobPreflight, Backup, PersistRelease, ComposeUp, Verify,
              set_current_version, MarkSucceeded, HandleFailure, Finish, Goto
  <2> SUFFICES PhaseOf(worker'[k].pc, jobs'[k].state, worker'[k].started)
    BY <2>1
  <2> USE DEF Worker, Job, Before, After, At
  <2>2. CASE MarkPreflight(k)
    BY <2>2 DEF MarkPreflight, Mark
  <2>3. CASE MarkBackingUp(k)
    BY <2>3 DEF MarkBackingUp, Mark
  <2>4. CASE MarkDeploying(k)
    BY <2>4 DEF MarkDeploying, Mark
  <2>5. CASE MarkVerifying(k)
    BY <2>5 DEF MarkVerifying, Mark
  <2>6. CASE JobPreflight(k) \/ Backup(k)
    BY <2>6 DEF JobPreflight, Backup, Goto
  <2>7. CASE PersistRelease(k) \/ ComposeUp(k)
    BY <2>7 DEF PersistRelease, ComposeUp, Goto
  <2>8. CASE Verify(k) \/ set_current_version(k)
    BY <2>8 DEF Verify, set_current_version, Goto
  <2>9. CASE MarkSucceeded(k) \/ HandleFailure(k)
    BY <2>9 DEF MarkSucceeded, HandleFailure, Finish, Goto, NoWorker
  <2> QED BY <1>8, <2>2, <2>3, <2>4, <2>5, <2>6, <2>7, <2>8, <2>9 DEF run_job
<1>9. CASE UNCHANGED vars
    BY <1>9 DEF vars
<1> QED
    BY <1>1, <1>2, <1>3, <1>4, <1>5, <1>6, <1>7, <1>8, <1>9 DEF Next

\* A worker writes release.env only in DEPLOYING, after its own backup, and
\* no other step undoes what it has done.
LEMMA DeedsStep ==
    ASSUME TypeOK, OneLiveProcess, OwnedReqs, OwnedWorkers, Phases, Deeds, [Next]_vars
    PROVE  Deeds'
<1> USE DEF TypeOK, Deeds, stack, store, history, Before, After
<1>1. CASE UNCHANGED <<jobs, worker, backups, touched>>
    BY <1>1
<1>2. ASSUME NEW p \in Procs,
             Launch(p) \/ AcquireLock(p) \/ LockRefused(p) \/ Interrupt(p)
      PROVE UNCHANGED <<jobs, worker, backups, touched>>
    BY <1>2 DEF Launch, AcquireLock, LockRefused, Interrupt
<1>3. ASSUME NEW p \in Procs, recover_interrupted(p) PROVE Deeds'
  <2>1. UNCHANGED <<worker, backups, touched>>
    BY <1>3 DEF recover_interrupted
  <2>2. \A k \in Keys : jobs'[k].state = jobs[k].state
                          \/ jobs'[k].state = "MANUAL_INTERVENTION"
    BY <1>3 DEF recover_interrupted, Interrupted, Job
  <2> QED BY <2>1, <2>2
<1>4. ASSUME NEW p \in Procs, Crash(p) \/ Exit(p) PROVE Deeds'
  <2>1. \A k \in Keys : worker'[k] = NoWorker \/ worker'[k] = worker[k]
    BY <1>4 DEF Crash, Exit, KillThreads
  <2>2. UNCHANGED <<jobs, backups, touched>>
    BY <1>4 DEF Crash, Exit
  <2> QED BY <2>1, <2>2 DEF NoWorker
<1>5. ASSUME NEW v \in Versions, OrphanUp(v)
      PROVE UNCHANGED <<jobs, worker, backups, touched>>
    BY <1>5 DEF OrphanUp
<1>6. ASSUME NEW r \in Reqs,
             \/ \E p \in Procs, k \in Keys, t \in Versions : StartLookup(r, p, k, t)
             \/ StartVerify(r) \/ StartPreflight(r) \/ Respond(r)
      PROVE UNCHANGED <<jobs, worker, backups, touched>>
    BY <1>6 DEF StartLookup, StartVerify, StartPreflight, Respond
<1>7. ASSUME NEW r \in Reqs, create_job(r) PROVE Deeds'
  <2> DEFINE k == reqs[r].key
             job == [state |-> "REQUESTED", target |-> reqs[r].target,
                     source |-> reqs[r].source]
             thread == [pc |-> "begin", started |-> FALSE, proc |-> reqs[r].proc]
  <2>1. k \in Keys
    BY <1>7 DEF create_job, OwnedReqs
  <2>2. \/ UNCHANGED <<jobs, worker>>
        \/ /\ jobs[k].state = "NONE"
           /\ jobs' = [jobs EXCEPT ![k] = job]
           /\ worker' = [worker EXCEPT ![k] = thread]
    BY <1>7 DEF create_job, Accepted
  <2>3. UNCHANGED <<backups, touched>>
    BY <1>7 DEF create_job, Accepted
  <2> QED BY <2>1, <2>2, <2>3
<1>8. ASSUME NEW k \in Keys, run_job(k) PROVE Deeds'
  <2>1. \A j \in Keys \ {k} :
          /\ worker'[j] = worker[j]
          /\ jobs'[j] = jobs[j]
          /\ (j \in backups' <=> j \in backups)
          /\ (j \in touched' <=> j \in touched)
    BY <1>8 DEF run_job, MarkPreflight, MarkBackingUp, MarkDeploying, MarkVerifying,
              Mark, JobPreflight, Backup, PersistRelease, ComposeUp, Verify,
              set_current_version, MarkSucceeded, HandleFailure, Finish, Goto
  <2>2. PhaseOf(worker[k].pc, jobs[k].state, worker[k].started)
    BY DEF Phases
  <2> DEFINE Mine ==
         /\ k \in touched' => k \in backups'
         /\ jobs'[k].state \in Before \cup {"NONE", "FAILED"} => k \notin touched'
         /\ worker'[k].pc = "markDeploy" => k \in backups'
         /\ jobs'[k].state \in After \cup {"SUCCEEDED"} => k \in backups'
         /\ worker'[k].pc \in {"up", "markVerify", "verify", "record", "markSucceeded"}
              => k \in touched'
         /\ jobs'[k].state = "SUCCEEDED" => k \in touched'
  <2>3. touched' \subseteq Keys
    BY <1>8, NextTyped DEF Next
  <2> SUFFICES Mine
    BY <2>1, <2>3
  <2> USE <2>2 DEF Worker, Job, At, PhaseOf
  <2>4. CASE MarkPreflight(k) \/ MarkBackingUp(k)
    BY <2>4 DEF MarkPreflight, MarkBackingUp, Mark
  <2>5. CASE MarkDeploying(k)
    BY <2>5 DEF MarkDeploying, Mark
  <2>6. CASE MarkVerifying(k)
    BY <2>6 DEF MarkVerifying, Mark
  <2>7. CASE JobPreflight(k) \/ Backup(k)
    BY <2>7 DEF JobPreflight, Backup, Goto
  <2>8. CASE PersistRelease(k)
    BY <2>8 DEF PersistRelease, Goto
  <2>9. CASE ComposeUp(k) \/ Verify(k) \/ set_current_version(k)
    BY <2>9 DEF ComposeUp, Verify, set_current_version, Goto
  <2>10. CASE MarkSucceeded(k)
    BY <2>10 DEF MarkSucceeded, Finish, Goto, NoWorker
  <2>11. CASE HandleFailure(k)
    BY <2>11 DEF HandleFailure, Finish, FailureState, NoWorker
  <2> QED BY <1>8, <2>4, <2>5, <2>6, <2>7, <2>8, <2>9, <2>10, <2>11 DEF run_job
<1>9. CASE UNCHANGED vars
    BY <1>9 DEF vars
<1> QED
    BY <1>1, <1>2, <1>3, <1>4, <1>5, <1>6, <1>7, <1>8, <1>9 DEF Next

\* The strengthened invariant, for any supervised agent.
THEOREM Invariance == ASSUME Supervised PROVE Spec => []Inv
<1>1. Init => OneLiveProcess /\ OwnedReqs /\ OwnedWorkers /\ Phases /\ Deeds
    BY DEF Init, OneLiveProcess, LiveStates, OwnedReqs, OwnedWorkers, Phases, PhaseOf,
           Deeds, NoJob, NoWorker, IdleReq, Before, After
<1>2. ASSUME TypeOK, OneLiveProcess, OwnedReqs, OwnedWorkers, Phases, Deeds, [Next]_vars
      PROVE  OneLiveProcess' /\ OwnedReqs' /\ OwnedWorkers' /\ Phases' /\ Deeds'
    BY <1>2, OneLiveStep, OwnedReqsStep, OwnedWorkersStep, PhasesStep, DeedsStep
<1> QED BY <1>1, <1>2, TypeCorrect, OneActive, PTL DEF Spec, Inv

\* No recovery ever interrupts a job whose thread is still at work, as long
\* as a supervisor never overlaps two agent processes.
THEOREM NeverInterrupted ==
    ASSUME Supervised PROVE Spec => []InFlightNeverInterrupted
<1>1. Inv => InFlightNeverInterrupted
    BY DEF Inv, Phases, PhaseOf, InFlightNeverInterrupted, Active, Before, After,
           ACTIVE_STATES
<1> QED BY <1>1, Invariance, PTL

\* FAILED jobs never wrote release.env, and nothing is written to it without
\* a backup: wherever the agent crashed and whichever write raised.
THEOREM HonestOutcomes ==
    ASSUME Supervised PROVE Spec => []OutcomesAreHonest
<1>1. Inv => OutcomesAreHonest
    BY DEF Inv, Deeds, OutcomesAreHonest, Before, After
<1> QED BY <1>1, Invariance, PTL

-----------------------------------------------------------------------------
(* The agent implements the contract its clients rely on.                  *)

\* The contract's notion of an active job is the agent's.
LEMMA SamePhases == Contract!ActivePhases = ACTIVE_STATES
BY DEF Contract!ActivePhases, Contract!PhaseOrder, ACTIVE_STATES

\* A rewrite of one row's state is a rewrite of the abstract state.
LEMMA StateRewritten ==
    ASSUME TypeOK, NEW k \in Keys, NEW s, jobs' = [jobs EXCEPT ![k].state = s]
    PROVE  /\ [j \in Keys |-> jobs[j].state]'
                = [[j \in Keys |-> jobs[j].state] EXCEPT ![k] = s]
           /\ [j \in Keys |-> jobs[j].target]' = [j \in Keys |-> jobs[j].target]
<1>1. \A j \in Keys : jobs[j] \in Job
    BY DEF TypeOK
<1>2. \A j \in Keys : jobs'[j].state = IF j = k THEN s ELSE jobs[j].state
    BY <1>1 DEF TypeOK, Job
<1>3. \A j \in Keys : jobs'[j].target = jobs[j].target
    BY <1>1 DEF TypeOK, Job
<1> QED BY <1>2, <1>3

\* Every step of the agent is a step of the contract, or no step at all.
LEMMA StepRefines ==
    ASSUME Inv, [Next]_vars
    PROVE  [Contract!JobNext]_(Contract!jobVars)
<1> DEFINE st == [j \in Keys |-> jobs[j].state]
           tg == [j \in Keys |-> jobs[j].target]
<1>0. TypeOK /\ OneActiveUpdate /\ OneLiveProcess /\ OwnedReqs /\ OwnedWorkers /\ Phases
    BY DEF Inv
<1> USE DEF store
<1>1. CASE UNCHANGED jobs
    BY <1>1 DEF Contract!jobVars
<1>2. ASSUME NEW p \in Procs, recover_interrupted(p)
      PROVE  [Contract!JobNext]_(Contract!jobVars)
  <2>1. jobs' = [k \in Keys |-> Interrupted(jobs[k])]
    BY <1>2 DEF recover_interrupted
  <2>2. tg' = tg
    BY <1>0, <2>1 DEF Interrupted, TypeOK, Job
  <2>3. CASE \A k \in Keys : ~Active(k)
    <3>1. st' = st
      BY <2>1, <2>3 DEF Interrupted, Active
    <3> QED BY <2>2, <3>1 DEF Contract!jobVars
  <2>4. ASSUME NEW k \in Keys, Active(k)
        PROVE  [Contract!JobNext]_(Contract!jobVars)
    <3>1. \A j \in Keys \ {k} : jobs[j].state \notin ACTIVE_STATES
      BY <1>0, <2>4 DEF OneActiveUpdate, Active
    <3>2. \A j \in Keys : jobs'[j].state =
             IF j = k THEN "MANUAL_INTERVENTION" ELSE jobs[j].state
      BY <1>0, <2>1, <2>4, <3>1 DEF Interrupted, Active, TypeOK, Job
    <3>3. st' = [st EXCEPT ![k] = "MANUAL_INTERVENTION"]
      BY <3>2
    <3>4. Contract!NeedOperator(k)
      BY <2>2, <2>4, <3>3, SamePhases DEF Contract!NeedOperator, Active
    <3> QED BY <3>4 DEF Contract!JobNext
  <2> QED BY <2>3, <2>4
<1>3. ASSUME NEW r \in Reqs, create_job(r)
      PROVE  [Contract!JobNext]_(Contract!jobVars)
  <2>1. PICK k \in Keys, t \in Versions : k = reqs[r].key /\ t = reqs[r].target
    BY <1>0, <1>3 DEF create_job, OwnedReqs, TypeOK, Req
  <2> DEFINE job == [state |-> "REQUESTED", target |-> t, source |-> reqs[r].source]
  <2>2. CASE /\ jobs[k].state = "NONE"
             /\ \A j \in Keys : ~Active(j)
             /\ jobs' = [jobs EXCEPT ![k] = job]
    <3>1. \A j \in Keys : /\ jobs'[j].state = IF j = k THEN "REQUESTED" ELSE jobs[j].state
                          /\ jobs'[j].target = IF j = k THEN t ELSE jobs[j].target
      BY <1>0, <2>2 DEF TypeOK
    <3>2. st' = [st EXCEPT ![k] = "REQUESTED"] /\ tg' = [tg EXCEPT ![k] = t]
      BY <3>1
    <3>3. Contract!Accept(k, t)
      BY <2>1, <2>2, <3>2, SamePhases DEF Contract!Accept, Active
    <3> QED BY <3>3 DEF Contract!JobNext
  <2> QED BY <1>1, <1>3, <2>1, <2>2 DEF create_job, Accepted
<1>4. ASSUME NEW k \in Keys, run_job(k), ~UNCHANGED jobs
      PROVE  Contract!JobNext
  <2>1. PhaseOf(worker[k].pc, jobs[k].state, worker[k].started)
    BY <1>0 DEF Phases
  <2>2. ASSUME NEW pc, NEW s, NEW next, Mark(k, pc, s, next),
               s \in ACTIVE_STATES, jobs[k].state \in ACTIVE_STATES,
               Contract!PhaseOrder[s] = Contract!PhaseOrder[jobs[k].state] + 1
        PROVE  Contract!JobNext
    <3>1. jobs' = [jobs EXCEPT ![k].state = s]
      BY <1>4, <2>2 DEF Mark
    <3>2. Contract!Advance(k)
      BY <1>0, <2>2, <3>1, StateRewritten, SamePhases DEF Contract!Advance
    <3> QED BY <3>2 DEF Contract!JobNext
  <2>3. CASE MarkPreflight(k)
    <3>1. jobs[k].state = "REQUESTED"
      BY <2>1, <2>3 DEF MarkPreflight, Mark, At, PhaseOf
    <3>2. Contract!PhaseOrder["PREFLIGHT"] = Contract!PhaseOrder[jobs[k].state] + 1
      BY <3>1 DEF Contract!PhaseOrder
    <3> QED BY <2>2, <2>3, <3>1, <3>2 DEF MarkPreflight, ACTIVE_STATES
  <2>4. CASE MarkBackingUp(k)
    <3>1. jobs[k].state = "PREFLIGHT"
      BY <2>1, <2>4 DEF MarkBackingUp, Mark, At, PhaseOf
    <3>2. Contract!PhaseOrder["BACKING_UP"] = Contract!PhaseOrder[jobs[k].state] + 1
      BY <3>1 DEF Contract!PhaseOrder
    <3> QED BY <2>2, <2>4, <3>1, <3>2 DEF MarkBackingUp, ACTIVE_STATES
  <2>5. CASE MarkDeploying(k)
    <3>1. jobs[k].state = "BACKING_UP"
      BY <2>1, <2>5 DEF MarkDeploying, Mark, At, PhaseOf
    <3>2. Contract!PhaseOrder["DEPLOYING"] = Contract!PhaseOrder[jobs[k].state] + 1
      BY <3>1 DEF Contract!PhaseOrder
    <3> QED BY <2>2, <2>5, <3>1, <3>2 DEF MarkDeploying, ACTIVE_STATES
  <2>6. CASE MarkVerifying(k)
    <3>1. jobs[k].state = "DEPLOYING"
      BY <2>1, <2>6 DEF MarkVerifying, Mark, At, PhaseOf
    <3>2. Contract!PhaseOrder["VERIFYING"] = Contract!PhaseOrder[jobs[k].state] + 1
      BY <3>1 DEF Contract!PhaseOrder
    <3> QED BY <2>2, <2>6, <3>1, <3>2 DEF MarkVerifying, ACTIVE_STATES
  <2>7. CASE MarkSucceeded(k)
    <3>1. jobs' = [jobs EXCEPT ![k].state = "SUCCEEDED"] /\ worker[k].pc = "markSucceeded"
      BY <1>4, <2>7 DEF MarkSucceeded, Finish, At
    <3>2. Contract!Succeed(k)
      BY <1>0, <2>1, <3>1, StateRewritten DEF Contract!Succeed, PhaseOf
    <3> QED BY <3>2 DEF Contract!JobNext
  <2>8. CASE HandleFailure(k)
    <3>1. jobs' = [jobs EXCEPT ![k].state = FailureState(k)] /\ worker[k].pc = "fail"
      BY <1>4, <2>8 DEF HandleFailure, Finish, At
    <3>2. CASE worker[k].started
      <4>1. jobs' = [jobs EXCEPT ![k].state = "MANUAL_INTERVENTION"]
        BY <3>1, <3>2 DEF FailureState
      <4>2. Contract!NeedOperator(k)
        BY <1>0, <2>1, <3>1, <4>1, StateRewritten, SamePhases
           DEF Contract!NeedOperator, PhaseOf, Before, After, ACTIVE_STATES
      <4> QED BY <4>2 DEF Contract!JobNext
    <3>3. CASE ~worker[k].started
      <4>1. jobs' = [jobs EXCEPT ![k].state = "FAILED"]
        BY <3>1, <3>3 DEF FailureState
      <4>2. jobs[k].state \in {"REQUESTED", "PREFLIGHT", "BACKING_UP"}
        BY <2>1, <3>1, <3>3 DEF PhaseOf, Before, After
      <4>3. Contract!Fail(k)
        BY <1>0, <4>1, <4>2, StateRewritten DEF Contract!Fail
      <4> QED BY <4>3 DEF Contract!JobNext
    <3> QED BY <3>2, <3>3
  <2>9. CASE JobPreflight(k) \/ Backup(k) \/ PersistRelease(k) \/ ComposeUp(k)
               \/ Verify(k) \/ set_current_version(k)
    BY <1>4, <2>9 DEF JobPreflight, Backup, PersistRelease, ComposeUp, Verify,
                      set_current_version
  <2> QED BY <1>4, <2>3, <2>4, <2>5, <2>6, <2>7, <2>8, <2>9 DEF run_job
<1>5. ASSUME NEW p \in Procs,
             Launch(p) \/ AcquireLock(p) \/ LockRefused(p) \/ Crash(p)
               \/ Interrupt(p) \/ Exit(p)
      PROVE UNCHANGED jobs
    BY <1>5 DEF Launch, AcquireLock, LockRefused, Crash, Interrupt, Exit
<1>6. ASSUME NEW v \in Versions, OrphanUp(v) PROVE UNCHANGED jobs
    BY <1>6 DEF OrphanUp
<1>7. ASSUME NEW r \in Reqs,
             \/ \E p \in Procs, k \in Keys, t \in Versions : StartLookup(r, p, k, t)
             \/ StartVerify(r) \/ StartPreflight(r) \/ Respond(r)
      PROVE UNCHANGED jobs
    BY <1>7 DEF StartLookup, StartVerify, StartPreflight, Respond
<1>8. CASE UNCHANGED vars
    BY <1>1, <1>8 DEF vars
<1> QED
    BY <1>1, <1>2, <1>3, <1>4, <1>5, <1>6, <1>7, <1>8 DEF Next

\* The agent implements UpdateJob: jobs only move forward, fail plainly only
\* before deployment, and never change once terminal.
THEOREM Refinement ==
    ASSUME Supervised PROVE Spec => ImplementsContract
<1>1. Init => Contract!JobInit
    BY DEF Init, Contract!JobInit, NoJob
<1>2. Inv /\ [Next]_vars => [Contract!JobNext]_(Contract!jobVars)
    BY StepRefines
<1> QED BY <1>1, <1>2, Invariance, PTL DEF Spec, ImplementsContract, Contract!JobSpec

-----------------------------------------------------------------------------
(* What the answers to a start mean.                                       *)

\* A job that exists keeps existing, for the same target.
LEMMA JobsStay ==
    ASSUME TypeOK, [Next]_vars, NEW k \in Keys, jobs[k].state # "NONE"
    PROVE  jobs'[k].state # "NONE" /\ jobs'[k].target = jobs[k].target
<1> USE DEF TypeOK, Job
<1>1. CASE UNCHANGED jobs
    BY <1>1
<1>2. ASSUME NEW p \in Procs, recover_interrupted(p)
      PROVE  jobs'[k].state # "NONE" /\ jobs'[k].target = jobs[k].target
    BY <1>2 DEF recover_interrupted, Interrupted
<1>3. ASSUME NEW j \in Keys, JobStep(j)
      PROVE  jobs'[k].state # "NONE" /\ jobs'[k].target = jobs[k].target
    BY <1>3 DEF JobStep, ACTIVE_STATES, TERMINAL_STATES
<1> QED BY <1>1, <1>2, <1>3, NextIsJobStep

\* A step that answers a start with a job answers with the job it asked for.
LEMMA RepliesStep ==
    ASSUME TypeOK, OwnedReqs, RepliesMatchTheirKey, [Next]_vars
    PROVE  RepliesMatchTheirKey'
<1> DEFINE Good(r) ==
        reqs[r].pc = "done" /\ reqs[r].result \in {"created", "replayed"}
            => /\ jobs[reqs[r].key].state # "NONE"
               /\ jobs[reqs[r].key].target = reqs[r].target
<1>1. ASSUME NEW r \in Reqs, reqs'[r] = reqs[r] PROVE Good(r)'
    BY <1>1, JobsStay DEF RepliesMatchTheirKey, OwnedReqs
<1>2. ASSUME NEW r \in Reqs, reqs'[r].pc # "done" PROVE Good(r)'
    BY <1>2
<1>3. CASE UNCHANGED reqs
    BY <1>1, <1>3 DEF RepliesMatchTheirKey
<1>4. ASSUME NEW p \in Procs, Crash(p) \/ Exit(p) PROVE RepliesMatchTheirKey'
  <2>1. \A r \in Reqs : reqs'[r] = IdleReq \/ reqs'[r] = reqs[r]
    BY <1>4 DEF Crash, Exit, KillThreads
  <2>2. IdleReq.pc # "done"
    BY DEF IdleReq
  <2> QED BY <1>1, <1>2, <2>1, <2>2 DEF RepliesMatchTheirKey
<1>5. ASSUME NEW r \in Reqs, NEW p \in Procs, NEW k \in Keys, NEW t \in Versions,
             StartLookup(r, p, k, t)
      PROVE RepliesMatchTheirKey'
  <2>1. \A s \in Reqs \ {r} : reqs'[s] = reqs[s]
    BY <1>5 DEF StartLookup, TypeOK
  <2>2. UNCHANGED jobs
    BY <1>5 DEF StartLookup, store
  <2>3. Good(r)'
    BY <1>5, <2>2 DEF StartLookup, TypeOK
  <2> QED BY <1>1, <2>1, <2>3 DEF RepliesMatchTheirKey
<1>6. ASSUME NEW r \in Reqs, StartVerify(r) \/ StartPreflight(r) \/ Respond(r)
      PROVE RepliesMatchTheirKey'
  <2>1. \A s \in Reqs \ {r} : reqs'[s] = reqs[s]
    BY <1>6 DEF StartVerify, StartPreflight, Respond, Reply, TypeOK
  <2>2. reqs'[r].pc # "done" \/ reqs'[r].result = "rejected"
    BY <1>6 DEF StartVerify, StartPreflight, Respond, Reply, IdleReq, TypeOK, Req
  <2> QED BY <1>1, <2>1, <2>2 DEF RepliesMatchTheirKey
<1>7. ASSUME NEW r \in Reqs, create_job(r) PROVE RepliesMatchTheirKey'
  <2>1. \A s \in Reqs \ {r} : reqs'[s] = reqs[s]
    BY <1>7 DEF create_job, Accepted, Reply, TypeOK
  <2>2. /\ reqs'[r].key = reqs[r].key
        /\ reqs'[r].target = reqs[r].target
    BY <1>7 DEF create_job, Accepted, Reply, TypeOK, Req
  <2>3. reqs[r].key \in Keys
    BY <1>7 DEF create_job, OwnedReqs
  <2>4. \/ reqs'[r].result \notin {"created", "replayed"}
        \/ /\ jobs'[reqs[r].key].state # "NONE"
           /\ jobs'[reqs[r].key].target = reqs[r].target
    BY <1>7, <2>3 DEF create_job, Accepted, Reply, TypeOK, Req
  <2> QED BY <1>1, <2>1, <2>2, <2>4 DEF RepliesMatchTheirKey
<1>8. ASSUME NEW p \in Procs,
             Launch(p) \/ AcquireLock(p) \/ LockRefused(p) \/ recover_interrupted(p)
               \/ Interrupt(p)
      PROVE UNCHANGED reqs
    BY <1>8 DEF Launch, AcquireLock, LockRefused, recover_interrupted, Interrupt
<1>9. ASSUME NEW v \in Versions, OrphanUp(v) PROVE UNCHANGED reqs
    BY <1>9 DEF OrphanUp
<1>10. ASSUME NEW k \in Keys, run_job(k) PROVE UNCHANGED reqs
    BY <1>10 DEF run_job, MarkPreflight, MarkBackingUp, MarkDeploying, MarkVerifying,
                Mark, JobPreflight, Backup, PersistRelease, ComposeUp, Verify,
                set_current_version, MarkSucceeded, HandleFailure, Finish
<1>11. CASE UNCHANGED vars
    BY <1>3, <1>11 DEF vars
<1> QED
    BY <1>3, <1>4, <1>5, <1>6, <1>7, <1>8, <1>9, <1>10, <1>11 DEF Next

\* A start answered with a job was answered with a job for its own target,
\* however many starts race with one key.  No supervisor is assumed.
THEOREM RepliesMatch == Spec => []RepliesMatchTheirKey
<1>1. Init => OwnedReqs /\ RepliesMatchTheirKey
    BY DEF Init, OwnedReqs, RepliesMatchTheirKey, IdleReq
<1>2. ASSUME TypeOK, OwnedReqs, RepliesMatchTheirKey, [Next]_vars
      PROVE  OwnedReqs' /\ RepliesMatchTheirKey'
    BY <1>2, OwnedReqsStep, RepliesStep
<1> QED BY <1>1, <1>2, TypeCorrect, PTL DEF Spec

-----------------------------------------------------------------------------
(* The recorded version is the running one.                                *)

NoOperatorNeeded == \A k \in Keys : jobs[k].state # "MANUAL_INTERVENTION"

\* How far release.env, the stack and the recorded version have followed the
\* job being deployed; an orphaned `compose up' belongs to a job whose thread
\* died while deploying.
StackFollows ==
    NoOperatorNeeded =>
        /\ (\A k \in Keys : jobs[k].state \notin After) => version = running /\ version = desired
        /\ orphans # {} => \E k \in Keys : jobs[k].state \in After /\ worker[k].pc = "none"
        /\ \A k \in Keys :
             /\ worker[k].pc \in {"up", "markVerify", "verify", "record", "markSucceeded"}
                  => desired = jobs[k].target
             /\ worker[k].pc \in {"record", "markSucceeded"} => running = jobs[k].target
             /\ worker[k].pc = "markSucceeded" => version = jobs[k].target

\* An operator's case stays one.
LEMMA OperatorStays ==
    ASSUME Inv, [Next]_vars, NoOperatorNeeded'
    PROVE  NoOperatorNeeded
<1> SUFFICES ASSUME NEW k \in Keys, jobs[k].state = "MANUAL_INTERVENTION"
             PROVE  jobs'[k].state = "MANUAL_INTERVENTION"
    BY DEF NoOperatorNeeded
<1>0. TypeOK /\ OwnedReqs /\ Phases
    BY DEF Inv
<1> USE DEF store
<1>1. CASE UNCHANGED jobs
    BY <1>1
<1>2. ASSUME NEW p \in Procs, recover_interrupted(p)
      PROVE  jobs'[k].state = "MANUAL_INTERVENTION"
    BY <1>2 DEF recover_interrupted, Interrupted, ACTIVE_STATES
<1>3. ASSUME NEW r \in Reqs, create_job(r)
      PROVE  jobs'[k].state = "MANUAL_INTERVENTION"
    BY <1>0, <1>3 DEF create_job, Accepted, TypeOK
<1>4. ASSUME NEW j \in Keys, run_job(j)
      PROVE  jobs'[k].state = "MANUAL_INTERVENTION"
  <2>1. worker[j].pc # "none"
    BY <1>4 DEF run_job, MarkPreflight, MarkBackingUp, MarkDeploying, MarkVerifying,
                Mark, JobPreflight, Backup, PersistRelease, ComposeUp, Verify,
                set_current_version, MarkSucceeded, HandleFailure, Finish, At
  <2>2. j # k
    BY <1>0, <2>1 DEF Phases, PhaseOf, Before, After
  <2>3. jobs'[k] = jobs[k]
    BY <1>0, <1>4, <2>2
       DEF run_job, MarkPreflight, MarkBackingUp, MarkDeploying, MarkVerifying,
           Mark, JobPreflight, Backup, PersistRelease, ComposeUp, Verify,
           set_current_version, MarkSucceeded, HandleFailure, Finish, TypeOK
  <2> QED BY <2>3
<1>5. ASSUME NEW p \in Procs,
             Launch(p) \/ AcquireLock(p) \/ LockRefused(p) \/ Crash(p)
               \/ Interrupt(p) \/ Exit(p)
      PROVE UNCHANGED jobs
    BY <1>5 DEF Launch, AcquireLock, LockRefused, Crash, Interrupt, Exit
<1>6. ASSUME NEW v \in Versions, OrphanUp(v) PROVE UNCHANGED jobs
    BY <1>6 DEF OrphanUp
<1>7. ASSUME NEW r \in Reqs,
             \/ \E p \in Procs, i \in Keys, t \in Versions : StartLookup(r, p, i, t)
             \/ StartVerify(r) \/ StartPreflight(r) \/ Respond(r)
      PROVE UNCHANGED jobs
    BY <1>7 DEF StartLookup, StartVerify, StartPreflight, Respond
<1>8. CASE UNCHANGED vars
    BY <1>1, <1>8 DEF vars
<1> QED
    BY <1>1, <1>2, <1>3, <1>4, <1>5, <1>6, <1>7, <1>8 DEF Next

\* A worker at work is alone: no other worker, and no orphan of a dead one.
LEMMA WorkerAlone ==
    ASSUME Inv, StackFollows, NoOperatorNeeded, NEW k \in Keys, worker[k].pc # "none"
    PROVE  /\ orphans = {}
           /\ \A j \in Keys \ {k} : /\ worker[j].pc = "none"
                                    /\ jobs[j].state \notin Before \cup After
<1>1. \A j \in Keys : worker[j].pc # "none" => jobs[j].state \in Before \cup After
    BY DEF Inv, Phases, PhaseOf
<1>2. \A j \in Keys : Active(j) <=> jobs[j].state \in Before \cup After
    BY DEF Active, ACTIVE_STATES, Before, After
<1>3. \A j \in Keys \ {k} : jobs[j].state \notin Before \cup After
    BY <1>1, <1>2 DEF Inv, OneActiveUpdate
<1>4. orphans = {}
    BY <1>1, <1>3 DEF StackFollows
<1> QED BY <1>1, <1>3, <1>4

\* Every step keeps the stack and the record where StackFollows says.
LEMMA StackFollowsStep ==
    ASSUME Inv, StackFollows, [Next]_vars
    PROVE  StackFollows'
<1> SUFFICES ASSUME NoOperatorNeeded' PROVE StackFollows'
    BY DEF StackFollows
<1>0. NoOperatorNeeded /\ TypeOK /\ OwnedReqs /\ OwnedWorkers /\ OneLiveProcess /\ Phases
    BY OperatorStays DEF Inv
<1> USE DEF StackFollows, stack, store, history
<1>1. CASE UNCHANGED <<jobs, worker, version, running, desired, orphans>>
    BY <1>0, <1>1
<1>2. ASSUME NEW p \in Procs,
             Launch(p) \/ AcquireLock(p) \/ LockRefused(p) \/ Interrupt(p)
      PROVE UNCHANGED <<jobs, worker, version, running, desired, orphans>>
    BY <1>2 DEF Launch, AcquireLock, LockRefused, Interrupt
<1>3. ASSUME NEW p \in Procs, recover_interrupted(p) PROVE StackFollows'
  <2>1. \A k \in Keys : jobs[k].state \notin ACTIVE_STATES
    BY <1>0, <1>3 DEF recover_interrupted, Interrupted, NoOperatorNeeded, TypeOK, Job
  <2>2. jobs' = jobs
    BY <1>0, <1>3, <2>1 DEF recover_interrupted, Interrupted, TypeOK
  <2>3. UNCHANGED <<worker, version, running, desired, orphans>>
    BY <1>3 DEF recover_interrupted
  <2> QED BY <1>0, <2>2, <2>3
<1>4. ASSUME NEW p \in Procs, Crash(p) \/ Exit(p) PROVE StackFollows'
  <2>1. \A k \in Keys : worker'[k] = NoWorker \/ worker'[k] = worker[k]
    BY <1>4 DEF Crash, Exit, KillThreads
  <2>2. UNCHANGED <<jobs, version, running, desired>>
    BY <1>4 DEF Crash, Exit
  <2>3. ASSUME orphans' # {}
        PROVE \E k \in Keys : jobs'[k].state \in After /\ worker'[k].pc = "none"
    <3>1. CASE orphans # {}
      BY <1>0, <2>1, <2>2, <3>1 DEF NoWorker
    <3>2. CASE \E k \in Keys : worker[k].proc = p /\ worker[k].pc = "up"
      <4>1. PICK k \in Keys : worker[k].proc = p /\ worker[k].pc = "up"
        BY <3>2
      <4>2. jobs[k].state = "DEPLOYING"
        BY <1>0, <4>1 DEF Phases, PhaseOf
      <4>3. worker'[k] = NoWorker
        BY <1>4, <4>1 DEF Crash, Exit, KillThreads
      <4> QED BY <2>2, <4>2, <4>3 DEF NoWorker, After
    <3> QED BY <1>4, <2>3, <3>1, <3>2 DEF Crash, Exit, KillThreads
  <2> QED BY <1>0, <2>1, <2>2, <2>3 DEF NoWorker
<1>5. ASSUME NEW v \in Versions, OrphanUp(v) PROVE StackFollows'
  <2>1. PICK k \in Keys : jobs[k].state \in After /\ worker[k].pc = "none"
    BY <1>0, <1>5 DEF OrphanUp
  <2>2. \A j \in Keys : worker[j].pc = "none"
    BY <1>0, <1>5, WorkerAlone DEF OrphanUp
  <2>3. UNCHANGED <<jobs, worker, version, desired>>
    BY <1>5 DEF OrphanUp
  <2> QED BY <2>1, <2>2, <2>3
<1>6. ASSUME NEW r \in Reqs,
             \/ \E p \in Procs, k \in Keys, t \in Versions : StartLookup(r, p, k, t)
             \/ StartVerify(r) \/ StartPreflight(r) \/ Respond(r)
      PROVE UNCHANGED <<jobs, worker, version, running, desired, orphans>>
    BY <1>6 DEF StartLookup, StartVerify, StartPreflight, Respond
<1>7. ASSUME NEW r \in Reqs, create_job(r) PROVE StackFollows'
  <2>1. UNCHANGED <<version, running, desired, orphans>>
    BY <1>7 DEF create_job, Accepted
  <2>2. CASE UNCHANGED <<jobs, worker>>
    BY <1>1, <2>1, <2>2
  <2>3. CASE ~UNCHANGED <<jobs, worker>>
    <3>1. \A j \in Keys : jobs[j].state \notin After
      BY <1>7, <2>3 DEF create_job, Accepted, Active, ACTIVE_STATES, After
    <3>2. \A j \in Keys : worker[j].pc = "none"
      BY <1>0, <1>7, <2>3
         DEF create_job, Accepted, Active, ACTIVE_STATES, Phases, PhaseOf, Before, After
    <3>3. \A j \in Keys : /\ worker'[j].pc \in {"none", "begin"}
                          /\ jobs'[j].state = jobs[j].state \/ jobs'[j].state = "REQUESTED"
      BY <1>0, <1>7, <2>3, <3>2 DEF create_job, Accepted, TypeOK
    <3>4. orphans = {}
      BY <1>0, <3>1
    <3> QED BY <1>0, <2>1, <3>1, <3>3, <3>4 DEF After
  <2> QED BY <2>2, <2>3
<1>8. ASSUME NEW k \in Keys, run_job(k) PROVE StackFollows'
  <2>1. worker[k].pc # "none" /\ UNCHANGED orphans
    BY <1>8 DEF run_job, MarkPreflight, MarkBackingUp, MarkDeploying, MarkVerifying,
                Mark, JobPreflight, Backup, PersistRelease, ComposeUp, Verify,
                set_current_version, MarkSucceeded, HandleFailure, Finish, At
  <2>2. \A j \in Keys \ {k} : worker'[j] = worker[j] /\ jobs'[j] = jobs[j]
    BY <1>0, <1>8
       DEF run_job, MarkPreflight, MarkBackingUp, MarkDeploying, MarkVerifying,
           Mark, JobPreflight, Backup, PersistRelease, ComposeUp, Verify,
           set_current_version, MarkSucceeded, HandleFailure, Finish, Goto, TypeOK
  <2>3. orphans' = {} /\ \A j \in Keys \ {k} :
          worker[j].pc = "none" /\ jobs[j].state \notin After
    BY <1>0, <2>1, WorkerAlone
  <2>4. PhaseOf(worker[k].pc, jobs[k].state, worker[k].started)
    BY <1>0 DEF Phases
  <2>5. worker[k] \in Worker /\ jobs[k] \in Job
    BY <1>0 DEF TypeOK
  <2> DEFINE Mine ==
        /\ jobs'[k].state \notin After => version' = running' /\ version' = desired'
        /\ worker'[k].pc \in {"up", "markVerify", "verify", "record", "markSucceeded"}
             => desired' = jobs'[k].target
        /\ worker'[k].pc \in {"record", "markSucceeded"} => running' = jobs'[k].target
        /\ worker'[k].pc = "markSucceeded" => version' = jobs'[k].target
  <2> SUFFICES Mine
    BY <2>2, <2>3
  <2>6. jobs[k].state \notin After => version = running /\ version = desired
    BY <1>0, <2>3
  <2>7. jobs'[k].state # "MANUAL_INTERVENTION"
    BY DEF NoOperatorNeeded
  <2> USE <1>0, <2>4, <2>5, <2>6 DEF TypeOK, Worker, Job, At, PhaseOf, Before, After
  <2>8. CASE MarkPreflight(k) \/ MarkBackingUp(k)
    BY <2>8 DEF MarkPreflight, MarkBackingUp, Mark
  <2>9. CASE MarkDeploying(k)
    BY <2>9 DEF MarkDeploying, Mark
  <2>10. CASE MarkVerifying(k)
    BY <2>10 DEF MarkVerifying, Mark
  <2>11. CASE JobPreflight(k) \/ Backup(k)
    BY <2>11 DEF JobPreflight, Backup, Goto
  <2>12. CASE PersistRelease(k)
    BY <2>12 DEF PersistRelease, Goto
  <2>13. CASE ComposeUp(k)
    BY <2>13 DEF ComposeUp, Goto
  <2>14. CASE Verify(k)
    BY <2>14 DEF Verify, Goto
  <2>15. CASE set_current_version(k)
    BY <2>15 DEF set_current_version, Goto
  <2>16. CASE MarkSucceeded(k)
    BY <2>16 DEF MarkSucceeded, Finish, Goto, NoWorker
  <2>17. CASE HandleFailure(k)
    BY <2>7, <2>17 DEF HandleFailure, Finish, FailureState, NoWorker
  <2> QED BY <1>8, <2>8, <2>9, <2>10, <2>11, <2>12, <2>13, <2>14, <2>15, <2>16, <2>17
          DEF run_job
<1>9. CASE UNCHANGED vars
    BY <1>1, <1>9 DEF vars
<1> QED
    BY <1>1, <1>2, <1>3, <1>4, <1>5, <1>6, <1>7, <1>8, <1>9 DEF Next

\* Unless a job is being deployed or waits for an operator, the recorded
\* version is the one in release.env and the one that runs.
THEOREM RecordedIsRunning ==
    ASSUME Supervised PROVE Spec => []RecordedVersionIsRunning
<1>1. Init => StackFollows
    BY DEF Init, StackFollows, NoWorker, NoJob, After
<1>2. Inv /\ StackFollows /\ [Next]_vars => StackFollows'
    BY StackFollowsStep
<1>3. StackFollows => RecordedVersionIsRunning
    BY DEF StackFollows, NoOperatorNeeded, RecordedVersionIsRunning, After
<1> QED BY <1>1, <1>2, <1>3, Invariance, PTL DEF Spec
=============================================================================
