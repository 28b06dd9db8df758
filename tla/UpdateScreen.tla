---------------------------- MODULE UpdateScreen -----------------------------
(***************************************************************************)
(* The Update Center's screen (features/updates): its status and run       *)
(* queries with their polling, the preflight, the confirmation dialog with *)
(* its password, and the start of an update, while the updates of other    *)
(* administrators go on and the server is away during a deployment.        *)
(*                                                                         *)
(* Versions are numbered; the installation runs 0.  The server is reduced  *)
(* to what the screen reads of it (module UpdateCenter has the rest): runs *)
(* in the order they were requested, of which one at most is active.       *)
(***************************************************************************)
EXTENDS Naturals

CONSTANTS
    MaxVersion,    \* bound: releases
    Automatic,     \* the versions whose migration policy is online_safe
    MaxRuns,       \* bound: updates requested
    MaxOutages,    \* bound: queries that fail with all their retries
    MaxMounts      \* bound: visits of the screen

ASSUME ScreenAssumption ==
    /\ {MaxVersion, MaxRuns, MaxOutages, MaxMounts} \subseteq Nat /\ MaxVersion # 0
    /\ Automatic \subseteq 1..MaxVersion

VARIABLES
    newestRelease,
    run,        \* runs: their version and state, and what the agent has made of them
    mounted,    \* the visit of the screen, 0 while it is not shown
    visits,
    center,     \* the cached status, whose runs are snapshots
    statusFetch,
    tracked,    \* the cached runs
    runFetch,   \* the query of the run the screen tracks
    ready,      \* preflight.data: the version and whether it is eligible
    checking,   \* the preflight request (bound: one at a time)
    dialog,     \* updateConfirmationReducer's state; a password is the version
                \* whose dialog it was typed in
    starting,   \* the start request (bound: one at a time)
    started,    \* startUpdate.data
    outages     \* queries that may still fail

screenVars == <<newestRelease, run, mounted, visits, center, statusFetch, tracked, runFetch,
                ready, checking, dialog, starting, started, outages>>

Releases == 1..MaxVersion
Runs == 1..MaxRuns
RunStages == {"none", "active", "over"}
Snapshot == [id : 0..MaxRuns, stage : RunStages]
NoSnapshot == [id |-> 0, stage |-> "none"]
Status == [latest : 0..MaxVersion, active : Snapshot, newest : Snapshot]
NoStatus == [latest |-> 0, active |-> NoSnapshot, newest |-> NoSnapshot]
Fetch(answers) == [at : {"idle", "sent", "answered"}, answer : answers]
QuietStatus == [at |-> "idle", answer |-> NoStatus]
QuietRun == [at |-> "idle", id |-> 0, answer |-> NoSnapshot]
NotReady == [version |-> 0, eligible |-> FALSE]
NoCheck == [at |-> "idle", version |-> 0, eligible |-> FALSE, mount |-> 0]
NoStart == [at |-> "idle", version |-> 0, run |-> NoSnapshot, mount |-> 0]
initialUpdateConfirmationState == [open |-> FALSE, target |-> 0, typed |-> FALSE, password |-> 0]

ScreenTypeOK ==
    /\ newestRelease \in Releases
    /\ run \in [Runs -> [version : 0..MaxVersion, stage : RunStages, done : BOOLEAN]]
    /\ mounted \in 0..MaxMounts /\ visits \in 0..MaxMounts
    /\ center \in Status
    /\ statusFetch \in Fetch(Status)
    /\ tracked \in [Runs -> Snapshot]
    /\ runFetch \in [at : {"idle", "sent", "answered"}, id : 0..MaxRuns, answer : Snapshot]
    /\ ready \in [version : 0..MaxVersion, eligible : BOOLEAN]
    /\ checking \in [at : {"idle", "sent", "answered"}, version : 0..MaxVersion,
                     eligible : BOOLEAN, mount : 0..MaxMounts]
    /\ dialog \in [open : BOOLEAN, target : 0..MaxVersion, typed : BOOLEAN,
                   password : 0..MaxVersion]
    /\ starting \in [at : {"idle", "sent", "answered", "settling"}, version : 0..MaxVersion,
                     run : Snapshot, mount : 0..MaxMounts]
    /\ started \in Snapshot
    /\ outages \in 0..MaxOutages
    \* A run is cached under its own id, and the run the screen is about is not
    \* newer than the runs there are.
    /\ \A r \in Runs : tracked[r].id \in {0, r}
    /\ \A s \in {center.active, center.newest, started} : s.id # 0 => run[s.id].stage # "none"

ScreenInit ==
    /\ newestRelease = 1
    /\ run = [r \in Runs |-> [version |-> 0, stage |-> "none", done |-> FALSE]]
    /\ mounted = 0 /\ visits = 0
    /\ center = NoStatus /\ statusFetch = QuietStatus
    /\ tracked = [r \in Runs |-> NoSnapshot] /\ runFetch = QuietRun
    /\ ready = NotReady /\ checking = NoCheck
    /\ dialog = initialUpdateConfirmationState
    /\ starting = NoStart /\ started = NoSnapshot
    /\ outages = MaxOutages

-----------------------------------------------------------------------------
(* The server. *)

Requested == {r \in Runs : run[r].stage # "none"}
ActiveRuns == {r \in Runs : run[r].stage = "active"}
Snap(runs, r) == [id |-> r, stage |-> runs[r].stage]
NewestOf(runs) ==
    IF Requested = {} THEN NoSnapshot
    ELSE Snap(runs, CHOOSE r \in Requested : \A o \in Requested : o <= r)

\* A run that is read is synchronised with the agent's job.
Synced(r) == [run EXCEPT ![r].stage = IF run[r].done THEN "over" ELSE @]

Release ==
    /\ newestRelease < MaxVersion
    /\ newestRelease' = newestRelease + 1
    /\ UNCHANGED <<run, mounted, visits, center, statusFetch, tracked, runFetch, ready,
                   checking, dialog, starting, started, outages>>

Begin(r, v) ==
    /\ ActiveRuns = {} /\ r \notin Requested /\ 1..(r - 1) \subseteq Requested
    /\ run' = [run EXCEPT ![r] = [version |-> v, stage |-> "active", done |-> FALSE]]

AnotherAdministratorStarts(r) ==
    /\ Begin(r, newestRelease)
    /\ UNCHANGED <<newestRelease, mounted, visits, center, statusFetch, tracked, runFetch,
                   ready, checking, dialog, starting, started, outages>>

JobEnds(r) ==
    /\ run[r].stage = "active" /\ ~run[r].done
    /\ run' = [run EXCEPT ![r].done = TRUE]
    /\ UNCHANGED <<newestRelease, mounted, visits, center, statusFetch, tracked, runFetch,
                   ready, checking, dialog, starting, started, outages>>

-----------------------------------------------------------------------------
(* What the component derives from the hooks' results. *)

activeRunId == IF center.active.id # 0 THEN center.active.id ELSE started.id
trackedRun == IF activeRunId = 0 THEN NoSnapshot ELSE tracked[activeRunId]
shownRun == IF trackedRun # NoSnapshot THEN trackedRun
            ELSE IF started # NoSnapshot THEN started ELSE center.active
displayedRun == IF shownRun # NoSnapshot THEN shownRun ELSE center.newest
targetVersion == center.latest

\* What is typed counts for the version it was typed for.
currentPassword == IF dialog.target = targetVersion THEN dialog.password ELSE 0

confirmed == dialog.target = targetVersion /\ dialog.typed

readiness == ready
policyIsSafe == readiness.version \in Automatic
canConfirm == targetVersion # 0 /\ readiness.eligible /\ (policyIsSafe \/ confirmed)
updateOffered == center # NoStatus /\ shownRun = NoSnapshot

-----------------------------------------------------------------------------
(* The queries. *)

\* The screen mounts with fresh hooks; the status and runs cached by an earlier
\* visit are read again unless they are fresh.
Show ==
    /\ mounted = 0 /\ visits < MaxMounts
    /\ visits' = visits + 1 /\ mounted' = visits + 1
    /\ \E at \in {"idle", "sent"} :
          /\ center = NoStatus => at = "sent"
          /\ statusFetch' = [QuietStatus EXCEPT !.at = at]
    /\ UNCHANGED <<newestRelease, run, center, tracked, runFetch, ready, checking, dialog,
                   starting, started, outages>>

\* Unmounted: nothing polls, the mutations under way go on without an observer.
Leave ==
    /\ mounted # 0
    /\ mounted' = 0
    /\ statusFetch' = QuietStatus /\ runFetch' = QuietRun
    /\ ready' = NotReady /\ started' = NoSnapshot
    /\ dialog' = initialUpdateConfirmationState
    /\ UNCHANGED <<newestRelease, run, visits, center, tracked, checking, starting, outages>>

\* Asked for by Check again (or the window's focus), and every two seconds
\* while the run it last reported is active.
useUpdateCenterStatus(why) ==
    /\ mounted # 0 /\ statusFetch.at = "idle"
    /\ why = "poll" => center.active.stage = "active"
    /\ statusFetch' = [QuietStatus EXCEPT !.at = "sent"]
    /\ UNCHANGED <<newestRelease, run, mounted, visits, center, tracked, runFetch, ready,
                   checking, dialog, starting, started, outages>>

\* Mutant: the run is fetched when it is tracked, and not polled.
useUpdateRun_Once(why) ==
    /\ mounted # 0 /\ activeRunId # 0
    /\ why # "poll"
    /\ IF why = "track" THEN runFetch.id # activeRunId
       ELSE runFetch.at = "idle" /\ runFetch.id = activeRunId
    /\ runFetch' = [at |-> "sent", id |-> activeRunId, answer |-> NoSnapshot]
    /\ UNCHANGED <<newestRelease, run, mounted, visits, center, statusFetch, tracked, ready,
                   checking, dialog, starting, started, outages>>

\* Fetched when another run is tracked, unless its data is fresh, when the
\* window gets the focus, and every two seconds while its data is active: a
\* failed poll keeps the data and so the polling, a failed first fetch neither.
useUpdateRun(why) ==
    /\ mounted # 0 /\ activeRunId # 0
    /\ IF why = "track" THEN runFetch.id # activeRunId
       ELSE runFetch.at = "idle" /\ runFetch.id = activeRunId
    /\ why = "poll" => trackedRun.stage = "active"
    /\ \E at \in {"idle", "sent"} :
          /\ at = "idle" => why = "track" /\ trackedRun # NoSnapshot
          /\ runFetch' = [at |-> at, id |-> activeRunId, answer |-> NoSnapshot]
    /\ UNCHANGED <<newestRelease, run, mounted, visits, center, statusFetch, tracked, ready,
                   checking, dialog, starting, started, outages>>

\* get_update_center_status: the run that was active, as the agent has it now.
ServeStatus ==
    /\ statusFetch.at = "sent"
    /\ LET runs == IF ActiveRuns = {} THEN run ELSE Synced(CHOOSE r \in ActiveRuns : TRUE)
       IN /\ run' = runs
          /\ statusFetch' = [at |-> "answered",
                answer |-> [latest |-> newestRelease, newest |-> NewestOf(runs),
                            active |-> IF ActiveRuns = {} THEN NoSnapshot
                                       ELSE Snap(runs, CHOOSE r \in ActiveRuns : TRUE)]]
    /\ UNCHANGED <<newestRelease, mounted, visits, center, tracked, runFetch, ready,
                   checking, dialog, starting, started, outages>>

StatusArrives ==
    /\ statusFetch.at = "answered"
    /\ center' = statusFetch.answer
    /\ statusFetch' = QuietStatus
    /\ UNCHANGED <<newestRelease, run, mounted, visits, tracked, runFetch, ready, checking,
                   dialog, starting, started, outages>>

StatusFails ==
    /\ statusFetch.at = "sent" /\ outages > 0
    /\ outages' = outages - 1
    /\ statusFetch' = QuietStatus
    /\ UNCHANGED <<newestRelease, run, mounted, visits, center, tracked, runFetch, ready,
                   checking, dialog, starting, started>>

ServeRun ==
    /\ runFetch.at = "sent"
    /\ run' = Synced(runFetch.id)
    /\ runFetch' = [runFetch EXCEPT !.at = "answered",
                                    !.answer = Snap(Synced(runFetch.id), runFetch.id)]
    /\ UNCHANGED <<newestRelease, mounted, visits, center, statusFetch, tracked, ready,
                   checking, dialog, starting, started, outages>>

RunArrives ==
    /\ runFetch.at = "answered"
    /\ tracked' = [tracked EXCEPT ![runFetch.id] = runFetch.answer]
    /\ runFetch' = [runFetch EXCEPT !.at = "idle", !.answer = NoSnapshot]
    /\ UNCHANGED <<newestRelease, run, mounted, visits, center, statusFetch, ready,
                   checking, dialog, starting, started, outages>>

RunFails ==
    /\ runFetch.at = "sent" /\ outages > 0
    /\ outages' = outages - 1
    /\ runFetch' = [runFetch EXCEPT !.at = "idle"]
    /\ UNCHANGED <<newestRelease, run, mounted, visits, center, statusFetch, tracked, ready,
                   checking, dialog, starting, started>>

-----------------------------------------------------------------------------
(* Preflight. *)

runPreflight ==
    /\ mounted # 0 /\ updateOffered /\ targetVersion # 0 /\ ~dialog.open
    /\ checking.at = "idle"
    /\ checking' = [at |-> "sent", version |-> targetVersion, eligible |-> FALSE,
                    mount |-> mounted]
    /\ ready' = NotReady
    /\ UNCHANGED <<newestRelease, run, mounted, visits, center, statusFetch, tracked,
                   runFetch, dialog, starting, started, outages>>

ServePreflight ==
    /\ checking.at = "sent"
    /\ \E e \in BOOLEAN : checking' = [checking EXCEPT !.at = "answered", !.eligible = e]
    /\ UNCHANGED <<newestRelease, run, mounted, visits, center, statusFetch, tracked,
                   runFetch, ready, dialog, starting, started, outages>>

ReadStatusAgain ==
    statusFetch' = IF mounted # 0 THEN [QuietStatus EXCEPT !.at = "sent"] ELSE statusFetch

\* The result is kept whatever the target is by now; the status is read again.
useUpdatePreflight ==
    /\ checking.at = "answered"
    /\ checking' = NoCheck
    /\ IF checking.mount = mounted
       THEN ready' = [version |-> checking.version, eligible |-> checking.eligible]
       ELSE UNCHANGED ready
    /\ ReadStatusAgain
    /\ UNCHANGED <<newestRelease, run, mounted, visits, center, tracked, runFetch, dialog,
                   starting, started, outages>>

PreflightFails ==
    /\ checking.at = "sent"
    /\ checking' = NoCheck
    /\ UNCHANGED <<newestRelease, run, mounted, visits, center, statusFetch, tracked,
                   runFetch, ready, dialog, starting, started, outages>>

-----------------------------------------------------------------------------
(* The confirmation dialog: updateConfirmationReducer. *)

Dispatch(state) ==
    /\ mounted # 0
    /\ dialog' = state
    /\ UNCHANGED <<newestRelease, run, mounted, visits, center, statusFetch, tracked,
                   runFetch, ready, checking, starting, started, outages>>

openConfirmation ==
    /\ updateOffered /\ readiness.eligible
    /\ Dispatch([initialUpdateConfirmationState EXCEPT !.open = TRUE, !.target = targetVersion])

Cleared == [initialUpdateConfirmationState EXCEPT !.target = targetVersion]

closeConfirmation == dialog.open /\ Dispatch(Cleared)

confirmationChanged ==
    /\ dialog.open /\ readiness # NotReady /\ ~policyIsSafe /\ targetVersion # 0
    /\ Dispatch([dialog EXCEPT !.typed = TRUE, !.target = targetVersion,
                   !.password = IF dialog.target = targetVersion THEN @ ELSE 0])

passwordChanged ==
    /\ dialog.open /\ readiness # NotReady /\ policyIsSafe
    /\ Dispatch([dialog EXCEPT !.password = targetVersion, !.target = targetVersion,
                   !.typed = dialog.target = targetVersion /\ @])

-----------------------------------------------------------------------------
(* The start of an update. *)

\* The dialog is closed, and the password forgotten, before the request.
beginUpdate ==
    /\ mounted # 0 /\ dialog.open
    /\ canConfirm /\ policyIsSafe /\ currentPassword # 0
    /\ starting.at = "idle"
    /\ dialog' = Cleared
    /\ starting' = [at |-> "sent", version |-> targetVersion,
                    run |-> NoSnapshot, mount |-> mounted]
    /\ UNCHANGED <<newestRelease, run, mounted, visits, center, statusFetch, tracked,
                   runFetch, ready, checking, started, outages>>

\* create_update_run: a run of its own, unless one is active.
StartServed(r) ==
    /\ starting.at = "sent"
    /\ Begin(r, starting.version)
    /\ starting' = [starting EXCEPT !.at = "answered", !.run = [id |-> r, stage |-> "active"]]
    /\ UNCHANGED <<newestRelease, mounted, visits, center, statusFetch, tracked, runFetch,
                   ready, checking, dialog, started, outages>>

\* Refused, or the answer is lost.
StartFails ==
    /\ starting.at \in {"sent", "answered"}
    /\ starting' = NoStart
    /\ UNCHANGED <<newestRelease, run, mounted, visits, center, statusFetch, tracked,
                   runFetch, ready, checking, dialog, started, outages>>

\* onSuccess: the run is cached and the status read again, which the mutation
\* waits for.
useStartUpdate ==
    /\ starting.at = "answered"
    /\ tracked' = [tracked EXCEPT ![starting.run.id] = starting.run]
    /\ ReadStatusAgain
    /\ starting' = [starting EXCEPT !.at = "settling"]
    /\ UNCHANGED <<newestRelease, run, mounted, visits, center, runFetch, ready, checking,
                   dialog, started, outages>>

\* A dialog that was opened again meanwhile is closed.
StartSettles ==
    /\ starting.at = "settling" /\ (mounted # 0 => statusFetch.at = "idle")
    /\ started' = IF starting.mount = mounted THEN starting.run ELSE started
    /\ dialog' = IF starting.mount = mounted THEN Cleared ELSE dialog
    /\ starting' = NoStart
    /\ UNCHANGED <<newestRelease, run, mounted, visits, center, statusFetch, tracked,
                   runFetch, ready, checking, outages>>

-----------------------------------------------------------------------------
ScreenNext ==
    \/ Release \/ \E r \in Runs : AnotherAdministratorStarts(r) \/ JobEnds(r) \/ StartServed(r)
    \/ Show \/ Leave
    \/ \E why \in {"refresh", "poll"} : useUpdateCenterStatus(why)
    \/ \E why \in {"track", "focus", "poll"} : useUpdateRun(why)
    \/ ServeStatus \/ StatusArrives \/ StatusFails \/ ServeRun \/ RunArrives \/ RunFails
    \/ runPreflight \/ ServePreflight \/ useUpdatePreflight \/ PreflightFails
    \/ openConfirmation \/ closeConfirmation \/ confirmationChanged \/ passwordChanged
    \/ beginUpdate \/ StartFails \/ useStartUpdate \/ StartSettles

\* Timers fire, requests are answered or fail, and the agent ends its jobs.
ScreenFairness ==
    /\ \A r \in Runs : WF_screenVars(JobEnds(r))
    /\ WF_screenVars(useUpdateCenterStatus("poll"))
    /\ WF_screenVars(useUpdateRun("track")) /\ WF_screenVars(useUpdateRun("poll"))
    /\ WF_screenVars(ServeStatus) /\ WF_screenVars(StatusArrives)
    /\ WF_screenVars(ServeRun) /\ WF_screenVars(RunArrives)

ScreenSpec == ScreenInit /\ [][ScreenNext]_screenVars
ScreenFairSpec == ScreenSpec /\ ScreenFairness

-----------------------------------------------------------------------------
\* The run that is tracked and shown as active is eventually shown as over, or
\* the screen turns to another, through every outage of the server.
TrackedRunsSettle ==
    \A r \in Runs :
        (mounted # 0 /\ activeRunId = r /\ displayedRun = [id |-> r, stage |-> "active"])
        ~> ~(mounted # 0 /\ activeRunId = r /\ displayedRun = [id |-> r, stage |-> "active"])
=============================================================================
