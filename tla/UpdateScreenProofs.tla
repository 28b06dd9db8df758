-------------------------- MODULE UpdateScreenProofs --------------------------
(***************************************************************************)
(* Machine-checked proofs about the Update Center's screen (UpdateScreen), *)
(* for any releases, runs, visits and outages.                             *)
(***************************************************************************)
EXTENDS UpdateScreen, Integers, RankingProofs

(***************************************************************************)
(* The Update Center's screen.  Its types say that a run is cached under   *)
(* its own id and that no run is shown that was not requested; they are    *)
(* inductive with the answers that are still on their way: those, too, are *)
(* of runs that were requested (AnswersAreOfRuns).                         *)
(***************************************************************************)
OfARequest(s) == s.id # 0 => s.id \in Runs /\ run[s.id].stage # "none"

AnswersAreOfRuns ==
    /\ runFetch.at # "idle" => runFetch.id # 0
    /\ runFetch.answer.id \in {0, runFetch.id}
    /\ starting.at \in {"answered", "settling"} => starting.run.id # 0
    /\ OfARequest(starting.run)
    /\ OfARequest(statusFetch.answer.active) /\ OfARequest(statusFetch.answer.newest)

ScreenInv == ScreenTypeOK /\ AnswersAreOfRuns

RunRecord == [version : 0..MaxVersion, stage : RunStages, done : BOOLEAN]
RunFetch == [at : {"idle", "sent", "answered"}, id : 0..MaxRuns, answer : Snapshot]
Readiness == [version : 0..MaxVersion, eligible : BOOLEAN]
Checking == [at : {"idle", "sent", "answered"}, version : 0..MaxVersion, eligible : BOOLEAN,
             mount : 0..MaxMounts]
Dialog == [open : BOOLEAN, target : 0..MaxVersion, typed : BOOLEAN, password : 0..MaxVersion]
Starting == [at : {"idle", "sent", "answered", "settling"}, version : 0..MaxVersion,
             run : Snapshot, mount : 0..MaxMounts]

\* What a step may do to each store.
RunsGoOn ==
    /\ run' \in [Runs -> RunRecord]
    /\ \A r \in Runs : run[r].stage # "none" => run'[r].stage # "none"

ScreenMoves ==
    /\ newestRelease' = newestRelease \/ newestRelease' \in Releases
    /\ run' = run \/ RunsGoOn
    /\ mounted' \in 0..MaxMounts /\ visits' \in 0..MaxMounts
    /\ center' \in {center, statusFetch.answer}
    /\ \/ statusFetch' = statusFetch
       \/ /\ statusFetch' \in Fetch(Status)
          /\ OfARequest(statusFetch.answer.active)' /\ OfARequest(statusFetch.answer.newest)'
    /\ \/ tracked' = tracked
       \/ \E r \in Runs, s \in Snapshot : s.id \in {0, r} /\ tracked' = [tracked EXCEPT ![r] = s]
    /\ \/ runFetch' = runFetch
       \/ /\ runFetch' \in RunFetch /\ runFetch'.answer.id \in {0, runFetch'.id}
          /\ runFetch'.at # "idle" => runFetch'.id # 0
    /\ ready' \in Readiness /\ checking' \in Checking /\ dialog' \in Dialog
    /\ \/ starting' = starting
       \/ /\ starting' \in Starting /\ OfARequest(starting.run)'
          /\ starting'.at \in {"answered", "settling"} => starting'.run.id # 0
    /\ started' \in {started, NoSnapshot, starting.run}
    /\ outages' \in 0..MaxOutages

\* The types, one store at a time.
LEMMA ScreenStores ==
    ASSUME ScreenInv
    PROVE  /\ run \in [Runs -> RunRecord] /\ mounted \in 0..MaxMounts /\ visits \in 0..MaxMounts
           /\ center \in Status /\ statusFetch \in Fetch(Status)
           /\ tracked \in [Runs -> Snapshot] /\ runFetch \in RunFetch
           /\ ready \in Readiness /\ checking \in Checking /\ dialog \in Dialog
           /\ starting \in Starting /\ started \in Snapshot /\ outages \in 0..MaxOutages
           /\ newestRelease \in Releases
BY DEF ScreenInv, ScreenTypeOK, RunRecord, RunFetch, Readiness, Checking, Dialog, Starting

\* Nothing is in them at first.
LEMMA EmptyStores ==
    /\ NoSnapshot \in Snapshot /\ NoSnapshot.id = 0 /\ NoStatus \in Status
    /\ NoStatus.active = NoSnapshot /\ NoStatus.newest = NoSnapshot
    /\ \A at \in {"idle", "sent", "answered"} :
          /\ [QuietStatus EXCEPT !.at = at] \in Fetch(Status)
          /\ [QuietStatus EXCEPT !.at = at].answer = NoStatus
    /\ QuietStatus \in Fetch(Status) /\ QuietStatus.answer = NoStatus
    /\ QuietRun \in RunFetch /\ QuietRun.at = "idle" /\ QuietRun.answer = NoSnapshot
    /\ NotReady \in Readiness /\ NoCheck \in Checking /\ NoStart \in Starting
    /\ NoStart.at = "idle" /\ NoStart.run = NoSnapshot
    /\ initialUpdateConfirmationState \in Dialog
<1>1. MaxVersion \in Nat /\ MaxRuns \in Nat /\ MaxMounts \in Nat
    BY ScreenAssumption
<1>2. NoSnapshot \in Snapshot /\ NoSnapshot.id = 0
    BY <1>1 DEF NoSnapshot, Snapshot, RunStages
<1>3. NoStatus \in Status /\ NoStatus.active = NoSnapshot /\ NoStatus.newest = NoSnapshot
    BY <1>1, <1>2 DEF NoStatus, Status
<1>4. QuietStatus \in Fetch(Status) /\ QuietStatus.answer = NoStatus
    BY <1>3 DEF QuietStatus, Fetch
<1>5. ASSUME NEW at \in {"idle", "sent", "answered"}
      PROVE  /\ [QuietStatus EXCEPT !.at = at] \in Fetch(Status)
             /\ [QuietStatus EXCEPT !.at = at].answer = NoStatus
  <2>1. [QuietStatus EXCEPT !.at = at] = [at |-> at, answer |-> NoStatus]
      BY DEF QuietStatus
  <2>2. QED
      BY <1>3, <2>1 DEF Fetch
<1>6. QuietRun \in RunFetch /\ QuietRun.at = "idle" /\ QuietRun.answer = NoSnapshot
    BY <1>1, <1>2 DEF QuietRun, RunFetch
<1>7. NotReady \in Readiness /\ NoCheck \in Checking
    BY <1>1 DEF NotReady, NoCheck, Readiness, Checking
<1>8. NoStart \in Starting /\ NoStart.at = "idle" /\ NoStart.run = NoSnapshot
    BY <1>1, <1>2 DEF NoStart, Starting
<1>9. initialUpdateConfirmationState \in Dialog
    BY <1>1 DEF initialUpdateConfirmationState, Dialog
<1>10. QED
    BY <1>2, <1>3, <1>4, <1>5, <1>6, <1>7, <1>8, <1>9

\* Steps of that kind keep the invariant.
LEMMA StepMoves == ASSUME ScreenInv, ScreenMoves PROVE ScreenInv'
<1>0. /\ run \in [Runs -> RunRecord] /\ newestRelease \in Releases
      /\ center \in Status /\ statusFetch \in Fetch(Status) /\ tracked \in [Runs -> Snapshot]
      /\ runFetch \in RunFetch /\ starting \in Starting /\ started \in Snapshot
    BY ScreenStores
<1>1. run' \in [Runs -> RunRecord]
      /\ \A r \in Runs : run[r].stage # "none" => run'[r].stage # "none"
    BY <1>0 DEF ScreenMoves, RunsGoOn
<1>2. ASSUME NEW s, OfARequest(s) PROVE s.id # 0 => s.id \in Runs /\ run'[s.id].stage # "none"
    BY <1>1, <1>2 DEF OfARequest
<1>3. OfARequest(starting.run)'
    BY <1>2 DEF ScreenMoves, ScreenInv, AnswersAreOfRuns, OfARequest
<1>4. OfARequest(statusFetch.answer.active)' /\ OfARequest(statusFetch.answer.newest)'
    BY <1>2 DEF ScreenMoves, ScreenInv, AnswersAreOfRuns, OfARequest
<1>5. statusFetch.answer \in Status /\ NoSnapshot \in Snapshot /\ starting.run \in Snapshot
    BY <1>0, EmptyStores DEF Fetch, Starting
<1>6. /\ center' \in Status /\ statusFetch' \in Fetch(Status) /\ started' \in Snapshot
      /\ runFetch' \in RunFetch /\ starting' \in Starting /\ newestRelease' \in Releases
    BY <1>0, <1>5 DEF ScreenMoves
<1>7. tracked' \in [Runs -> Snapshot] /\ \A r \in Runs : tracked'[r].id \in {0, r}
    BY <1>0 DEF ScreenMoves, ScreenInv, ScreenTypeOK
<1>8. \A s \in {center.active, center.newest, started} : OfARequest(s)
  <2>1. center.active \in Snapshot /\ center.newest \in Snapshot
      BY <1>0 DEF Status
  <2>2. \A s \in Snapshot : s.id # 0 => s.id \in Runs
      BY ScreenAssumption DEF Snapshot, Runs
  <2>3. QED
      BY <1>0, <2>1, <2>2 DEF ScreenInv, ScreenTypeOK, OfARequest
<1>9. OfARequest(NoSnapshot)
    BY EmptyStores DEF OfARequest
<1>10. \A s \in {center'.active, center'.newest, started'} :
          s.id # 0 => s.id \in Runs /\ run'[s.id].stage # "none"
  <2>1. OfARequest(starting.run)
        /\ OfARequest(statusFetch.answer.active) /\ OfARequest(statusFetch.answer.newest)
      BY DEF ScreenInv, AnswersAreOfRuns
  <2>2. \A s \in {center'.active, center'.newest, started'} : OfARequest(s)
      BY <1>8, <1>9, <2>1 DEF ScreenMoves
  <2>3. QED
      BY <1>2, <2>2
<1>11. /\ mounted' \in 0..MaxMounts /\ visits' \in 0..MaxMounts /\ ready' \in Readiness
       /\ checking' \in Checking /\ dialog' \in Dialog /\ outages' \in 0..MaxOutages
    BY DEF ScreenMoves
<1>12. ScreenTypeOK'
    BY <1>1, <1>6, <1>7, <1>10, <1>11
       DEF ScreenTypeOK, RunRecord, RunFetch, Readiness, Checking, Dialog, Starting
<1>13. AnswersAreOfRuns'
  <2>1. /\ runFetch'.at # "idle" => runFetch'.id # 0
        /\ runFetch'.answer.id \in {0, runFetch'.id}
        /\ starting'.at \in {"answered", "settling"} => starting'.run.id # 0
      BY DEF ScreenMoves, ScreenInv, AnswersAreOfRuns
  <2>2. QED
      BY <1>3, <1>4, <2>1 DEF AnswersAreOfRuns
<1>14. QED
    BY <1>12, <1>13 DEF ScreenInv

\* A run that is read may end, and none is forgotten.
LEMMA SyncedRuns ==
    ASSUME run \in [Runs -> RunRecord], NEW r \in Runs
    PROVE  /\ Synced(r) \in [Runs -> RunRecord]
           /\ \A o \in Runs : run[o].stage # "none" => Synced(r)[o].stage # "none"
<1>1. PICK c : c = [run[r] EXCEPT !.stage = IF run[r].done THEN "over" ELSE @]
    OBVIOUS
<1>2. Synced(r) = [run EXCEPT ![r] = c]
    BY <1>1 DEF Synced
<1>3. PICK d \in BOOLEAN : d = run[r].done
    BY DEF RunRecord
<1>4. run[r] \in RunRecord
    OBVIOUS
<1>5. c = [version |-> run[r].version, stage |-> IF d THEN "over" ELSE run[r].stage, done |-> d]
    BY <1>1, <1>3, <1>4 DEF RunRecord
<1>6. c \in RunRecord /\ (run[r].stage # "none" => c.stage # "none")
    BY <1>3, <1>4, <1>5 DEF RunRecord, RunStages
<1>7. QED
    BY <1>2, <1>6

\* The newest run of the answer is one that was requested.
LEMMA NewestIsRequested ==
    ASSUME NEW runs \in [Runs -> RunRecord], run \in [Runs -> RunRecord],
           \A r \in Runs : run[r].stage # "none" => runs[r].stage # "none"
    PROVE  /\ NewestOf(runs) \in Snapshot
           /\ NewestOf(runs).id # 0 => /\ NewestOf(runs).id \in Runs
                                       /\ runs[NewestOf(runs).id].stage # "none"
<1>1. CASE Requested = {}
    BY <1>1, EmptyStores DEF NewestOf
<1>2. CASE Requested # {}
  <2>1. Requested \subseteq Runs /\ Requested \subseteq Int
      BY DEF Requested, Runs
  <2>2. IsFiniteSet(Requested)
    <3>1. IsFiniteSet(Runs)
      <4>1. MaxRuns \in Int /\ 1 \in Int
          BY ScreenAssumption
      <4>2. QED
          BY <4>1, FS_Interval DEF Runs
    <3>2. QED
        BY <2>1, <3>1, FS_Subset
  <2>3. \E m \in Requested : \A o \in Requested : o <= m
      BY <1>2, <2>1, <2>2, Extremes
  <2>4. PICK r \in Requested : r = CHOOSE m \in Requested : \A o \in Requested : o <= m
      BY <2>3
  <2>5. NewestOf(runs) = [id |-> r, stage |-> runs[r].stage]
      BY <1>2, <2>4 DEF NewestOf, Snap
  <2>6. r \in Runs /\ r \in 1..MaxRuns /\ runs[r].stage # "none" /\ runs[r].stage \in RunStages
    <3>1. r \in Runs /\ run[r].stage # "none"
        BY DEF Requested
    <3>2. runs[r] \in RunRecord
        BY <3>1
    <3>3. QED
        BY <3>1, <3>2 DEF Runs, RunRecord
  <2>7. QED
      BY <2>5, <2>6, ScreenAssumption DEF Snapshot
<1>3. QED
    BY <1>1, <1>2

\* What the screen derives is of the types it is derived from.
LEMMA Derived ==
    ASSUME ScreenInv
    PROVE  /\ activeRunId \in 0..MaxRuns /\ (activeRunId # 0 => activeRunId \in Runs)
           /\ targetVersion \in 0..MaxVersion
           /\ Cleared \in Dialog
<1>1. center \in Status /\ started \in Snapshot /\ MaxRuns \in Nat /\ MaxVersion \in Nat
    BY ScreenStores, ScreenAssumption
<1>2. center.active.id \in 0..MaxRuns /\ started.id \in 0..MaxRuns
    BY <1>1 DEF Status, Snapshot
<1>3. targetVersion \in 0..MaxVersion
    BY <1>1 DEF targetVersion, Status
<1>4. Cleared = [open |-> FALSE, target |-> targetVersion, typed |-> FALSE, password |-> 0]
  <2>1. PICK v : v = targetVersion
      OBVIOUS
  <2>2. Cleared = [[open |-> FALSE, target |-> 0, typed |-> FALSE, password |-> 0]
                      EXCEPT !.target = v]
      BY <2>1 DEF Cleared, initialUpdateConfirmationState
  <2>3. QED
      BY ONLY <2>1, <2>2
<1>5. Cleared \in Dialog
    BY <1>1, <1>3, <1>4 DEF Dialog
<1>6. QED
    BY <1>1, <1>2, <1>3, <1>5 DEF activeRunId, Runs

\* What a step that leaves everything else alone may do.
LEMMA Unmoved ==
    ASSUME ScreenInv
    PROVE  /\ mounted \in 0..MaxMounts /\ visits \in 0..MaxMounts
           /\ ready \in Readiness /\ checking \in Checking /\ dialog \in Dialog
           /\ outages \in 0..MaxOutages
BY ScreenStores

\* Runs that other administrators and the agent start and end.
LEMMA ServerMoves ==
    ASSUME ScreenInv, Release \/ \E r \in Runs : AnotherAdministratorStarts(r) \/ JobEnds(r)
    PROVE  ScreenMoves
<1>0. run \in [Runs -> RunRecord] /\ newestRelease \in Releases
      /\ MaxVersion \in Nat
    BY ScreenStores, ScreenAssumption
<1>1. CASE Release
    BY <1>0, <1>1, Unmoved DEF Release, ScreenMoves, Releases
<1>2. ASSUME NEW r \in Runs, AnotherAdministratorStarts(r) PROVE ScreenMoves
  <2>1. PICK c : c = [version |-> newestRelease, stage |-> "active", done |-> FALSE]
      OBVIOUS
  <2>2. c \in RunRecord /\ c.stage # "none" /\ run' = [run EXCEPT ![r] = c]
      BY <1>0, <1>2, <2>1 DEF AnotherAdministratorStarts, Begin, RunRecord, RunStages, Releases
  <2>3. RunsGoOn
      BY <1>0, <2>2 DEF RunsGoOn
  <2>4. QED
      BY <1>2, <2>3, Unmoved DEF AnotherAdministratorStarts, ScreenMoves
<1>3. ASSUME NEW r \in Runs, JobEnds(r) PROVE ScreenMoves
  <2>1. PICK c : c = [run[r] EXCEPT !.done = TRUE]
      OBVIOUS
  <2>2. run[r] \in RunRecord
      BY <1>0
  <2>3. c = [version |-> run[r].version, stage |-> run[r].stage, done |-> TRUE]
      BY <2>1, <2>2 DEF RunRecord
  <2>4. c \in RunRecord /\ c.stage = run[r].stage
      BY <2>2, <2>3 DEF RunRecord
  <2>5. run' = [run EXCEPT ![r] = c]
      BY <1>3, <2>1 DEF JobEnds
  <2>6. RunsGoOn
      BY <1>0, <2>4, <2>5 DEF RunsGoOn
  <2>7. QED
      BY <1>3, <2>6, Unmoved DEF JobEnds, ScreenMoves
<1>4. QED
    BY <1>1, <1>2, <1>3

\* The visits of the screen, and what it asks for.
LEMMA AskingMoves ==
    ASSUME ScreenInv,
           \/ Show \/ Leave \/ \E why \in {"refresh", "poll"} : useUpdateCenterStatus(why)
           \/ \E why \in {"track", "focus", "poll"} : useUpdateRun(why)
    PROVE  ScreenMoves
<1>0. MaxMounts \in Nat /\ OfARequest(NoSnapshot)
    BY ScreenAssumption, EmptyStores DEF OfARequest
<1>1. ASSUME NEW at \in {"idle", "sent", "answered"},
             statusFetch' = [QuietStatus EXCEPT !.at = at]
      PROVE  /\ statusFetch' \in Fetch(Status)
             /\ OfARequest(statusFetch.answer.active)' /\ OfARequest(statusFetch.answer.newest)'
    BY <1>1, EmptyStores DEF OfARequest
<1>2. CASE Show
  <2>1. visits' \in 0..MaxMounts /\ mounted' \in 0..MaxMounts
      BY <1>0, <1>2, Unmoved DEF Show
  <2>2. QED
      BY <1>1, <1>2, <2>1, Unmoved DEF Show, ScreenMoves
<1>3. CASE Leave
  <2>1. /\ statusFetch' \in Fetch(Status)
        /\ OfARequest(statusFetch.answer.active)' /\ OfARequest(statusFetch.answer.newest)'
      BY <1>3, EmptyStores DEF Leave, OfARequest
  <2>2. /\ runFetch' \in RunFetch /\ runFetch'.answer.id \in {0, runFetch'.id}
        /\ runFetch'.at # "idle" => runFetch'.id # 0
      BY <1>3, EmptyStores DEF Leave
  <2>3. mounted' \in 0..MaxMounts
      BY <1>0, <1>3 DEF Leave
  <2>4. QED
      BY <1>3, <2>1, <2>2, <2>3, Unmoved, EmptyStores DEF Leave, ScreenMoves
<1>4. CASE \E why \in {"refresh", "poll"} : useUpdateCenterStatus(why)
    BY <1>1, <1>4, Unmoved DEF useUpdateCenterStatus, ScreenMoves
<1>5. ASSUME NEW why \in {"track", "focus", "poll"}, useUpdateRun(why) PROVE ScreenMoves
  <2>1. PICK at \in {"idle", "sent"} : runFetch' = [at |-> at, id |-> activeRunId, answer |-> NoSnapshot]
      BY <1>5 DEF useUpdateRun
  <2>2. activeRunId # 0 /\ activeRunId \in 0..MaxRuns
      BY <1>5, Derived DEF useUpdateRun
  <2>3. NoSnapshot \in Snapshot /\ NoSnapshot.id = 0
      BY EmptyStores
  <2>4. /\ runFetch' \in RunFetch /\ runFetch'.answer.id \in {0, runFetch'.id}
        /\ runFetch'.at # "idle" => runFetch'.id # 0
      BY <2>1, <2>2, <2>3 DEF RunFetch
  <2>5. QED
      BY <1>5, <2>4, Unmoved DEF useUpdateRun, ScreenMoves
<1>6. QED
    BY <1>2, <1>3, <1>4, <1>5

\* What the server reads, and synchronises with the agent, for a query.
LEMMA ServingMoves == ASSUME ScreenInv, ServeStatus \/ ServeRun PROVE ScreenMoves
<1>0. /\ run \in [Runs -> RunRecord] /\ newestRelease \in Releases /\ runFetch \in RunFetch
      /\ statusFetch \in Fetch(Status) /\ MaxRuns \in Nat
    BY ScreenStores, ScreenAssumption
<1>1. ASSUME NEW runs \in [Runs -> RunRecord], NEW r \in Runs
      PROVE  Snap(runs, r) \in Snapshot /\ Snap(runs, r).id = r
             /\ Snap(runs, r).stage = runs[r].stage
  <2>1. runs[r].stage \in RunStages /\ r \in 0..MaxRuns
      BY <1>0, <1>1 DEF RunRecord, Runs
  <2>2. QED
      BY <2>1 DEF Snap, Snapshot
<1>2. CASE ServeStatus
  <2>1. PICK r : r = CHOOSE o \in ActiveRuns : TRUE
      OBVIOUS
  <2>2. ActiveRuns # {} => r \in Runs /\ run[r].stage = "active"
      BY <2>1 DEF ActiveRuns
  <2>3. PICK runs : runs = IF ActiveRuns = {} THEN run ELSE Synced(r)
      OBVIOUS
  <2>4. /\ runs \in [Runs -> RunRecord]
        /\ \A o \in Runs : run[o].stage # "none" => runs[o].stage # "none"
      BY <1>0, <2>2, <2>3, SyncedRuns
  <2>5. PICK active : active = IF ActiveRuns = {} THEN NoSnapshot ELSE Snap(runs, r)
      OBVIOUS
  <2>6. active \in Snapshot /\ (active.id # 0 => active.id \in Runs /\ runs[active.id].stage # "none")
    <3>1. CASE ActiveRuns = {}
        BY <2>5, <3>1, EmptyStores
    <3>2. CASE ActiveRuns # {}
        BY <1>1, <2>2, <2>4, <2>5, <3>2
    <3>3. QED
        BY <3>1, <3>2
  <2>7. PICK newest : newest = NewestOf(runs)
      OBVIOUS
  <2>8. newest \in Snapshot /\ (newest.id # 0 => newest.id \in Runs /\ runs[newest.id].stage # "none")
      BY <1>0, <2>4, <2>7, NewestIsRequested
  <2>9. /\ run' = runs
        /\ statusFetch' = [at |-> "answered", answer |-> [latest |-> newestRelease,
                             newest |-> newest, active |-> active]]
        /\ UNCHANGED <<newestRelease, mounted, visits, center, tracked, runFetch, ready,
                       checking, dialog, starting, started, outages>>
      BY <1>2, <2>1, <2>3, <2>5, <2>7 DEF ServeStatus
  <2>10. newestRelease \in 0..MaxVersion
      BY <1>0, ScreenAssumption DEF Releases
  <2>11. statusFetch' \in Fetch(Status)
      BY <2>6, <2>8, <2>9, <2>10 DEF Fetch, Status
  <2>12. OfARequest(statusFetch.answer.active)' /\ OfARequest(statusFetch.answer.newest)'
      BY <2>6, <2>8, <2>9 DEF OfARequest
  <2>13. RunsGoOn
      BY <2>4, <2>9 DEF RunsGoOn
  <2>14. QED
      BY <2>9, <2>11, <2>12, <2>13, Unmoved DEF ScreenMoves
<1>3. CASE ServeRun
  <2>1. runFetch.at = "sent" /\ runFetch.id \in Runs
      BY <1>0, <1>3 DEF ServeRun, ScreenInv, AnswersAreOfRuns, RunFetch, Runs
  <2>2. PICK r \in Runs : r = runFetch.id
      BY <2>1
  <2>3. PICK s : s = Snap(Synced(r), r)
      OBVIOUS
  <2>4. s \in Snapshot /\ s.id = r
      BY <1>0, <1>1, <2>3, SyncedRuns
  <2>5. runFetch' = [runFetch EXCEPT !.at = "answered", !.answer = s]
      BY <1>3, <2>2, <2>3 DEF ServeRun
  <2>6. runFetch' = [at |-> "answered", id |-> r, answer |-> s]
      BY <1>0, <2>2, <2>5 DEF RunFetch
  <2>7. r \in 0..MaxRuns /\ r # 0
      BY <1>0 DEF Runs
  <2>8. /\ runFetch' \in RunFetch /\ runFetch'.answer.id \in {0, runFetch'.id}
        /\ runFetch'.at # "idle" => runFetch'.id # 0
      BY <2>4, <2>6, <2>7 DEF RunFetch
  <2>9. RunsGoOn
      BY <1>0, <1>3, <2>2, SyncedRuns DEF ServeRun, RunsGoOn
  <2>10. QED
      BY <1>3, <2>8, <2>9, Unmoved DEF ServeRun, ScreenMoves
<1>4. QED
    BY <1>2, <1>3

\* What comes back, or does not.
LEMMA ArrivingMoves ==
    ASSUME ScreenInv, StatusArrives \/ StatusFails \/ RunArrives \/ RunFails
    PROVE  ScreenMoves
<1>0. runFetch \in RunFetch /\ OfARequest(NoSnapshot) /\ MaxOutages \in Nat
      /\ runFetch.answer.id \in {0, runFetch.id}
    BY ScreenStores, ScreenAssumption, EmptyStores DEF OfARequest, ScreenInv, AnswersAreOfRuns
<1>1. ASSUME statusFetch' = QuietStatus
      PROVE  /\ statusFetch' \in Fetch(Status)
             /\ OfARequest(statusFetch.answer.active)' /\ OfARequest(statusFetch.answer.newest)'
    BY <1>0, <1>1, EmptyStores DEF OfARequest
<1>2. CASE StatusArrives
    BY <1>1, <1>2, Unmoved DEF StatusArrives, ScreenMoves
<1>3. CASE StatusFails
  <2>1. outages' \in 0..MaxOutages
      BY <1>0, <1>3, Unmoved DEF StatusFails
  <2>2. QED
      BY <1>1, <1>3, <2>1, Unmoved DEF StatusFails, ScreenMoves
<1>4. CASE RunArrives
  <2>1. runFetch.id \in Runs /\ runFetch.answer \in Snapshot
      BY <1>0, <1>4 DEF RunArrives, ScreenInv, AnswersAreOfRuns, RunFetch, Runs
  <2>2. runFetch' = [runFetch EXCEPT !.at = "idle", !.answer = NoSnapshot]
      BY <1>4 DEF RunArrives
  <2>3. runFetch' = [at |-> "idle", id |-> runFetch.id, answer |-> NoSnapshot]
      BY <1>0, <2>2 DEF RunFetch
  <2>4. NoSnapshot \in Snapshot /\ NoSnapshot.id = 0 /\ runFetch.id \in 0..MaxRuns
      BY <1>0, EmptyStores DEF RunFetch
  <2>5. /\ runFetch' \in RunFetch /\ runFetch'.answer.id \in {0, runFetch'.id}
        /\ runFetch'.at # "idle" => runFetch'.id # 0
      BY <2>3, <2>4 DEF RunFetch
  <2>6. tracked' = [tracked EXCEPT ![runFetch.id] = runFetch.answer]
      BY <1>4 DEF RunArrives
  <2>7. QED
      BY <1>0, <1>4, <2>1, <2>5, <2>6, Unmoved DEF RunArrives, ScreenMoves
<1>5. CASE RunFails
  <2>1. outages' \in 0..MaxOutages
      BY <1>0, <1>5, Unmoved DEF RunFails
  <2>2. runFetch' = [runFetch EXCEPT !.at = "idle"]
      BY <1>5 DEF RunFails
  <2>3. runFetch' = [at |-> "idle", id |-> runFetch.id, answer |-> runFetch.answer]
      BY <1>0, <2>2 DEF RunFetch
  <2>4. /\ runFetch' \in RunFetch /\ runFetch'.answer.id \in {0, runFetch'.id}
        /\ runFetch'.at # "idle" => runFetch'.id # 0
      BY <1>0, <2>3 DEF RunFetch
  <2>5. QED
      BY <1>5, <2>1, <2>4, Unmoved DEF RunFails, ScreenMoves
<1>6. QED
    BY <1>2, <1>3, <1>4, <1>5

\* The status that is read again when a mutation has ended.
LEMMA ReadsAgain ==
    ASSUME ScreenInv, ReadStatusAgain
    PROVE  \/ statusFetch' = statusFetch
           \/ /\ statusFetch' \in Fetch(Status)
              /\ OfARequest(statusFetch.answer.active)' /\ OfARequest(statusFetch.answer.newest)'
<1>1. CASE mounted = 0
    BY <1>1 DEF ReadStatusAgain
<1>2. CASE mounted # 0
    BY <1>2, EmptyStores DEF ReadStatusAgain, OfARequest
<1>3. QED
    BY <1>1, <1>2

\* The preflight, whatever the target is when it is answered.
LEMMA PreflightMoves ==
    ASSUME ScreenInv, runPreflight \/ ServePreflight \/ useUpdatePreflight \/ PreflightFails
    PROVE  ScreenMoves
<1>0. /\ checking \in Checking /\ mounted \in 0..MaxMounts /\ targetVersion \in 0..MaxVersion
      /\ checking.version \in 0..MaxVersion /\ checking.eligible \in BOOLEAN
    BY ScreenStores, Derived DEF Checking
<1>1. CASE runPreflight
  <2>1. checking' = [at |-> "sent", version |-> targetVersion, eligible |-> FALSE, mount |-> mounted]
      BY <1>1 DEF runPreflight
  <2>2. checking' \in Checking
      BY <1>0, <2>1 DEF Checking
  <2>3. QED
      BY <1>1, <2>2, Unmoved, EmptyStores DEF runPreflight, ScreenMoves
<1>2. CASE ServePreflight
  <2>1. PICK e \in BOOLEAN : checking' = [checking EXCEPT !.at = "answered", !.eligible = e]
      BY <1>2, Zenon DEF ServePreflight
  <2>2. checking' = [at |-> "answered", version |-> checking.version, eligible |-> e,
                     mount |-> checking.mount]
      BY <1>0, <2>1 DEF Checking
  <2>3. checking' \in Checking
      BY <1>0, <2>2 DEF Checking
  <2>4. UNCHANGED <<newestRelease, run, mounted, visits, center, statusFetch, tracked,
                    runFetch, ready, dialog, starting, started, outages>>
      BY <1>2, Zenon DEF ServePreflight
  <2>5. QED
      BY <2>3, <2>4, Unmoved DEF ScreenMoves
<1>3. CASE useUpdatePreflight
  <2>1. ready' \in Readiness
    <3>1. [version |-> checking.version, eligible |-> checking.eligible] \in Readiness
        BY <1>0 DEF Readiness
    <3>2. QED
        BY <1>3, <3>1, Unmoved DEF useUpdatePreflight
  <2>2. checking' \in Checking
      BY <1>3, EmptyStores DEF useUpdatePreflight
  <2>3. ReadStatusAgain
      BY <1>3 DEF useUpdatePreflight
  <2>4. QED
      BY <1>3, <2>1, <2>2, <2>3, ReadsAgain, Unmoved DEF useUpdatePreflight, ScreenMoves
<1>4. CASE PreflightFails
    BY <1>4, Unmoved, EmptyStores DEF PreflightFails, ScreenMoves
<1>5. QED
    BY <1>1, <1>2, <1>3, <1>4

\* The confirmation dialog.
LEMMA DialogMoves ==
    ASSUME ScreenInv,
           openConfirmation \/ closeConfirmation \/ confirmationChanged \/ passwordChanged
    PROVE  ScreenMoves
<1>0. /\ dialog \in Dialog /\ targetVersion \in 0..MaxVersion /\ MaxVersion \in Nat
      /\ dialog.open \in BOOLEAN /\ dialog.typed \in BOOLEAN /\ dialog.password \in 0..MaxVersion
    BY ScreenStores, Derived, ScreenAssumption DEF Dialog
<1>1. PICK v \in 0..MaxVersion : v = targetVersion
    BY <1>0
<1>2. ASSUME NEW d \in Dialog, Dispatch(d) PROVE ScreenMoves
    BY <1>2, Unmoved DEF Dispatch, ScreenMoves
<1>3. CASE openConfirmation
  <2>1. PICK b \in Dialog : b = initialUpdateConfirmationState
      BY EmptyStores
  <2>2. b.typed \in BOOLEAN /\ b.password \in 0..MaxVersion
      BY DEF Dialog
  <2>3. PICK y \in BOOLEAN : y = b.typed
      BY <2>2
  <2>4. PICK d : d = [b EXCEPT !.open = TRUE, !.target = v]
      OBVIOUS
  <2>5. d = [open |-> TRUE, target |-> v, typed |-> y, password |-> b.password]
      BY <2>3, <2>4 DEF Dialog
  <2>6. d \in Dialog
      BY <2>2, <2>5 DEF Dialog
  <2>7. Dispatch(d)
      BY <1>1, <1>3, <2>1, <2>4 DEF openConfirmation
  <2>8. QED
      BY <1>2, <2>6, <2>7
<1>4. CASE closeConfirmation
    BY <1>2, <1>4, Derived DEF closeConfirmation
<1>5. CASE confirmationChanged
  <2>1. PICK d : d = [dialog EXCEPT !.typed = TRUE, !.target = v,
                                    !.password = IF dialog.target = v THEN @ ELSE 0]
      OBVIOUS
  <2>2. PICK o \in BOOLEAN : o = dialog.open
      BY <1>0
  <2>3. PICK w \in 0..MaxVersion : w = IF dialog.target = v THEN dialog.password ELSE 0
      BY <1>0
  <2>4. d = [open |-> o, target |-> v, typed |-> TRUE, password |-> w]
      BY <1>0, <2>1, <2>2, <2>3 DEF Dialog
  <2>5. d \in Dialog
      BY <2>4 DEF Dialog
  <2>6. Dispatch(d)
      BY <1>1, <1>5, <2>1 DEF confirmationChanged
  <2>7. QED
      BY <1>2, <2>5, <2>6
<1>6. CASE passwordChanged
  <2>1. PICK d : d = [dialog EXCEPT !.password = v, !.target = v,
                                    !.typed = dialog.target = v /\ @]
      OBVIOUS
  <2>2. PICK o \in BOOLEAN : o = dialog.open
      BY <1>0
  <2>3. PICK y \in BOOLEAN : y = (dialog.target = v /\ dialog.typed)
      BY <1>0
  <2>4. d = [open |-> o, target |-> v, typed |-> y, password |-> v]
      BY <1>0, <2>1, <2>2, <2>3 DEF Dialog
  <2>5. d \in Dialog
      BY <2>4 DEF Dialog
  <2>6. Dispatch(d)
      BY <1>1, <1>6, <2>1 DEF passwordChanged
  <2>7. QED
      BY <1>2, <2>5, <2>6
<1>7. QED
    BY <1>3, <1>4, <1>5, <1>6

\* The start of an update, whose run is the one that was created for it.
LEMMA StartMoves ==
    ASSUME ScreenInv,
           \/ beginUpdate \/ StartFails \/ useStartUpdate \/ StartSettles
           \/ \E r \in Runs : StartServed(r)
    PROVE  ScreenMoves
<1>0. /\ starting \in Starting /\ run \in [Runs -> RunRecord]
      /\ mounted \in 0..MaxMounts /\ targetVersion \in 0..MaxVersion
      /\ starting.version \in 0..MaxVersion /\ starting.run \in Snapshot
      /\ starting.mount \in 0..MaxMounts /\ OfARequest(starting.run)
      /\ NoSnapshot \in Snapshot /\ NoSnapshot.id = 0 /\ Cleared \in Dialog /\ MaxRuns \in Nat
    BY ScreenStores, Derived, EmptyStores, ScreenAssumption
       DEF Starting, ScreenInv, AnswersAreOfRuns
<1>1. ASSUME starting' = NoStart
      PROVE  /\ starting' \in Starting /\ OfARequest(starting.run)'
             /\ starting'.at \in {"answered", "settling"} => starting'.run.id # 0
    BY <1>1, EmptyStores DEF OfARequest
<1>2. CASE beginUpdate
  <2>1. starting' = [at |-> "sent", version |-> targetVersion, run |-> NoSnapshot, mount |-> mounted]
      BY <1>2 DEF beginUpdate
  <2>2. /\ starting' \in Starting /\ OfARequest(starting.run)'
        /\ starting'.at \in {"answered", "settling"} => starting'.run.id # 0
      BY <1>0, <2>1 DEF Starting, OfARequest
  <2>3. QED
      BY <1>0, <1>2, <2>2, Unmoved DEF beginUpdate, ScreenMoves
<1>3. CASE StartFails
    BY <1>1, <1>3, Unmoved DEF StartFails, ScreenMoves
<1>4. ASSUME NEW r \in Runs, StartServed(r) PROVE ScreenMoves
  <2>0. /\ Begin(r, starting.version)
        /\ starting' = [starting EXCEPT !.at = "answered", !.run = [id |-> r, stage |-> "active"]]
        /\ UNCHANGED <<newestRelease, mounted, visits, center, statusFetch, tracked, runFetch,
                       ready, checking, dialog, started, outages>>
      BY <1>4, Zenon DEF StartServed
  <2>1. PICK c : c = [version |-> starting.version, stage |-> "active", done |-> FALSE]
      OBVIOUS
  <2>2. c \in RunRecord /\ c.stage # "none" /\ run' = [run EXCEPT ![r] = c]
      BY <1>0, <2>0, <2>1 DEF Begin, RunRecord, RunStages
  <2>3. RunsGoOn /\ run'[r].stage # "none"
      BY <1>0, <2>2 DEF RunsGoOn
  <2>4. PICK s : s = [id |-> r, stage |-> "active"]
      OBVIOUS
  <2>5. r \in 0..MaxRuns /\ r # 0
      BY <1>0 DEF Runs
  <2>6. s \in Snapshot /\ s.id = r
      BY <2>4, <2>5 DEF Snapshot, RunStages
  <2>7. starting' = [starting EXCEPT !.at = "answered", !.run = s]
      BY ONLY <2>0, <2>4, Zenon
  <2>8. starting' = [at |-> "answered", version |-> starting.version, run |-> s,
                     mount |-> starting.mount]
      BY <1>0, <2>7 DEF Starting
  <2>9. /\ starting' \in Starting /\ OfARequest(starting.run)'
        /\ starting'.at \in {"answered", "settling"} => starting'.run.id # 0
      BY <1>0, <2>3, <2>5, <2>6, <2>8 DEF Starting, OfARequest
  <2>10. QED
      BY <2>0, <2>3, <2>9, Unmoved DEF ScreenMoves
<1>5. CASE useStartUpdate
  <2>1. starting.at = "answered" /\ starting.run.id # 0 /\ starting.run.id \in Runs
      BY <1>0, <1>5 DEF useStartUpdate, ScreenInv, AnswersAreOfRuns, OfARequest
  <2>2. starting' = [starting EXCEPT !.at = "settling"]
      BY <1>5 DEF useStartUpdate
  <2>3. starting' = [at |-> "settling", version |-> starting.version, run |-> starting.run,
                     mount |-> starting.mount]
      BY <1>0, <2>2 DEF Starting
  <2>4. run' = run
      BY <1>5 DEF useStartUpdate
  <2>5. /\ starting' \in Starting /\ OfARequest(starting.run)'
        /\ starting'.at \in {"answered", "settling"} => starting'.run.id # 0
      BY <1>0, <2>1, <2>3, <2>4 DEF Starting, OfARequest
  <2>6. ReadStatusAgain
      BY <1>5 DEF useStartUpdate
  <2>7. tracked' = [tracked EXCEPT ![starting.run.id] = starting.run]
      BY <1>5 DEF useStartUpdate
  <2>8. QED
      BY <1>0, <1>5, <2>1, <2>5, <2>6, <2>7, ReadsAgain, Unmoved DEF useStartUpdate, ScreenMoves
<1>6. CASE StartSettles
    BY <1>0, <1>1, <1>6, Unmoved DEF StartSettles, ScreenMoves
<1>7. QED
    BY <1>2, <1>3, <1>4, <1>5, <1>6

\* A screen that has not been shown, and no update.
LEMMA InitScreen == ScreenInit => ScreenInv
<1> SUFFICES ASSUME ScreenInit PROVE ScreenInv
    OBVIOUS
<1>1. /\ MaxVersion \in Nat /\ MaxVersion # 0 /\ MaxRuns \in Nat /\ MaxOutages \in Nat
      /\ MaxMounts \in Nat
    BY ScreenAssumption
<1>2. /\ newestRelease \in Releases /\ mounted \in 0..MaxMounts /\ visits \in 0..MaxMounts
      /\ outages \in 0..MaxOutages
    BY <1>1 DEF ScreenInit, Releases
<1>3. PICK c : c = [version |-> 0, stage |-> "none", done |-> FALSE]
    OBVIOUS
<1>4. c \in RunRecord
    BY <1>1, <1>3 DEF RunRecord, RunStages
<1>5. run \in [Runs -> RunRecord] /\ tracked \in [Runs -> Snapshot]
      /\ \A r \in Runs : tracked[r].id = 0
    BY <1>3, <1>4, EmptyStores DEF ScreenInit
<1>6. /\ center \in Status /\ statusFetch \in Fetch(Status) /\ runFetch \in RunFetch
      /\ ready \in Readiness /\ checking \in Checking /\ dialog \in Dialog
      /\ starting \in Starting /\ started \in Snapshot
    BY EmptyStores DEF ScreenInit
<1>7. \A s \in {center.active, center.newest, started} : s.id = 0
    BY EmptyStores DEF ScreenInit
<1>8. ScreenTypeOK
    BY <1>2, <1>5, <1>6, <1>7
       DEF ScreenTypeOK, RunRecord, RunFetch, Readiness, Checking, Dialog, Starting
<1>9. AnswersAreOfRuns
    BY EmptyStores DEF ScreenInit, AnswersAreOfRuns, OfARequest
<1>10. QED
    BY <1>8, <1>9 DEF ScreenInv

\* No step of the screen, the server or another administrator disturbs it.
LEMMA StepScreen == ASSUME ScreenInv, [ScreenNext]_screenVars PROVE ScreenInv'
<1>1. CASE UNCHANGED screenVars
    BY <1>1, Unmoved, StepMoves DEF screenVars, ScreenMoves
<1>2. CASE ScreenNext
    BY <1>2, ServerMoves, AskingMoves, ServingMoves, ArrivingMoves, PreflightMoves, DialogMoves,
       StartMoves, StepMoves DEF ScreenNext
<1>3. QED
    BY <1>1, <1>2

\* The inductive invariant of the screen.
THEOREM ScreenInvariance == ScreenSpec => []ScreenInv
BY InitScreen, StepScreen, PTL DEF ScreenSpec

\* The screen's stores are about runs and versions there are, whatever fails,
\* arrives late or goes on without an observer: a run is cached under its own
\* id, and none is shown or tracked that was not requested.
THEOREM ScreenTypes == ScreenSpec => []ScreenTypeOK
<1>1. ScreenInv => ScreenTypeOK
    BY DEF ScreenInv
<1>2. QED
    BY <1>1, ScreenInvariance, PTL
=============================================================================
