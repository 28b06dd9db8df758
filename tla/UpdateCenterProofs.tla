-------------------------- MODULE UpdateCenterProofs --------------------------
(***************************************************************************)
(* Machine-checked proofs about UpdateCenter, for any number of keys,      *)
(* versions, request handlers and crashes, on top of what UpdateJob        *)
(* promises of the agent's jobs.                                           *)
(*                                                                         *)
(* The inductive invariant IInv says what a handler may rely on of the row *)
(* and the job it works for (Knows), although it read the row without a    *)
(* lock, and whose answer a request in flight will be (MessagesAreAwaited).*)
(***************************************************************************)
EXTENDS UpdateCenter, TLAPS

\* What handler h knows: its run is in the database and keeps its target; a
\* job id it holds or was promised is of a job for that target; and what it
\* read of a finished job is still so.
Knows(h) ==
    LET H == handler[h] IN
    /\ H.pc # "idle" => H.key \in Keys
    /\ H.pc \notin {"idle", "insert"} =>
           runs[H.key].status # "none" /\ runs[H.key].target = H.run.target
    /\ H.pc \in {"poll", "save"} \/ (H.pc = "waiting" /\ H.reply = "accepted") =>
           state[H.key] # "NONE" /\ target[H.key] = H.run.target
    /\ H.pc \in {"poll", "save"} => H.run.acked
    /\ H.pc \in {"insert", "mark", "preflight", "send"} => H.reply = "none"
    /\ H.pc = "save" =>
           /\ H.reply \in ActivePhases \cup Outcomes
           /\ H.reply = "SUCCEEDED" => state[H.key] = "SUCCEEDED"

HandlersKnow == \A h \in Handlers : Knows(h)

\* A start request whose caller still waits carries what the caller sent.
MessagesAreAwaited ==
    \A m \in inflight : m.by # "none" =>
        /\ handler[m.by].pc = "waiting" /\ handler[m.by].reply = "none"
        /\ handler[m.by].key = m.key /\ handler[m.by].run.target = m.target

IInv ==
    /\ CenterTypeOK /\ HandlersKnow /\ MessagesAreAwaited
    /\ NoFalseSuccess /\ AcknowledgedRunsHaveTheirJob

\* What no step takes back: a job's existence, target and success, a row's
\* existence and target.
JobsAreKept ==
    \A k \in Keys : state[k] # "NONE" =>
        /\ state'[k] # "NONE" /\ target'[k] = target[k]
        /\ state[k] = "SUCCEEDED" => state'[k] = "SUCCEEDED"

RunsAreKept ==
    \A k \in Keys : runs[k].status # "none" =>
        runs'[k].status # "none" /\ runs'[k].target = runs[k].target

-----------------------------------------------------------------------------

\* The phases, spelt out.
LEMMA Phases ==
    ActivePhases = {"REQUESTED", "PREFLIGHT", "BACKING_UP", "DEPLOYING", "VERIFYING"}
BY DEF ActivePhases, PhaseOrder

\* status.lower() of what the agent reports.
LEMMA LowerType ==
    ASSUME NEW s \in ActivePhases \cup Outcomes
    PROVE  /\ Lower[s] \in ACTIVE_STATUSES \cup TERMINAL_STATUSES
           /\ Lower[s] = "succeeded" => s = "SUCCEEDED"
BY Phases DEF Outcomes, Lower, ACTIVE_STATUSES, TERMINAL_STATUSES

\* Nothing is running and nothing was asked.
LEMMA InitIInv == Init => IInv
<1> SUFFICES ASSUME Init PROVE IInv
    OBVIOUS
<1>1. CenterTypeOK
    BY CenterAssumption DEF Init, JobInit, CenterTypeOK, NoRun, Run, Idle, Handler, HandlerPCs, Replies
<1>2. HandlersKnow /\ MessagesAreAwaited
    BY DEF Init, HandlersKnow, Knows, MessagesAreAwaited, Idle
<1>3. NoFalseSuccess /\ AcknowledgedRunsHaveTheirJob
    BY DEF Init, NoFalseSuccess, AcknowledgedRunsHaveTheirJob, NoRun
<1>4. QED
    BY <1>1, <1>2, <1>3 DEF IInv

\* What a handler knows survives the steps of others.
LEMMA KnowledgeIsKept ==
    ASSUME NEW h \in Handlers, Knows(h), handler'[h] = handler[h], JobsAreKept, RunsAreKept
    PROVE  Knows(h)'
BY DEF Knows, JobsAreKept, RunsAreKept

-----------------------------------------------------------------------------
(* The agent's jobs.                                                       *)

\* The agent accepts a job under a key that has none.
LEMMA AcceptKeeps ==
    ASSUME CenterTypeOK, NEW k \in Keys, NEW t \in Versions, Accept(k, t)
    PROVE  /\ state' \in [Keys -> ActivePhases \cup Outcomes \cup {"NONE"}]
           /\ target' \in [Keys -> Versions]
           /\ JobsAreKept /\ state'[k] # "NONE" /\ target'[k] = t
BY Phases DEF Accept, JobsAreKept, CenterTypeOK

\* The agent's own steps leave targets and outcomes as they are.
LEMMA AgentKeeps ==
    ASSUME CenterTypeOK, NEW k \in Keys, AgentStep(k)
    PROVE  /\ state' \in [Keys -> ActivePhases \cup Outcomes \cup {"NONE"}]
           /\ target' \in [Keys -> Versions] /\ JobsAreKept
<1>1. PICK s \in ActivePhases \cup Outcomes :
          state[k] \in ActivePhases /\ state' = [state EXCEPT ![k] = s]
    BY Phases DEF AgentStep, Advance, Succeed, Fail, NeedOperator, Outcomes
<1>2. target' = target
    BY DEF AgentStep, Advance, Succeed, Fail, NeedOperator
<1>3. "NONE" \notin ActivePhases \cup Outcomes /\ "SUCCEEDED" \notin ActivePhases
    BY Phases DEF Outcomes
<1>4. QED
    BY <1>1, <1>2, <1>3 DEF CenterTypeOK, JobsAreKept

-----------------------------------------------------------------------------
(* The handlers.                                                           *)

\* A handler that is over is a handler, and relies on nothing.
LEMMA IdleHandler ==
    Idle \in Handler /\ \A h \in Handlers : handler'[h] = Idle => Knows(h)'
<1>1. Idle \in Handler
    BY CenterAssumption DEF Idle, Handler, HandlerPCs, Replies, NoRun, Run
<1>2. ASSUME NEW h \in Handlers, handler'[h] = Idle PROVE Knows(h)'
    BY <1>2 DEF Idle, Knows
<1>3. QED
    BY <1>1, <1>2

\* What is left to show of a step of one handler.
LEMMA HandlerMoves ==
    ASSUME IInv, NEW h \in Handlers, UNCHANGED <<jobVars, crm, restarts>>,
           handler' \in [Handlers -> Handler],
           \A g \in Handlers \ {h} : handler'[g] = handler[g],
           runs' \in [Keys -> Run], RunsAreKept,
           NoFalseSuccess', AcknowledgedRunsHaveTheirJob',
           inflight' \subseteq Message,
           \A m \in inflight' : m.by # "none" => m \in inflight /\ m.by # h,
           Knows(h)'
    PROVE  IInv'
<1>1. CenterTypeOK'
    BY DEF IInv, CenterTypeOK, jobVars
<1>2. JobsAreKept
    BY DEF JobsAreKept, jobVars
<1>3. HandlersKnow'
    BY <1>2, KnowledgeIsKept DEF IInv, HandlersKnow
<1>4. MessagesAreAwaited'
    BY DEF MessagesAreAwaited, IInv, CenterTypeOK, Message
<1>5. QED
    BY <1>1, <1>3, <1>4 DEF IInv

\* Only a handler that waits for its answer has a request in flight.
LEMMA NoRequestInFlight ==
    ASSUME IInv, NEW h \in Handlers, handler[h].pc # "waiting" \/ handler[h].reply # "none"
    PROVE  \A m \in inflight : m.by # "none" => m.by # h
BY DEF IInv, MessagesAreAwaited

\* The start of a request that finds a run under its key.
LEMMA ResumeMoves ==
    ASSUME IInv, NEW h \in Handlers, NEW k \in Keys, handler[h].pc \in {"idle", "insert"},
           runs[k].status # "none", Resume(h, k, runs[k]),
           UNCHANGED <<jobVars, inflight, runs, crm, restarts>>
    PROVE  IInv'
<1>1. runs[k] \in Run
    BY DEF IInv, CenterTypeOK
<1>2. \/ handler'[h] = Idle
      \/ handler'[h] = [pc |-> "send", key |-> k, run |-> runs[k], resume |-> TRUE, reply |-> "none"]
    BY DEF Resume, Idle, IInv, CenterTypeOK
<1>3. handler'[h] \in Handler
  <2>1. [pc |-> "send", key |-> k, run |-> runs[k], resume |-> TRUE, reply |-> "none"] \in Handler
      BY <1>1 DEF Handler, HandlerPCs, Replies
  <2>2. QED
      BY <2>1, <1>2, IdleHandler
<1>4. handler' \in [Handlers -> Handler] /\ \A g \in Handlers \ {h} : handler'[g] = handler[g]
    BY <1>3 DEF Resume, IInv, CenterTypeOK
<1>5. Knows(h)'
    BY <1>2, IdleHandler DEF Knows
<1>6. RunsAreKept /\ NoFalseSuccess' /\ AcknowledgedRunsHaveTheirJob'
    BY DEF RunsAreKept, NoFalseSuccess, AcknowledgedRunsHaveTheirJob, IInv, jobVars
<1>7. QED
    BY <1>4, <1>5, <1>6, NoRequestInFlight, HandlerMoves DEF IInv, CenterTypeOK

\* The first lookup of the key.
LEMMA StartPreserves ==
    ASSUME IInv, NEW h \in Handlers, NEW k \in Keys, NEW t \in Versions, StartRequest(h, k, t)
    PROVE  IInv'
<1>1. CASE runs[k].status # "none"
    BY <1>1, ResumeMoves DEF StartRequest
<1>2. CASE runs[k].status = "none"
  <2>1. handler' = [handler EXCEPT ![h] = [Idle EXCEPT !.pc = "insert", !.key = k, !.run.target = t]]
      BY <1>2 DEF StartRequest
  <2>2. ASSUME NEW H, H = [Idle EXCEPT !.pc = "insert", !.key = k, !.run.target = t]
        PROVE  H = [pc |-> "insert", key |-> k, resume |-> FALSE, reply |-> "none",
                    run |-> [status |-> "none", target |-> t, acked |-> FALSE]]
      BY <2>2 DEF Idle, NoRun
  <2>3. handler'[h] = [pc |-> "insert", key |-> k, resume |-> FALSE, reply |-> "none",
                       run |-> [status |-> "none", target |-> t, acked |-> FALSE]]
      BY <2>1, <2>2 DEF IInv, CenterTypeOK
  <2>4. handler'[h] \in Handler /\ Knows(h)'
      BY <2>3 DEF Handler, HandlerPCs, Replies, Run, Knows
  <2>5. handler' \in [Handlers -> Handler] /\ \A g \in Handlers \ {h} : handler'[g] = handler[g]
      BY <2>1, <2>4 DEF IInv, CenterTypeOK
  <2>6. RunsAreKept /\ NoFalseSuccess' /\ AcknowledgedRunsHaveTheirJob'
      BY DEF StartRequest, RunsAreKept, NoFalseSuccess, AcknowledgedRunsHaveTheirJob, IInv, jobVars
  <2>7. QED
      BY <2>4, <2>5, <2>6, NoRequestInFlight, HandlerMoves DEF StartRequest, IInv, CenterTypeOK
<1>3. QED
    BY <1>1, <1>2

\* A handler whose request moves on stays a handler.
LEMMA HandlerWith ==
    ASSUME NEW s \in Handler, NEW pc \in HandlerPCs, NEW run \in Run, NEW reply \in Replies
    PROVE  /\ [s EXCEPT !.pc = pc, !.run = run] \in Handler
           /\ [s EXCEPT !.pc = pc, !.reply = reply] \in Handler
<1>1. PICK x, y : x = [s EXCEPT !.pc = pc, !.run = run] /\ y = [s EXCEPT !.pc = pc, !.reply = reply]
    OBVIOUS
<1>2. PICK key, resume : key = s.key /\ resume = s.resume
    OBVIOUS
<1>3. key \in Keys \cup {"none"} /\ s.run \in Run /\ resume \in BOOLEAN /\ s.reply \in Replies
    BY <1>2 DEF Handler
<1>4. x = [pc |-> pc, key |-> key, run |-> run, resume |-> resume, reply |-> s.reply]
    BY <1>1, <1>2 DEF Handler
<1>5. y = [pc |-> pc, key |-> key, run |-> s.run, resume |-> resume, reply |-> reply]
    BY <1>1, <1>2 DEF Handler
<1>6. x \in Handler /\ y \in Handler
    BY <1>3, <1>4, <1>5 DEF Handler
<1>7. QED
    BY <1>1, <1>6

\* The row is inserted, replayed or refused.
LEMMA InsertPreserves ==
    ASSUME IInv, NEW h \in Handlers, InsertRun(h) PROVE IInv'
<1> DEFINE k == handler[h].key
           t == handler[h].run.target
           new == [status |-> "requested", target |-> t, acked |-> FALSE]
<1>1. handler[h].pc = "insert" /\ k \in Keys /\ t \in Versions /\ handler[h].reply = "none"
    BY DEF InsertRun, IInv, HandlersKnow, Knows, CenterTypeOK, Handler, Run
<1>2. CASE runs[k].status # "none" /\ Resume(h, k, runs[k]) /\ UNCHANGED runs
    BY <1>1, <1>2, ResumeMoves DEF InsertRun
<1>3. CASE End(h) /\ UNCHANGED runs
  <2>1. /\ handler'[h] = Idle /\ handler' \in [Handlers -> Handler]
        /\ \A g \in Handlers \ {h} : handler'[g] = handler[g]
      BY <1>3, IdleHandler DEF End, IInv, CenterTypeOK
  <2>2. RunsAreKept /\ NoFalseSuccess' /\ AcknowledgedRunsHaveTheirJob'
      BY <1>3 DEF InsertRun, RunsAreKept, NoFalseSuccess, AcknowledgedRunsHaveTheirJob, IInv, jobVars
  <2>3. QED
      BY <2>1, <2>2, <1>1, <1>3, IdleHandler, NoRequestInFlight, HandlerMoves
         DEF InsertRun, IInv, CenterTypeOK
<1>4. CASE /\ runs[k].status = "none" /\ runs' = [runs EXCEPT ![k] = new]
           /\ handler' = [handler EXCEPT ![h].pc = "mark", ![h].run = new]
  <2>1. new \in Run
      BY <1>1 DEF Run, ACTIVE_STATUSES
  <2>2. runs' \in [Keys -> Run] /\ runs'[k] = new /\ \A j \in Keys \ {k} : runs'[j] = runs[j]
      BY <1>1, <1>4, <2>1 DEF IInv, CenterTypeOK
  <2>3. handler' \in [Handlers -> Handler] /\ \A g \in Handlers \ {h} : handler'[g] = handler[g]
    <3>1. handler \in [Handlers -> Handler] /\ "mark" \in HandlerPCs /\ "none" \in Replies
        BY DEF IInv, CenterTypeOK, HandlerPCs, Replies
    <3>2. [handler[h] EXCEPT !.pc = "mark", !.run = new] \in Handler
        BY ONLY <2>1, <3>1, HandlerWith
    <3>3. PICK s \in Handler : handler' = [handler EXCEPT ![h] = s]
        BY <1>4, <3>2
    <3>4. QED
        BY ONLY <3>1, <3>3
  <2>4. handler'[h].pc = "mark" /\ handler'[h].key = k /\ handler'[h].run = new
        /\ handler'[h].reply = "none"
      BY <1>1, <1>4 DEF IInv, CenterTypeOK, Handler
  <2>5. Knows(h)'
      BY <1>1, <2>2, <2>4 DEF Knows
  <2>6. RunsAreKept /\ NoFalseSuccess' /\ AcknowledgedRunsHaveTheirJob'
      BY <1>4, <2>2 DEF InsertRun, RunsAreKept, NoFalseSuccess, AcknowledgedRunsHaveTheirJob, IInv, jobVars
  <2>7. QED
      BY <2>2, <2>3, <2>5, <2>6, <1>1, NoRequestInFlight, HandlerMoves DEF InsertRun, IInv, CenterTypeOK
<1>5. QED
    BY <1>2, <1>3, <1>4 DEF InsertRun

\* A status is saved: never a success, and only of the row it belongs to.
LEMMA SaveKeeps ==
    ASSUME IInv, NEW h \in Handlers, handler[h].key \in Keys,
           runs[handler[h].key].status # "none",
           NEW status \in {"preflight", "failed", "manual_intervention"}, SaveStatus(h, status),
           UNCHANGED jobVars
    PROVE  /\ runs' \in [Keys -> Run] /\ RunsAreKept
           /\ NoFalseSuccess' /\ AcknowledgedRunsHaveTheirJob'
<1> DEFINE k == handler[h].key
<1>1. CASE UNCHANGED runs
    BY <1>1 DEF RunsAreKept, NoFalseSuccess, AcknowledgedRunsHaveTheirJob, IInv, CenterTypeOK, jobVars
<1>2. CASE runs' = [runs EXCEPT ![k].status = status]
  <2>1. runs' \in [Keys -> Run]
      BY <1>2 DEF IInv, CenterTypeOK, Run, ACTIVE_STATUSES, TERMINAL_STATUSES
  <2>2. /\ runs'[k].status = status /\ runs'[k].target = runs[k].target /\ runs'[k].acked = runs[k].acked
        /\ \A j \in Keys \ {k} : runs'[j] = runs[j]
      BY <1>2 DEF IInv, CenterTypeOK, Run
  <2>3. RunsAreKept /\ NoFalseSuccess' /\ AcknowledgedRunsHaveTheirJob'
      BY <2>2 DEF RunsAreKept, NoFalseSuccess, AcknowledgedRunsHaveTheirJob, IInv, jobVars
  <2>4. QED
      BY <2>1, <2>3
<1>3. QED
    BY <1>1, <1>2 DEF SaveStatus

\* A handler that saves a status and ends, or just ends.
LEMMA EndMoves ==
    ASSUME IInv, NEW h \in Handlers, UNCHANGED <<jobVars, crm, restarts>>, End(h),
           runs' \in [Keys -> Run], RunsAreKept, NoFalseSuccess', AcknowledgedRunsHaveTheirJob',
           inflight' \subseteq Message,
           \A m \in inflight' : m.by # "none" => m \in inflight /\ m.by # h
    PROVE  IInv'
<1>1. /\ handler'[h] = Idle /\ handler' \in [Handlers -> Handler]
      /\ \A g \in Handlers \ {h} : handler'[g] = handler[g]
    BY IdleHandler DEF End, IInv, CenterTypeOK
<1>2. QED
    BY <1>1, IdleHandler, HandlerMoves

\* run.save of "preflight".
LEMMA MarkPreserves ==
    ASSUME IInv, NEW h \in Handlers, MarkPreflight(h) PROVE IInv'
<1>1. /\ handler[h].pc = "mark" /\ handler[h].key \in Keys /\ handler[h].reply = "none"
      /\ runs[handler[h].key].status # "none" /\ runs[handler[h].key].target = handler[h].run.target
      /\ handler[h] \in Handler
    BY DEF MarkPreflight, IInv, HandlersKnow, Knows, CenterTypeOK
<1>2. UNCHANGED <<jobVars, inflight, crm, restarts>> /\ SaveStatus(h, "preflight")
    BY DEF MarkPreflight
<1>3. /\ runs' \in [Keys -> Run] /\ RunsAreKept
      /\ NoFalseSuccess' /\ AcknowledgedRunsHaveTheirJob'
    BY <1>1, <1>2, SaveKeeps
<1>4. \A m \in inflight' : m.by # "none" => m \in inflight /\ m.by # h
    BY <1>1, <1>2, NoRequestInFlight
<1>5. CASE End(h)
    BY <1>2, <1>3, <1>4, <1>5, EndMoves DEF IInv, CenterTypeOK
<1>6. CASE handler' = [handler EXCEPT ![h] = [@ EXCEPT !.pc = "preflight", !.run.status = "preflight"]]
  <2>1. handler[h].run \in Run
      BY <1>1 DEF Handler
  <2>2. ASSUME NEW H, H = [handler[h] EXCEPT !.pc = "preflight", !.run.status = "preflight"]
        PROVE  H = [pc |-> "preflight", key |-> handler[h].key, resume |-> handler[h].resume,
                    reply |-> handler[h].reply,
                    run |-> [status |-> "preflight", target |-> handler[h].run.target,
                             acked |-> handler[h].run.acked]]
    <3>1. [handler[h].run EXCEPT !.status = "preflight"]
             = [status |-> "preflight", target |-> handler[h].run.target, acked |-> handler[h].run.acked]
        BY <2>1 DEF Run
    <3>2. QED
        BY <2>2, <3>1, <1>1 DEF Handler
  <2>3. handler'[h] = [pc |-> "preflight", key |-> handler[h].key, resume |-> handler[h].resume,
                       reply |-> handler[h].reply,
                       run |-> [status |-> "preflight", target |-> handler[h].run.target,
                                acked |-> handler[h].run.acked]]
      BY <1>6, <2>2 DEF IInv, CenterTypeOK
  <2>4. [status |-> "preflight", target |-> handler[h].run.target, acked |-> handler[h].run.acked] \in Run
      BY <2>1 DEF Run, ACTIVE_STATUSES
  <2>5. handler'[h] \in Handler
      BY <2>3, <2>4, <1>1 DEF Handler, HandlerPCs
  <2>6. handler' \in [Handlers -> Handler] /\ \A g \in Handlers \ {h} : handler'[g] = handler[g]
      BY <1>6, <2>5 DEF IInv, CenterTypeOK
  <2>7. Knows(h)'
      BY <2>3, <1>1, <1>3 DEF Knows, RunsAreKept
  <2>8. QED
      BY <2>6, <2>7, <1>2, <1>3, <1>4, HandlerMoves DEF IInv, CenterTypeOK
<1>7. QED
    BY <1>5, <1>6 DEF MarkPreflight, End

\* A handler goes on to send its request, or has sent it.
LEMMA PCMoves ==
    ASSUME IInv, NEW h \in Handlers, NEW pc \in {"send", "waiting"}, RunsAreKept,
           handler[h].pc \in {"preflight", "send"}, handler' = [handler EXCEPT ![h].pc = pc]
    PROVE  /\ handler' \in [Handlers -> Handler] /\ Knows(h)'
           /\ handler'[h].pc = pc /\ handler'[h].reply = "none"
           /\ handler'[h].key = handler[h].key /\ handler'[h].run = handler[h].run
           /\ \A g \in Handlers \ {h} : handler'[g] = handler[g]
<1>1. /\ handler' \in [Handlers -> Handler] /\ handler[h].reply = "none"
      /\ handler'[h].pc = pc /\ handler'[h].reply = handler[h].reply
      /\ handler'[h].key = handler[h].key /\ handler'[h].run = handler[h].run
      /\ \A g \in Handlers \ {h} : handler'[g] = handler[g]
    BY DEF IInv, CenterTypeOK, Handler, HandlerPCs, HandlersKnow, Knows
<1>2. /\ handler[h].key \in Keys /\ runs[handler[h].key].status # "none"
      /\ runs[handler[h].key].target = handler[h].run.target
    BY DEF IInv, HandlersKnow, Knows
<1>3. Knows(h)'
    BY <1>1, <1>2 DEF Knows, RunsAreKept
<1>4. QED
    BY <1>1, <1>3

\* run_preflight goes on, or gives the run up.
LEMMA PreflightPreserves ==
    ASSUME IInv, NEW h \in Handlers, RunPreflight(h) PROVE IInv'
<1>1. /\ handler[h].pc = "preflight" /\ handler[h].key \in Keys
      /\ runs[handler[h].key].status # "none"
      /\ UNCHANGED <<jobVars, inflight, crm, restarts>>
    BY DEF RunPreflight, IInv, HandlersKnow, Knows
<1>2. \A m \in inflight' : m.by # "none" => m \in inflight /\ m.by # h
    BY <1>1, NoRequestInFlight
<1>3. CASE \E status \in {"failed", "manual_intervention"} : SetFailure(h, status)
    BY <1>1, <1>2, <1>3, SaveKeeps, EndMoves DEF SetFailure, IInv, CenterTypeOK
<1>4. CASE handler' = [handler EXCEPT ![h].pc = "send"] /\ UNCHANGED runs
  <2>1. RunsAreKept /\ NoFalseSuccess' /\ AcknowledgedRunsHaveTheirJob'
      BY <1>1, <1>4 DEF RunsAreKept, NoFalseSuccess, AcknowledgedRunsHaveTheirJob, IInv, jobVars
  <2>2. QED
      BY <2>1, <1>1, <1>2, <1>4, PCMoves, HandlerMoves DEF IInv, CenterTypeOK
<1>5. QED
    BY <1>3, <1>4 DEF RunPreflight

\* The start request leaves, and is awaited.
LEMMA SendPreserves ==
    ASSUME IInv, NEW h \in Handlers, SendStart(h) PROVE IInv'
<1> DEFINE sent == [by |-> h, key |-> handler[h].key, target |-> handler[h].run.target]
<1>1. /\ handler[h].pc = "send" /\ handler[h].key \in Keys
      /\ handler' = [handler EXCEPT ![h].pc = "waiting"] /\ inflight' = inflight \cup {sent}
      /\ UNCHANGED <<jobVars, runs, crm, restarts>>
    BY DEF SendStart, IInv, HandlersKnow, Knows
<1>2. RunsAreKept /\ JobsAreKept
    BY <1>1 DEF RunsAreKept, JobsAreKept, jobVars
<1>3. /\ handler' \in [Handlers -> Handler] /\ Knows(h)'
      /\ handler'[h].pc = "waiting" /\ handler'[h].reply = "none"
      /\ handler'[h].key = handler[h].key /\ handler'[h].run = handler[h].run
      /\ \A g \in Handlers \ {h} : handler'[g] = handler[g]
    BY <1>1, <1>2, PCMoves
<1>4. sent \in Message
    BY <1>1 DEF Message, IInv, CenterTypeOK, Handler, Run
<1>5. CenterTypeOK'
    BY <1>1, <1>3, <1>4 DEF IInv, CenterTypeOK, jobVars
<1>6. HandlersKnow'
    BY <1>2, <1>3, KnowledgeIsKept DEF IInv, HandlersKnow
<1>7. MessagesAreAwaited'
  <2> SUFFICES ASSUME NEW m \in inflight', m.by # "none"
               PROVE  /\ handler'[m.by].pc = "waiting" /\ handler'[m.by].reply = "none"
                      /\ handler'[m.by].key = m.key /\ handler'[m.by].run.target = m.target
      BY DEF MessagesAreAwaited
  <2>1. CASE m = sent
      BY <2>1, <1>3
  <2>2. CASE m # sent
    <3>1. m \in inflight /\ m.by \in Handlers \ {h}
        BY <2>2, <1>1, NoRequestInFlight DEF IInv, CenterTypeOK, Message
    <3>2. QED
        BY <3>1, <1>3 DEF IInv, MessagesAreAwaited
  <2>3. QED
      BY <2>1, <2>2
<1>8. NoFalseSuccess' /\ AcknowledgedRunsHaveTheirJob'
    BY <1>1 DEF NoFalseSuccess, AcknowledgedRunsHaveTheirJob, IInv, jobVars
<1>9. QED
    BY <1>5, <1>6, <1>7, <1>8 DEF IInv

\* The agent answered with a job: the run takes over its id.
LEMMA AcceptedPreserves ==
    ASSUME IInv, NEW h \in Handlers, StartAccepted(h) PROVE IInv'
<1> DEFINE k == handler[h].key
<1>1. /\ handler[h].pc = "waiting" /\ handler[h].reply = "accepted" /\ k \in Keys
      /\ runs[k].status # "none" /\ runs[k].target = handler[h].run.target
      /\ state[k] # "NONE" /\ target[k] = handler[h].run.target
    BY DEF StartAccepted, IInv, HandlersKnow, Knows
<1>2. /\ runs' = [runs EXCEPT ![k].acked = TRUE]
      /\ handler' = [handler EXCEPT ![h].pc = "poll", ![h].run.acked = TRUE]
      /\ UNCHANGED <<jobVars, inflight, crm, restarts>>
    BY DEF StartAccepted
<1>3. runs' \in [Keys -> Run]
    BY <1>2 DEF IInv, CenterTypeOK, Run
<1>4. /\ runs'[k].status = runs[k].status /\ runs'[k].target = runs[k].target
      /\ \A j \in Keys \ {k} : runs'[j] = runs[j]
    BY <1>1, <1>2 DEF IInv, CenterTypeOK, Run
<1>5. RunsAreKept /\ NoFalseSuccess' /\ AcknowledgedRunsHaveTheirJob'
    BY <1>1, <1>2, <1>4 DEF RunsAreKept, NoFalseSuccess, AcknowledgedRunsHaveTheirJob, IInv, jobVars
<1>6. handler' \in [Handlers -> Handler] /\ \A g \in Handlers \ {h} : handler'[g] = handler[g]
  <2>1. handler[h] \in Handler /\ handler[h].run \in Run
      BY DEF IInv, CenterTypeOK, Handler
  <2>2. ASSUME NEW H, H = [handler[h] EXCEPT !.pc = "poll", !.run.acked = TRUE] PROVE H \in Handler
    <3>1. ASSUME NEW R, R = [handler[h].run EXCEPT !.acked = TRUE] PROVE R \in Run
        BY <2>1, <3>1 DEF Run
    <3>2. PICK R \in Run : H = [handler[h] EXCEPT !.pc = "poll", !.run = R]
        BY <2>2, <3>1
    <3>3. H = [pc |-> "poll", key |-> handler[h].key, run |-> R, resume |-> handler[h].resume,
               reply |-> handler[h].reply]
        BY <3>2, <2>1 DEF Handler
    <3>4. QED
        BY <3>3, <2>1 DEF Handler, HandlerPCs
  <2>3. handler' = [handler EXCEPT ![h] = [handler[h] EXCEPT !.pc = "poll", !.run.acked = TRUE]]
      BY <1>2
  <2>4. QED
      BY <2>2, <2>3 DEF IInv, CenterTypeOK
<1>7. /\ handler'[h].pc = "poll" /\ handler'[h].key = k /\ handler'[h].run.acked
      /\ handler'[h].run.target = handler[h].run.target
    BY <1>2 DEF IInv, CenterTypeOK, Handler, HandlerPCs, Run
<1>8. Knows(h)'
    BY <1>1, <1>2, <1>4, <1>7 DEF Knows, jobVars
<1>9. QED
    BY <1>1, <1>2, <1>3, <1>5, <1>6, <1>8, NoRequestInFlight, HandlerMoves DEF IInv, CenterTypeOK

\* The agent refused the request.
LEMMA RejectedPreserves ==
    ASSUME IInv, NEW h \in Handlers, StartRejected(h) PROVE IInv'
<1>1. /\ handler[h].reply = "rejected" /\ handler[h].key \in Keys
      /\ runs[handler[h].key].status # "none" /\ SaveStatus(h, "failed") /\ End(h)
      /\ UNCHANGED <<jobVars, inflight, crm, restarts>>
    BY DEF StartRejected, SetFailure, IInv, HandlersKnow, Knows
<1>2. \A m \in inflight' : m.by # "none" => m \in inflight /\ m.by # h
    BY <1>1, NoRequestInFlight
<1>3. QED
    BY <1>1, <1>2, SaveKeeps, EndMoves DEF IInv, CenterTypeOK

\* The caller gives up: its request, if it is still on the way, is nobody's.
LEMMA UnavailablePreserves ==
    ASSUME IInv, NEW h \in Handlers, StartUnavailable(h) PROVE IInv'
<1> DEFINE Dropped(m) == [m EXCEPT !.by = IF @ = h THEN "none" ELSE @]
<1>1. /\ handler[h].pc = "waiting" /\ handler[h].key \in Keys
      /\ runs[handler[h].key].status # "none" /\ End(h)
      /\ UNCHANGED <<jobVars, crm, restarts>> /\ inflight' = {Dropped(m) : m \in inflight}
      /\ UNCHANGED runs \/ SaveStatus(h, "failed")
    BY DEF StartUnavailable, SetFailure, IInv, HandlersKnow, Knows
<1>2. ASSUME NEW m \in Message
      PROVE  /\ Dropped(m) \in Message
             /\ Dropped(m).by # "none" => Dropped(m) = m /\ m.by # h
  <2>1. CASE m.by = h
    <3>1. Dropped(m) = [by |-> "none", key |-> m.key, target |-> m.target]
        BY <2>1 DEF Message
    <3>2. QED
        BY <3>1 DEF Message
  <2>2. CASE m.by # h
    <3>1. Dropped(m) = m
        BY <2>2 DEF Message
    <3>2. QED
        BY <3>1, <2>2
  <2>3. QED
      BY <2>1, <2>2
<1>3. inflight \subseteq Message
    BY DEF IInv, CenterTypeOK
<1> HIDE DEF Dropped
<1>4. /\ inflight' \subseteq Message
      /\ \A m \in inflight' : m.by # "none" => m \in inflight /\ m.by # h
    BY <1>1, <1>2, <1>3
<1>5. /\ runs' \in [Keys -> Run] /\ RunsAreKept
      /\ NoFalseSuccess' /\ AcknowledgedRunsHaveTheirJob'
  <2>1. CASE UNCHANGED runs
      BY <2>1, <1>1 DEF RunsAreKept, NoFalseSuccess, AcknowledgedRunsHaveTheirJob, IInv,
                        CenterTypeOK, jobVars
  <2>2. QED
      BY <2>1, <1>1, SaveKeeps
<1>6. QED
    BY <1>1, <1>4, <1>5, EndMoves

-----------------------------------------------------------------------------
(* The polls.                                                              *)

\* A poll begins with a copy of a row that has its job.
LEMMA SyncPreserves ==
    ASSUME IInv, NEW h \in Handlers, NEW k \in Keys, SyncRequest(h, k) PROVE IInv'
<1>1. /\ runs[k] \in Run /\ runs[k].status # "none" /\ runs[k].acked
      /\ state[k] # "NONE" /\ target[k] = runs[k].target
    BY DEF SyncRequest, ActiveRun, ACTIVE_STATUSES, IInv, CenterTypeOK, AcknowledgedRunsHaveTheirJob
<1>2. /\ handler[h].pc = "idle" /\ UNCHANGED <<jobVars, inflight, runs, crm, restarts>>
      /\ handler' = [handler EXCEPT ![h] = [Idle EXCEPT !.pc = "poll", !.key = k, !.run = runs[k]]]
    BY DEF SyncRequest
<1>3. ASSUME NEW H, H = [Idle EXCEPT !.pc = "poll", !.key = k, !.run = runs[k]]
      PROVE  H = [pc |-> "poll", key |-> k, run |-> runs[k], resume |-> FALSE, reply |-> "none"]
    BY <1>3 DEF Idle
<1>4. handler'[h] = [pc |-> "poll", key |-> k, run |-> runs[k], resume |-> FALSE, reply |-> "none"]
    BY <1>2, <1>3 DEF IInv, CenterTypeOK
<1>5. handler'[h] \in Handler
    BY <1>1, <1>4 DEF Handler, HandlerPCs, Replies
<1>6. handler' \in [Handlers -> Handler] /\ \A g \in Handlers \ {h} : handler'[g] = handler[g]
    BY <1>2, <1>5 DEF IInv, CenterTypeOK
<1>7. Knows(h)'
    BY <1>1, <1>2, <1>4 DEF Knows, jobVars
<1>8. RunsAreKept /\ NoFalseSuccess' /\ AcknowledgedRunsHaveTheirJob'
    BY <1>2 DEF RunsAreKept, NoFalseSuccess, AcknowledgedRunsHaveTheirJob, IInv, jobVars
<1>9. QED
    BY <1>2, <1>6, <1>7, <1>8, NoRequestInFlight, HandlerMoves DEF IInv, CenterTypeOK

\* The agent's row is read: a success it reports is one for good.
LEMMA PollPreserves ==
    ASSUME IInv, NEW h \in Handlers, PollAgent(h) PROVE IInv'
<1> DEFINE k == handler[h].key
<1>1. /\ handler[h].pc = "poll" /\ k \in Keys /\ handler[h].run.acked /\ state[k] # "NONE"
      /\ runs[k].status # "none" /\ runs[k].target = handler[h].run.target
      /\ target[k] = handler[h].run.target
      /\ UNCHANGED <<jobVars, inflight, runs, crm, restarts>>
    BY DEF PollAgent, IInv, HandlersKnow, Knows
<1>2. RunsAreKept /\ NoFalseSuccess' /\ AcknowledgedRunsHaveTheirJob'
    BY <1>1 DEF RunsAreKept, NoFalseSuccess, AcknowledgedRunsHaveTheirJob, IInv, jobVars
<1>3. \A m \in inflight' : m.by # "none" => m \in inflight /\ m.by # h
    BY <1>1, NoRequestInFlight
<1>4. CASE End(h)
    BY <1>1, <1>2, <1>3, <1>4, EndMoves DEF IInv, CenterTypeOK
<1>5. CASE handler' = [handler EXCEPT ![h].pc = "save", ![h].reply = state[k]]
  <2>1. state[k] \in ActivePhases \cup Outcomes
      BY <1>1 DEF IInv, CenterTypeOK
  <2>2. handler' \in [Handlers -> Handler] /\ \A g \in Handlers \ {h} : handler'[g] = handler[g]
    <3>1. handler \in [Handlers -> Handler] /\ "save" \in HandlerPCs /\ NoRun \in Run
        BY CenterAssumption DEF IInv, CenterTypeOK, HandlerPCs, NoRun, Run
    <3>2. PICK reply \in Replies : handler' = [handler EXCEPT ![h].pc = "save", ![h].reply = reply]
        BY <1>5, <2>1 DEF Replies
    <3>3. [handler[h] EXCEPT !.pc = "save", !.reply = reply] \in Handler
        BY ONLY <3>1, HandlerWith
    <3>4. PICK s \in Handler : handler' = [handler EXCEPT ![h] = s]
        BY <3>2, <3>3
    <3>5. QED
        BY ONLY <3>1, <3>4
  <2>3. /\ handler'[h].pc = "save" /\ handler'[h].reply = state[k] /\ handler'[h].key = k
        /\ handler'[h].run = handler[h].run
      BY <1>5 DEF IInv, CenterTypeOK, Handler
  <2>4. Knows(h)'
      BY <1>1, <2>1, <2>3 DEF Knows, jobVars
  <2>5. QED
      BY <1>1, <1>2, <1>3, <2>2, <2>4, HandlerMoves DEF IInv, CenterTypeOK
<1>6. QED
    BY <1>4, <1>5 DEF PollAgent

\* run.save() of the whole copy: its target is the row's, its job id was there
\* when it was read, and a success is the agent's.
LEMMA SavePreserves ==
    ASSUME IInv, NEW h \in Handlers, SaveSync(h) PROVE IInv'
<1> DEFINE k == handler[h].key
           status == Lower[handler[h].reply]
<1>1. /\ handler[h].pc = "save" /\ k \in Keys /\ handler[h].run.acked /\ handler[h].run \in Run
      /\ state[k] # "NONE" /\ target[k] = handler[h].run.target
      /\ runs[k].status # "none" /\ runs[k].target = handler[h].run.target
      /\ handler[h].reply \in ActivePhases \cup Outcomes
      /\ handler[h].reply = "SUCCEEDED" => state[k] = "SUCCEEDED"
      /\ UNCHANGED <<jobVars, inflight, crm, restarts>> /\ End(h)
    BY DEF SaveSync, IInv, HandlersKnow, Knows, CenterTypeOK, Handler
<1>2. /\ status \in ACTIVE_STATUSES \cup TERMINAL_STATUSES
      /\ status = "succeeded" => state[k] = "SUCCEEDED"
    BY <1>1, LowerType
<1>3. /\ runs' \in [Keys -> Run] /\ RunsAreKept
      /\ NoFalseSuccess' /\ AcknowledgedRunsHaveTheirJob'
  <2>1. CASE UNCHANGED runs
      BY <2>1, <1>1 DEF RunsAreKept, NoFalseSuccess, AcknowledgedRunsHaveTheirJob, IInv,
                        CenterTypeOK, jobVars
  <2>2. CASE runs' = [runs EXCEPT ![k] = [handler[h].run EXCEPT !.status = status]]
    <3>1. ASSUME NEW s, NEW R, R = [handler[h].run EXCEPT !.status = s]
          PROVE  R = [status |-> s, target |-> handler[h].run.target, acked |-> handler[h].run.acked]
        BY <3>1, <1>1 DEF Run
    <3>2. runs'[k] = [status |-> status, target |-> handler[h].run.target,
                      acked |-> handler[h].run.acked]
        BY <1>1, <2>2, <3>1 DEF IInv, CenterTypeOK
    <3> HIDE DEF status
    <3>3. runs'[k] \in Run
        BY <1>1, <1>2, <3>2 DEF Run
    <3>4. runs' \in [Keys -> Run] /\ \A j \in Keys \ {k} : runs'[j] = runs[j]
        BY <2>2, <3>3 DEF IInv, CenterTypeOK
    <3>5. RunsAreKept
        BY <1>1, <1>2, <3>2, <3>4 DEF RunsAreKept, ACTIVE_STATUSES, TERMINAL_STATUSES
    <3>6. NoFalseSuccess' /\ AcknowledgedRunsHaveTheirJob'
        BY <1>1, <1>2, <3>2, <3>4 DEF NoFalseSuccess, AcknowledgedRunsHaveTheirJob, IInv, jobVars
    <3>7. QED
        BY <3>4, <3>5, <3>6
  <2>3. QED
      BY <2>1, <2>2 DEF SaveSync
<1>4. QED
    BY <1>1, <1>3, NoRequestInFlight, EndMoves DEF IInv, CenterTypeOK

-----------------------------------------------------------------------------
(* The agent and the crashes.                                              *)

\* What is left to show of a step that leaves the rows alone.
LEMMA RowsStay ==
    ASSUME IInv, UNCHANGED runs, JobsAreKept
    PROVE  RunsAreKept /\ NoFalseSuccess' /\ AcknowledgedRunsHaveTheirJob'
BY DEF RunsAreKept, JobsAreKept, NoFalseSuccess, AcknowledgedRunsHaveTheirJob, IInv, CenterTypeOK

\* The agent serves a start request: accepted means that the job of this key
\* is for the target that was asked for.
LEMMA ServePreserves ==
    ASSUME IInv, NEW m \in inflight, ServeStart(m) PROVE IInv'
<1>1. m \in Message /\ m.key \in Keys /\ m.target \in Versions
    BY DEF IInv, CenterTypeOK, Message
<1>2. UNCHANGED <<runs, crm, restarts>> /\ inflight' = inflight \ {m}
    BY DEF ServeStart, Answer
<1>3. PICK reply \in {"accepted", "rejected"} :
          /\ Answer(m, reply)
          /\ state' \in [Keys -> ActivePhases \cup Outcomes \cup {"NONE"}]
          /\ target' \in [Keys -> Versions] /\ JobsAreKept
          /\ reply = "accepted" => state'[m.key] # "NONE" /\ target'[m.key] = m.target
  <2>1. CASE Accept(m.key, m.target) /\ Answer(m, "accepted")
      BY <2>1, <1>1, AcceptKeeps DEF IInv
  <2>2. CASE /\ state[m.key] # "NONE" /\ target[m.key] = m.target
             /\ Answer(m, "accepted") /\ UNCHANGED jobVars
      BY <2>2 DEF IInv, CenterTypeOK, JobsAreKept, jobVars
  <2>3. CASE Answer(m, "rejected") /\ UNCHANGED jobVars
      BY <2>3 DEF IInv, CenterTypeOK, JobsAreKept, jobVars
  <2>4. QED
      BY <2>1, <2>2, <2>3 DEF ServeStart
<1>4. RunsAreKept /\ NoFalseSuccess' /\ AcknowledgedRunsHaveTheirJob'
    BY <1>2, <1>3, RowsStay
<1>5. CASE m.by = "none"
  <2>1. UNCHANGED handler
      BY <1>3, <1>5 DEF Answer
  <2>2. HandlersKnow'
      BY <2>1, <1>3, <1>4, KnowledgeIsKept DEF IInv, HandlersKnow
  <2>3. CenterTypeOK' /\ MessagesAreAwaited'
      BY <2>1, <1>2, <1>3 DEF IInv, CenterTypeOK, MessagesAreAwaited
  <2>4. QED
      BY <2>2, <2>3, <1>4 DEF IInv
<1>6. CASE m.by # "none"
  <2> DEFINE h == m.by
  <2>1. /\ h \in Handlers /\ handler[h].pc = "waiting" /\ handler[h].reply = "none"
        /\ handler[h].key = m.key /\ handler[h].run.target = m.target
      BY <1>1, <1>6 DEF Message, IInv, MessagesAreAwaited
  <2>2. handler' = [handler EXCEPT ![h].reply = reply]
      BY <1>3, <1>6 DEF Answer
  <2>3. handler' \in [Handlers -> Handler] /\ \A g \in Handlers \ {h} : handler'[g] = handler[g]
      BY <2>1, <2>2 DEF IInv, CenterTypeOK, Handler, Replies
  <2>4. /\ handler'[h].pc = "waiting" /\ handler'[h].reply = reply /\ handler'[h].key = m.key
        /\ handler'[h].run = handler[h].run
      BY <2>1, <2>2 DEF IInv, CenterTypeOK, Handler
  <2>5. runs[m.key].status # "none" /\ runs[m.key].target = m.target
      BY <2>1 DEF IInv, HandlersKnow, Knows
  <2>6. Knows(h)'
      BY <2>1, <2>4, <2>5, <1>1, <1>2, <1>3 DEF Knows
  <2>7. HandlersKnow'
      BY <2>3, <2>6, <1>3, <1>4, KnowledgeIsKept DEF IInv, HandlersKnow
  <2>8. \A n \in inflight' : n.by # h \/ n.by = "none"
    <3> SUFFICES ASSUME NEW n \in inflight', n.by = h PROVE FALSE
        BY <1>6
    <3>1. n \in inflight /\ n # m /\ n \in Message
        BY <1>2 DEF IInv, CenterTypeOK
    <3>2. n.key = m.key /\ n.target = m.target
        BY <2>1, <3>1, <1>6 DEF IInv, MessagesAreAwaited
    <3>3. n = m
        BY <3>1, <3>2, <1>1 DEF Message
    <3>4. QED
        BY <3>1, <3>3
  <2>9. MessagesAreAwaited'
    <3> SUFFICES ASSUME NEW n \in inflight', n.by # "none"
                 PROVE  /\ handler'[n.by].pc = "waiting" /\ handler'[n.by].reply = "none"
                        /\ handler'[n.by].key = n.key /\ handler'[n.by].run.target = n.target
        BY DEF MessagesAreAwaited
    <3>1. n \in inflight /\ n.by \in Handlers \ {h}
        BY <2>8, <1>2 DEF IInv, CenterTypeOK, Message
    <3>2. QED
        BY <3>1, <2>3 DEF IInv, MessagesAreAwaited
  <2>10. CenterTypeOK'
      BY <1>2, <1>3, <2>3 DEF IInv, CenterTypeOK
  <2>11. QED
      BY <2>7, <2>9, <2>10, <1>4 DEF IInv
<1>7. QED
    BY <1>5, <1>6

\* A request is lost on the way.
LEMMA LosePreserves ==
    ASSUME IInv, NEW m \in inflight, LoseStart(m) PROVE IInv'
<1>1. UNCHANGED <<jobVars, centerVars>> /\ inflight' \subseteq inflight
    BY DEF LoseStart
<1>2. CenterTypeOK' /\ MessagesAreAwaited'
    BY <1>1 DEF IInv, CenterTypeOK, MessagesAreAwaited, jobVars, centerVars
<1>3. HandlersKnow'
    BY <1>1 DEF IInv, HandlersKnow, Knows, jobVars, centerVars
<1>4. NoFalseSuccess' /\ AcknowledgedRunsHaveTheirJob'
    BY <1>1 DEF IInv, NoFalseSuccess, AcknowledgedRunsHaveTheirJob, jobVars, centerVars
<1>5. QED
    BY <1>2, <1>3, <1>4 DEF IInv

\* The CRM is replaced or crashes: no handler is left, and what was sent goes
\* on to the agent.
LEMMA KillPreserves ==
    ASSUME IInv, KillHandlers, UNCHANGED <<jobVars, runs>>, crm' \in Versions,
           restarts' \in 0..MaxRestarts
    PROVE  IInv'
<1>1. \A h \in Handlers : handler'[h] = Idle
    BY DEF KillHandlers
<1>2. handler' \in [Handlers -> Handler]
    BY IdleHandler DEF KillHandlers
<1>3. HandlersKnow'
    BY <1>1, IdleHandler DEF HandlersKnow
<1>4. inflight' \subseteq Message /\ \A m \in inflight' : m.by = "none"
  <2> DEFINE Dropped(m) == [m EXCEPT !.by = "none"]
  <2>1. ASSUME NEW m \in Message PROVE Dropped(m) \in Message /\ Dropped(m).by = "none"
    <3>1. Dropped(m) = [by |-> "none", key |-> m.key, target |-> m.target]
        BY DEF Message
    <3>2. QED
        BY <3>1 DEF Message
  <2>2. inflight' = {Dropped(m) : m \in inflight} /\ inflight \subseteq Message
      BY DEF KillHandlers, IInv, CenterTypeOK
  <2> HIDE DEF Dropped
  <2>3. QED
      BY <2>1, <2>2
<1>5. MessagesAreAwaited'
    BY <1>4 DEF MessagesAreAwaited
<1>6. CenterTypeOK'
    BY <1>2, <1>4 DEF IInv, CenterTypeOK, jobVars
<1>7. NoFalseSuccess' /\ AcknowledgedRunsHaveTheirJob'
    BY DEF IInv, NoFalseSuccess, AcknowledgedRunsHaveTheirJob, jobVars
<1>8. QED
    BY <1>3, <1>5, <1>6, <1>7 DEF IInv

\* The agent goes on with a job.
LEMMA AgentPreserves ==
    ASSUME IInv, NEW k \in Keys, AgentStep(k) PROVE IInv'
<1>1. UNCHANGED <<inflight, centerVars>>
    BY DEF AgentStep
<1>2. /\ state' \in [Keys -> ActivePhases \cup Outcomes \cup {"NONE"}]
      /\ target' \in [Keys -> Versions] /\ JobsAreKept
    BY AgentKeeps DEF IInv
<1>3. RunsAreKept /\ NoFalseSuccess' /\ AcknowledgedRunsHaveTheirJob'
    BY <1>1, <1>2, RowsStay DEF centerVars
<1>4. HandlersKnow'
    BY <1>1, <1>2, <1>3, KnowledgeIsKept DEF IInv, HandlersKnow, centerVars
<1>5. CenterTypeOK' /\ MessagesAreAwaited'
    BY <1>1, <1>2 DEF IInv, CenterTypeOK, MessagesAreAwaited, centerVars
<1>6. QED
    BY <1>3, <1>4, <1>5 DEF IInv

-----------------------------------------------------------------------------

\* Every step preserves the invariant.
LEMMA StepIInv == IInv /\ [Next]_vars => IInv'
<1> SUFFICES ASSUME IInv, [Next]_vars PROVE IInv'
    OBVIOUS
<1>1. ASSUME NEW h \in Handlers,
             \/ \E k \in Keys, t \in Versions : StartRequest(h, k, t)
             \/ \E k \in Keys : SyncRequest(h, k)
             \/ HandlerStep(h)
      PROVE  IInv'
    BY <1>1, StartPreserves, SyncPreserves, InsertPreserves, MarkPreserves, PreflightPreserves,
       SendPreserves, AcceptedPreserves, RejectedPreserves, UnavailablePreserves, PollPreserves,
       SavePreserves DEF HandlerStep
<1>2. CASE \E m \in inflight : ServeStart(m) \/ LoseStart(m)
    BY <1>2, ServePreserves, LosePreserves
<1>3. CASE \E k \in Keys : Deploy(k) \/ AgentStep(k)
  <2>1. ASSUME NEW k \in Keys, Deploy(k) PROVE IInv'
    <3>1. crm' \in Versions /\ restarts' \in 0..MaxRestarts
        BY <2>1 DEF Deploy, IInv, CenterTypeOK
    <3>2. QED
        BY <2>1, <3>1, KillPreserves DEF Deploy
  <2>2. QED
      BY <1>3, <2>1, AgentPreserves
<1>4. CASE CrmCrash
  <2>1. crm' \in Versions /\ restarts' \in 0..MaxRestarts
      BY <1>4, CenterAssumption DEF CrmCrash, IInv, CenterTypeOK
  <2>2. QED
      BY <1>4, <2>1, KillPreserves DEF CrmCrash
<1>5. CASE UNCHANGED vars
    BY <1>5 DEF vars, centerVars, jobVars, IInv, CenterTypeOK, HandlersKnow, Knows,
                MessagesAreAwaited, NoFalseSuccess, AcknowledgedRunsHaveTheirJob
<1>6. QED
    BY <1>1, <1>2, <1>3, <1>4, <1>5 DEF Next

\* The inductive invariant holds.
LEMMA Invariance == Spec => []IInv
<1>1. QED
    BY InitIInv, StepIInv, PTL DEF Spec

\* Rows, handlers and requests in flight hold what their fields allow; a poll
\* never saves a status the rows do not know.
THEOREM CenterTypes == Spec => []CenterTypeOK
<1>1. IInv => CenterTypeOK
    BY DEF IInv
<1>2. QED
    BY <1>1, Invariance, PTL

\* A run reads succeeded only if the agent's job of its key succeeded, for the
\* target it was created for, whatever handlers overlapped in sync_update_run.
THEOREM SuccessIsTheAgents == Spec => []NoFalseSuccess
<1>1. IInv => NoFalseSuccess
    BY DEF IInv
<1>2. QED
    BY <1>1, Invariance, PTL

\* The job id that create_update_run saves is of a job for the run's target,
\* through replays, lost answers, crashes and requests served late.
THEOREM RunsHaveTheirJob == Spec => []AcknowledgedRunsHaveTheirJob
<1>1. IInv => AcknowledgedRunsHaveTheirJob
    BY DEF IInv
<1>2. QED
    BY <1>1, Invariance, PTL

\* Whatever the Update Center's requests, retries and crashes make the agent
\* do is within the contract that UpdateAgent is proved to implement.
THEOREM WithinTheContract == Spec => JobSpec
<1>1. Init => JobInit
    BY DEF Init
<1>2. IInv /\ [Next]_vars => [JobNext]_jobVars
  <2> SUFFICES ASSUME IInv, Next PROVE JobNext \/ UNCHANGED jobVars
      BY DEF vars
  <2>1. ASSUME NEW h \in Handlers,
               \/ \E k \in Keys, t \in Versions : StartRequest(h, k, t)
               \/ \E k \in Keys : SyncRequest(h, k)
               \/ HandlerStep(h)
        PROVE  UNCHANGED jobVars
      BY <2>1 DEF StartRequest, SyncRequest, HandlerStep, InsertRun, MarkPreflight, RunPreflight,
                  SendStart, StartAccepted, StartRejected, StartUnavailable, PollAgent, SaveSync
  <2>2. ASSUME NEW m \in inflight, ServeStart(m) \/ LoseStart(m)
        PROVE  JobNext \/ UNCHANGED jobVars
    <3>1. m.key \in Keys /\ m.target \in Versions
        BY DEF IInv, CenterTypeOK, Message
    <3>2. QED
        BY <2>2, <3>1 DEF ServeStart, LoseStart, JobNext
  <2>3. ASSUME NEW k \in Keys, Deploy(k) \/ AgentStep(k) PROVE JobNext \/ UNCHANGED jobVars
      BY <2>3 DEF Deploy, AgentStep, JobNext
  <2>4. CASE CrmCrash
      BY <2>4 DEF CrmCrash
  <2>5. QED
      BY <2>1, <2>2, <2>3, <2>4 DEF Next
<1>3. QED
    BY <1>1, <1>2, Invariance, PTL DEF Spec, JobSpec
=============================================================================
