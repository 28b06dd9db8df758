------------------------------- MODULE Outbox --------------------------------
(***************************************************************************)
(* The transactional email outbox (delivery/models.py, services.py,        *)
(* tasks.py): OutboxMessage rows in PostgreSQL, `deliver_outbox_message'   *)
(* tasks in RabbitMQ, Celery workers, and the Beat task that republishes   *)
(* due rows and releases stale locks.                                      *)
(*                                                                         *)
(* Time is a tick of no stated length; ages and delays are counted in      *)
(* ticks.  A Celery worker never runs a task past CELERY_TASK_TIME_LIMIT:  *)
(* the tick that would let it do so waits for the kill.                    *)
(***************************************************************************)
EXTENDS Naturals, FiniteSets

CONSTANTS
    Messages,      \* outbox rows
    Kind,          \* kind of each row
    Workers,       \* Celery worker processes
    LOCK_TIMEOUT,  \* ticks after which a lock is stale (15 min)
    TIME_LIMIT,    \* ticks a task may run (120 s, a hard kill)
    MAX_ATTEMPTS,  \* 6 in the code
    MaxDelay,      \* the longest retry delay (3600 s)
    MaxQueued,     \* bound: copies of a task in the broker
    MaxKills       \* bound: workers lost while they run a task

Kinds == {"invitation", "password_reset", "automation_run"}

ASSUME OutboxAssumption ==
    /\ Kind \in [Messages -> Kinds]
    /\ {TIME_LIMIT, LOCK_TIMEOUT, MAX_ATTEMPTS, MaxDelay, MaxQueued} \subseteq Nat \ {0}
    /\ MaxKills \in Nat
\* settings.CELERY_TASK_TIME_LIMIT (120 s) against tasks.LOCK_TIMEOUT (900 s).
ASSUME TimeoutAssumption == TIME_LIMIT < LOCK_TIMEOUT

VARIABLES
    row,       \* the OutboxMessage rows
    subject,   \* what a row is about: open, closed (handled), gone (deleted)
    broker,    \* copies of the task for each row that RabbitMQ holds
    etas,      \* ticks left of the retry tasks Celery holds for each row
    worker,    \* the worker processes
    mails,     \* emails that left, by row
    lapses,    \* emails that left without the row being marked
    kills      \* workers lost so far

outboxVars == <<row, subject, broker, etas, worker, mails, lapses, kills>>

\* status: none before it is queued, then queued, processing, sent or failed;
\* age: ticks since locked_at, up to the timeout; wait: ticks to available_at;
\* secret: encrypted_data holds the token of an invitation.
NoRow == [status |-> "none", attempts |-> 0, age |-> 0, wait |-> 0, secret |-> FALSE]

\* pc: idle; claimed, _send begins; sending, the check passed and SMTP is next;
\* failed and finish, the closing UPDATE is next.
NoTask == [pc |-> "idle", msg |-> "none", attempts |-> 0, age |-> 0, mailed |-> FALSE]

OutboxInit ==
    /\ row = [m \in Messages |-> NoRow]
    /\ subject = [m \in Messages |-> "open"]
    /\ broker = [m \in Messages |-> 0]
    /\ etas = [m \in Messages |-> {}]
    /\ worker = [w \in Workers |-> NoTask]
    /\ mails = [m \in Messages |-> 0]
    /\ lapses = [m \in Messages |-> 0]
    /\ kills = 0

-----------------------------------------------------------------------------
\* A copy is added to the broker, up to the bound on copies.
Publish(b, m) == [b EXCEPT ![m] = IF @ < MaxQueued THEN @ + 1 ELSE @]

\* queue_outbox_message in the caller's transaction; on_commit publishes, and a
\* broker that is down leaves the row to the dispatcher.
queue_outbox_message(m) ==
    /\ row[m].status = "none"
    /\ row' = [row EXCEPT ![m] =
         [NoRow EXCEPT !.status = "queued", !.secret = Kind[m] = "invitation"]]
    /\ \/ broker' = Publish(broker, m)
       \/ UNCHANGED broker
    /\ UNCHANGED <<subject, etas, worker, mails, lapses, kills>>

\* Elsewhere an invitation is accepted, revoked or expires, or an admin
\* invitation is replaced or a user deactivated.
SubjectChanges(m) ==
    /\ row[m].status # "none"
    /\ subject[m] = "open"
    /\ \/ subject' = [subject EXCEPT ![m] = "gone"]
       \/ Kind[m] = "invitation" /\ subject' = [subject EXCEPT ![m] = "closed"]
    /\ UNCHANGED <<row, broker, etas, worker, mails, lapses, kills>>

\* Mutant: a claim that ignores another worker's lock.
Claimable_Locked(m) ==
    /\ Kind[m] # "automation_run"
    /\ row[m].status \notin {"sent", "failed"}
\* _claim's early returns.
Claimable(m) ==
    /\ Kind[m] # "automation_run"
    /\ row[m].status \notin {"sent", "failed"}
    /\ ~(row[m].status = "processing" /\ row[m].age < LOCK_TIMEOUT)

Take(m) == broker' = [broker EXCEPT ![m] = @ - 1]

\* A worker receives a task and claims its row, under the row lock.
Claim(w, m) ==
    /\ worker[w].pc = "idle"
    /\ broker[m] > 0
    /\ Claimable(m)
    /\ row' = [row EXCEPT ![m].status = "processing", ![m].age = 0,
                          ![m].attempts = @ + 1]
    /\ worker' = [worker EXCEPT ![w] =
         [NoTask EXCEPT !.pc = "claimed", !.msg = m, !.attempts = row[m].attempts + 1]]
    /\ Take(m)
    /\ UNCHANGED <<subject, etas, mails, lapses, kills>>

\* _claim returns None: the task is over.
SkipTask(w, m) ==
    /\ worker[w].pc = "idle"
    /\ broker[m] > 0
    /\ ~Claimable(m)
    /\ Take(m)
    /\ UNCHANGED <<row, subject, etas, worker, mails, lapses, kills>>

Goto(w, pc) == worker' = [worker EXCEPT ![w].pc = pc]

\* Mutant: a missing invitation or user is no reason to raise.
CheckSubject_Lenient(w) ==
    LET m == worker[w].msg IN
    /\ worker[w].pc = "claimed"
    /\ IF subject[m] = "open" THEN Goto(w, "sending") ELSE Goto(w, "finish")
    /\ UNCHANGED <<row, subject, broker, etas, mails, lapses, kills>>

\* _send up to the SMTP call.  Nothing is sent for a subject that is closed;
\* a missing row, account or secret raises.
CheckSubject(w) ==
    LET m == worker[w].msg IN
    /\ worker[w].pc = "claimed"
    /\ \/ /\ subject[m] = "open"
          /\ Kind[m] = "invitation" => row[m].secret
          /\ Goto(w, "sending")
       \/ subject[m] = "closed" /\ Goto(w, "finish")
       \/ Goto(w, "failed")
    /\ UNCHANGED <<row, subject, broker, etas, mails, lapses, kills>>

\* The SMTP exchange: sent, refused, or accepted with the answer lost.
SendMail(w) ==
    LET m == worker[w].msg
        mailed == mails' = [mails EXCEPT ![m] = @ + 1]
    IN
    /\ worker[w].pc = "sending"
    /\ \/ /\ worker' = [worker EXCEPT ![w].pc = "finish", ![w].mailed = TRUE]
          /\ mailed
          /\ UNCHANGED lapses
       \/ Goto(w, "failed") /\ UNCHANGED <<mails, lapses>>
       \/ /\ Goto(w, "failed")
          /\ mailed
          /\ lapses' = [lapses EXCEPT ![m] = @ + 1]
    /\ UNCHANGED <<row, subject, broker, etas, kills>>

\* min(60 * 2 ** (attempts - 1), 3600)
Delay(attempts) == LET d == 2 ^ (attempts - 1) IN IF d \in 1..MaxDelay THEN d ELSE MaxDelay

\* The except branch: FAILED after the last attempt, else QUEUED and a Celery
\* retry; written whatever the row holds.
RecordFailure(w) ==
    LET m == worker[w].msg
        d == Delay(worker[w].attempts)
        terminal == worker[w].attempts >= MAX_ATTEMPTS
    IN
    /\ worker[w].pc = "failed"
    /\ row' = [row EXCEPT ![m].status = IF terminal THEN "failed" ELSE "queued",
                          ![m].wait = d, ![m].age = 0]
    /\ etas' = [etas EXCEPT ![m] = IF terminal THEN @ ELSE @ \cup {d}]
    /\ worker' = [worker EXCEPT ![w] = NoTask]
    /\ UNCHANGED <<subject, broker, mails, lapses, kills>>

RecordSent(w) ==
    LET m == worker[w].msg IN
    /\ worker[w].pc = "finish"
    /\ row' = [row EXCEPT ![m].status = "sent", ![m].secret = FALSE, ![m].age = 0]
    /\ worker' = [worker EXCEPT ![w] = NoTask]
    /\ UNCHANGED <<subject, broker, etas, mails, lapses, kills>>

\* A worker process is lost, or killed by the hard time limit.  The broker
\* redelivers its task (acks_late, reject_on_worker_lost) or it is gone.
KillWorker(w) ==
    LET m == worker[w].msg IN
    /\ worker[w].pc # "idle"
    /\ kills < MaxKills
    /\ kills' = kills + 1
    /\ worker' = [worker EXCEPT ![w] = NoTask]
    /\ lapses' = [lapses EXCEPT ![m] = IF worker[w].mailed THEN @ + 1 ELSE @]
    /\ broker' \in {broker, Publish(broker, m)}
    /\ UNCHANGED <<row, subject, etas, mails>>

\* Mutant: a dispatcher that leaves stale locks alone.
Released_Never(r) == r

\* dispatch_pending_outbox, run by Beat every minute.
Released(r) ==
    IF r.status = "processing" /\ r.age = LOCK_TIMEOUT
    THEN [r EXCEPT !.status = "queued", !.age = 0] ELSE r

dispatch_pending_outbox ==
    /\ row' = [m \in Messages |-> Released(row[m])]
    /\ broker' = [m \in Messages |->
         IF row'[m].status = "queued" /\ row[m].wait = 0 /\ Kind[m] # "automation_run"
         THEN Publish(broker, m)[m] ELSE broker[m]]
    /\ UNCHANGED <<subject, etas, worker, mails, lapses, kills>>

\* Time passes, unless a task is at its limit and still to be killed.
Older(n, limit) == IF n < limit THEN n + 1 ELSE limit

Tick ==
    /\ \A w \in Workers : worker[w].pc # "idle" => worker[w].age < TIME_LIMIT
    /\ row' = [m \in Messages |->
         [row[m] EXCEPT !.age = IF row[m].status = "processing"
                                THEN Older(@, LOCK_TIMEOUT) ELSE 0,
                        !.wait = IF @ > 0 THEN @ - 1 ELSE 0]]
    /\ worker' = [w \in Workers |->
         IF worker[w].pc = "idle" THEN worker[w]
         ELSE [worker[w] EXCEPT !.age = @ + 1]]
    /\ etas' = [m \in Messages |-> {t - 1 : t \in etas[m] \ {1}}]
    /\ broker' = [m \in Messages |->
         IF 1 \in etas[m] THEN Publish(broker, m)[m] ELSE broker[m]]
    /\ UNCHANGED <<subject, mails, lapses, kills>>

-----------------------------------------------------------------------------
WorkerStep(w) == CheckSubject(w) \/ SendMail(w) \/ RecordFailure(w) \/ RecordSent(w)

OutboxNext ==
    \/ \E m \in Messages : queue_outbox_message(m) \/ SubjectChanges(m)
    \/ \E w \in Workers, m \in Messages : Claim(w, m) \/ SkipTask(w, m)
    \/ \E w \in Workers : WorkerStep(w) \/ KillWorker(w)
    \/ dispatch_pending_outbox
    \/ Tick

OutboxSpec == OutboxInit /\ [][OutboxNext]_outboxVars

\* Beat runs once a minute, time passes, workers go on with what they hold,
\* and the broker hands out every task some time.
OutboxFairness ==
    /\ WF_outboxVars(Tick)
    /\ WF_outboxVars(dispatch_pending_outbox)
    /\ \A w \in Workers : WF_outboxVars(WorkerStep(w))
    /\ \A m \in Messages : SF_outboxVars(\E w \in Workers : Claim(w, m))
    /\ \A m \in Messages : WF_outboxVars(\E w \in Workers : SkipTask(w, m))

OutboxFairSpec == OutboxSpec /\ OutboxFairness

-----------------------------------------------------------------------------
\* At most one worker is at work on a row: the claim, the lock's timeout and
\* the task time limit together exclude a second sender, however many copies
\* of the task the dispatcher, the retries and redelivery put in the broker.
OneSender ==
    \A v, w \in Workers :
        worker[v].pc # "idle" /\ worker[w].pc # "idle" /\ worker[v].msg = worker[w].msg
            => v = w

\* A row is marked sent only after an email for it left or its subject was
\* settled, and every email beyond the first follows one that left without
\* being recorded (a lost worker or a lost SMTP answer).
DeliveryIsAtLeastOnce ==
    \A m \in Messages :
        /\ row[m].status = "sent" => mails[m] > 0 \/ subject[m] = "closed"
        /\ mails[m] <= lapses[m] + 1

\* Every queued row is settled in the end, through lost publications, lost
\* workers and failing sends.
EveryMessageSettles ==
    \A m \in Messages :
        row[m].status = "queued" /\ Kind[m] # "automation_run"
            ~> row[m].status \in {"sent", "failed"}
=============================================================================
