----------------------------- MODULE OutboxProofs -----------------------------
(***************************************************************************)
(* Machine-checked proofs about Outbox, for any number of rows, workers    *)
(* and copies in the broker and any lengths of the timeouts in which a     *)
(* task is killed before its lock is stale.                                *)
(*                                                                         *)
(* The inductive invariant IInv ties a worker to the row it claimed        *)
(* (WorkersHoldTheirRow: the row's lock is as old as the task) and counts  *)
(* what was mailed against what was recorded (MailsAreRecorded).           *)
(***************************************************************************)
EXTENDS Outbox, TLAPS

Row == [status : {"none", "queued", "processing", "sent", "failed"}, attempts : Nat,
        age : 0..LOCK_TIMEOUT, wait : Nat, secret : BOOLEAN]

Task == [pc : {"idle", "claimed", "sending", "failed", "finish"},
         msg : Messages \cup {"none"}, attempts : Nat, age : Nat, mailed : BOOLEAN]

OutboxTypes ==
    /\ row \in [Messages -> Row]
    /\ subject \in [Messages -> {"open", "closed", "gone"}]
    /\ broker \in [Messages -> Nat] /\ etas \in [Messages -> SUBSET (Nat \ {0})]
    /\ worker \in [Workers -> Task]
    /\ mails \in [Messages -> Nat] /\ lapses \in [Messages -> Nat]
    /\ kills \in Nat

AtWork(w) == worker[w].pc # "idle"

\* The lock of a row that is worked on is as old as the task.
WorkersHoldTheirRow ==
    \A w \in Workers : AtWork(w) =>
        /\ worker[w].msg \in Messages
        /\ row[worker[w].msg].status = "processing"
        /\ row[worker[w].msg].age = worker[w].age
        /\ worker[w].age <= TIME_LIMIT

\* What the task at its end knows of its email.
TasksKnowTheirMail ==
    \A w \in Workers : AtWork(w) =>
        /\ worker[w].mailed => worker[w].pc = "finish" /\ mails[worker[w].msg] > 0
        /\ worker[w].pc = "finish" => worker[w].mailed \/ subject[worker[w].msg] = "closed"

\* Without a task that is about to record its email, or a row that is sent,
\* every email that left is one that was not recorded.
MailsAreRecorded ==
    \A m \in Messages :
        \/ mails[m] <= lapses[m]
        \/ /\ mails[m] = lapses[m] + 1
           /\ \/ row[m].status = "sent"
              \/ \E w \in Workers : AtWork(w) /\ worker[w].msg = m /\ worker[w].mailed

SentIsMailed ==
    \A m \in Messages : row[m].status = "sent" => mails[m] > 0 \/ subject[m] = "closed"

IInv ==
    /\ OutboxTypes /\ WorkersHoldTheirRow /\ OneSender
    /\ TasksKnowTheirMail /\ MailsAreRecorded /\ SentIsMailed

-----------------------------------------------------------------------------

\* A task is killed before the lock it took is stale.
LEMMA Limits ==
    TIME_LIMIT \in Nat \ {0} /\ LOCK_TIMEOUT \in Nat \ {0} /\ TIME_LIMIT < LOCK_TIMEOUT
BY OutboxAssumption, TimeoutAssumption

\* Nothing is queued and nobody works.
LEMMA InitIInv == OutboxInit => IInv
<1> SUFFICES ASSUME OutboxInit PROVE IInv
    OBVIOUS
<1>1. OutboxTypes
    BY Limits DEF OutboxInit, OutboxTypes, Row, NoRow, NoTask, Task
<1>2. \A w \in Workers : ~AtWork(w)
    BY DEF OutboxInit, AtWork, NoTask
<1>3. WorkersHoldTheirRow /\ OneSender /\ TasksKnowTheirMail
    BY <1>2 DEF WorkersHoldTheirRow, OneSender, TasksKnowTheirMail, AtWork
<1>4. MailsAreRecorded /\ SentIsMailed
    BY DEF OutboxInit, MailsAreRecorded, SentIsMailed, NoRow
<1>5. QED
    BY <1>1, <1>3, <1>4 DEF IInv

\* A row is queued: it was nobody's.
LEMMA QueuePreserves ==
    ASSUME IInv, NEW m \in Messages, queue_outbox_message(m) PROVE IInv'
<1> USE DEF IInv
<1>1. row'[m] \in Row /\ row'[m].status = "queued"
  <2>1. ASSUME NEW s \in BOOLEAN, NEW r, r = [NoRow EXCEPT !.status = "queued", !.secret = s]
        PROVE  r = [status |-> "queued", attempts |-> 0, age |-> 0, wait |-> 0, secret |-> s]
      BY <2>1 DEF NoRow
  <2>2. PICK s \in BOOLEAN :
            row' = [row EXCEPT ![m] = [NoRow EXCEPT !.status = "queued", !.secret = s]]
      BY DEF queue_outbox_message
  <2>3. row'[m] = [status |-> "queued", attempts |-> 0, age |-> 0, wait |-> 0, secret |-> s]
      BY <2>1, <2>2 DEF OutboxTypes
  <2>4. QED
      BY <2>3, Limits DEF Row
<1>2. \A n \in Messages : n # m => row'[n] = row[n]
    BY DEF OutboxTypes, queue_outbox_message
<1>3. row' \in [Messages -> Row]
    BY <1>1, <1>2 DEF OutboxTypes, queue_outbox_message
<1>4. broker' \in [Messages -> Nat]
    BY DEF OutboxTypes, Publish, queue_outbox_message
<1>5. OutboxTypes'
    BY <1>1, <1>2, <1>3, <1>4 DEF OutboxTypes, queue_outbox_message
<1>6. WorkersHoldTheirRow'
    BY <1>2 DEF OutboxTypes, WorkersHoldTheirRow, AtWork, queue_outbox_message
<1>7. OneSender' /\ TasksKnowTheirMail'
    BY DEF OneSender, TasksKnowTheirMail, AtWork, queue_outbox_message
<1>8. MailsAreRecorded' /\ SentIsMailed'
    BY <1>1, <1>2 DEF OutboxTypes, MailsAreRecorded, SentIsMailed, AtWork, queue_outbox_message
<1>9. QED
    BY <1>5, <1>6, <1>7, <1>8

\* Elsewhere a subject is settled: a closed one stays closed.
LEMMA SubjectPreserves ==
    ASSUME IInv, NEW m \in Messages, SubjectChanges(m) PROVE IInv'
<1> USE DEF IInv
<1>1. OutboxTypes'
    BY DEF OutboxTypes, SubjectChanges
<1>2. \A n \in Messages : subject[n] = "closed" => subject'[n] = "closed"
    BY DEF OutboxTypes, SubjectChanges
<1>3. WorkersHoldTheirRow' /\ OneSender' /\ MailsAreRecorded'
    BY DEF WorkersHoldTheirRow, OneSender, MailsAreRecorded, AtWork, SubjectChanges
<1>4. TasksKnowTheirMail' /\ SentIsMailed'
    BY <1>2 DEF WorkersHoldTheirRow, TasksKnowTheirMail, SentIsMailed, AtWork, SubjectChanges
<1>5. QED
    BY <1>1, <1>3, <1>4

\* A claim: whoever held the row before would have been killed, since its lock
\* is stale.
LEMMA ClaimPreserves ==
    ASSUME IInv, NEW w \in Workers, NEW m \in Messages, Claim(w, m) PROVE IInv'
<1> USE DEF IInv
<1>1. /\ row' \in [Messages -> Row] /\ row'[m].status = "processing" /\ row'[m].age = 0
      /\ \A n \in Messages : n # m => row'[n] = row[n]
    BY Limits DEF OutboxTypes, Row, Claim
<1>2. worker'[w] = [pc |-> "claimed", msg |-> m, attempts |-> row[m].attempts + 1,
                    age |-> 0, mailed |-> FALSE]
    BY DEF OutboxTypes, Claim, NoTask
<1>3. /\ \A v \in Workers : v # w => worker'[v] = worker[v]
      /\ worker' = [v \in Workers |-> worker'[v]]
    BY DEF OutboxTypes, Claim
<1>4. OutboxTypes'
  <2>1. worker'[w] \in Task
      BY <1>2 DEF OutboxTypes, Row, Task
  <2>2. worker' \in [Workers -> Task]
      BY <1>3, <2>1 DEF OutboxTypes
  <2>3. broker' \in [Messages -> Nat]
      BY DEF OutboxTypes, Claim, Take
  <2>4. QED
      BY <1>1, <2>2, <2>3 DEF OutboxTypes, Claim
<1>5. \A v \in Workers : AtWork(v) => worker[v].msg # m
  <2> SUFFICES ASSUME NEW v \in Workers, AtWork(v), worker[v].msg = m PROVE FALSE
      OBVIOUS
  <2>1. row[m].status = "processing" /\ row[m].age = worker[v].age /\ worker[v].age <= TIME_LIMIT
      BY DEF WorkersHoldTheirRow
  <2>2. row[m].age >= LOCK_TIMEOUT
      BY <2>1, Limits DEF Claim, Claimable, OutboxTypes, Task
  <2>3. QED
      BY <2>1, <2>2, Limits DEF OutboxTypes, Task
<1>6. ~AtWork(w)
    BY DEF Claim, AtWork
<1>7. WorkersHoldTheirRow'
  <2> SUFFICES ASSUME NEW v \in Workers, AtWork(v)'
               PROVE  /\ worker'[v].msg \in Messages
                      /\ row'[worker'[v].msg].status = "processing"
                      /\ row'[worker'[v].msg].age = worker'[v].age
                      /\ worker'[v].age <= TIME_LIMIT
      BY DEF WorkersHoldTheirRow
  <2>1. CASE v = w
      BY <2>1, <1>1, <1>2, Limits
  <2>2. CASE v # w
      BY <2>2, <1>1, <1>3, <1>5 DEF WorkersHoldTheirRow, AtWork
  <2>3. QED
      BY <2>1, <2>2
<1>8. OneSender'
    BY <1>2, <1>3, <1>5 DEF OneSender, AtWork
<1>9. TasksKnowTheirMail'
  <2>1. ~worker'[w].mailed /\ worker'[w].pc = "claimed"
      BY <1>2
  <2>2. UNCHANGED <<mails, subject>>
      BY DEF Claim
  <2>3. QED
      BY <1>3, <2>1, <2>2 DEF TasksKnowTheirMail, AtWork
<1>10. MailsAreRecorded'
  <2>1. \A n \in Messages : row[n].status = "sent" => row'[n].status = "sent"
      BY <1>1 DEF Claim, Claimable
  <2>2. \A v \in Workers : AtWork(v) => AtWork(v)' /\ worker'[v] = worker[v]
      BY <1>3, <1>6 DEF AtWork
  <2>3. UNCHANGED <<mails, lapses>>
      BY DEF Claim
  <2>4. QED
      BY <2>1, <2>2, <2>3 DEF MailsAreRecorded
<1>11. SentIsMailed'
    BY <1>1 DEF SentIsMailed, Claim
<1>12. QED
    BY <1>4, <1>7, <1>8, <1>9, <1>10, <1>11

\* A task that finds nothing to claim leaves a copy less.
LEMMA SkipPreserves ==
    ASSUME IInv, NEW w \in Workers, NEW m \in Messages, SkipTask(w, m) PROVE IInv'
<1> USE DEF IInv
<1>1. OutboxTypes'
    BY DEF OutboxTypes, SkipTask, Take
<1>2. WorkersHoldTheirRow' /\ OneSender' /\ TasksKnowTheirMail' /\ MailsAreRecorded' /\ SentIsMailed'
    BY DEF WorkersHoldTheirRow, OneSender, TasksKnowTheirMail, MailsAreRecorded, SentIsMailed,
           AtWork, SkipTask
<1>3. QED
    BY <1>1, <1>2

-----------------------------------------------------------------------------
(* A task's own steps.                                                     *)

\* A retry waits for a number of ticks.
LEMMA DelayType == \A a \in Nat : Delay(a) \in Nat \ {0}
BY OutboxAssumption DEF Delay

\* _send goes on to the SMTP call, or to the update that ends the task.
LEMMA CheckPreserves ==
    ASSUME IInv, NEW w \in Workers, CheckSubject(w) PROVE IInv'
<1> USE DEF IInv
<1>1. PICK pc \in {"sending", "finish", "failed"} :
          /\ worker' = [worker EXCEPT ![w].pc = pc]
          /\ pc = "finish" => subject[worker[w].msg] = "closed"
    BY DEF CheckSubject, Goto
<1>2. /\ worker[w].pc = "claimed"
      /\ UNCHANGED <<row, subject, broker, etas, mails, lapses, kills>>
    BY DEF CheckSubject
<1>3. /\ worker'[w].pc = pc /\ worker'[w].msg = worker[w].msg
      /\ worker'[w].age = worker[w].age /\ worker'[w].mailed = worker[w].mailed
      /\ \A v \in Workers : v # w => worker'[v] = worker[v]
    BY <1>1 DEF OutboxTypes, Task
<1>4. OutboxTypes'
    BY <1>1, <1>2 DEF OutboxTypes, Task
<1>5. WorkersHoldTheirRow'
    BY <1>2, <1>3 DEF WorkersHoldTheirRow, AtWork
<1>6. OneSender'
    BY <1>2, <1>3 DEF OneSender
<1>7. ~worker[w].mailed
    BY <1>2 DEF TasksKnowTheirMail, AtWork, OutboxTypes, Task
<1>8. TasksKnowTheirMail'
    BY <1>1, <1>2, <1>3, <1>7 DEF TasksKnowTheirMail, AtWork
<1>9. MailsAreRecorded'
    BY <1>2, <1>3, <1>7 DEF MailsAreRecorded, AtWork
<1>10. SentIsMailed'
    BY <1>2 DEF SentIsMailed
<1>11. QED
    BY <1>4, <1>5, <1>6, <1>8, <1>9, <1>10

\* The SMTP exchange: an email that leaves is the task's to record, or has
\* lapsed.
LEMMA SendPreserves ==
    ASSUME IInv, NEW w \in Workers, SendMail(w) PROVE IInv'
<1> USE DEF IInv
<1> DEFINE m == worker[w].msg
<1>1. /\ worker[w].pc = "sending" /\ AtWork(w) /\ m \in Messages /\ row[m].status = "processing"
      /\ UNCHANGED <<row, subject, broker, etas, kills>>
    BY DEF SendMail, AtWork, WorkersHoldTheirRow
<1>2. ~worker[w].mailed
    BY <1>1 DEF TasksKnowTheirMail, OutboxTypes, Task
<1>3. \A v \in Workers : v # w => worker'[v] = worker[v]
    BY DEF SendMail, Goto, OutboxTypes
<1>4. worker'[w].msg = m /\ worker'[w].age = worker[w].age
    BY DEF SendMail, Goto, OutboxTypes, Task
<1>5. \/ /\ worker'[w].pc = "finish" /\ worker'[w].mailed
         /\ mails' = [mails EXCEPT ![m] = @ + 1] /\ lapses' = lapses
      \/ /\ worker'[w].pc = "failed" /\ ~worker'[w].mailed
         /\ mails' = mails /\ lapses' = lapses
      \/ /\ worker'[w].pc = "failed" /\ ~worker'[w].mailed
         /\ mails' = [mails EXCEPT ![m] = @ + 1] /\ lapses' = [lapses EXCEPT ![m] = @ + 1]
    BY <1>2 DEF SendMail, Goto, OutboxTypes, Task
<1>6. OutboxTypes'
  <2>1. worker' \in [Workers -> Task]
    <3>1. PICK s : s = worker'[w]
        OBVIOUS
    <3>2. worker[w] \in Task /\ s \in Task
        BY <1>1, <3>1 DEF SendMail, Goto, OutboxTypes, Task
    <3>3. worker' = [worker EXCEPT ![w] = s]
        BY <1>3, <3>1 DEF SendMail, Goto, OutboxTypes
    <3>4. worker \in [Workers -> Task]
        BY DEF OutboxTypes
    <3>5. QED
        BY ONLY <3>2, <3>3, <3>4
  <2>2. mails' \in [Messages -> Nat] /\ lapses' \in [Messages -> Nat]
      BY <1>1, <1>5 DEF OutboxTypes
  <2>3. QED
      BY <1>1, <2>1, <2>2 DEF OutboxTypes
<1>7. WorkersHoldTheirRow'
    BY <1>1, <1>3, <1>4 DEF WorkersHoldTheirRow, AtWork
<1>8. OneSender'
    BY <1>1, <1>3, <1>4 DEF OneSender, AtWork
<1>9. \A n \in Messages : mails'[n] >= mails[n]
    BY <1>5 DEF OutboxTypes
<1>10. TasksKnowTheirMail'
  <2> SUFFICES ASSUME NEW v \in Workers, AtWork(v)'
               PROVE  /\ worker'[v].mailed => worker'[v].pc = "finish" /\ mails'[worker'[v].msg] > 0
                      /\ worker'[v].pc = "finish" =>
                             worker'[v].mailed \/ subject'[worker'[v].msg] = "closed"
      BY DEF TasksKnowTheirMail
  <2>1. CASE v = w
      BY <2>1, <1>1, <1>4, <1>5 DEF OutboxTypes
  <2>2. CASE v # w
    <3>1. AtWork(v) /\ worker'[v] = worker[v] /\ worker[v].msg \in Messages
        BY <2>2, <1>3 DEF AtWork, WorkersHoldTheirRow
    <3>2. worker[v].mailed => mails[worker[v].msg] > 0
        BY <3>1 DEF TasksKnowTheirMail
    <3>3. worker[v].mailed => mails'[worker[v].msg] > 0
        BY <3>1, <3>2, <1>9, <1>6 DEF OutboxTypes
    <3>4. QED
        BY <3>1, <3>3, <1>1 DEF TasksKnowTheirMail
  <2>3. QED
      BY <2>1, <2>2
<1>11. MailsAreRecorded'
  <2>1. mails[m] <= lapses[m]
    <3>1. \A v \in Workers : AtWork(v) /\ worker[v].msg = m => v = w
        BY <1>1 DEF OneSender, AtWork
    <3>2. QED
        BY <3>1, <1>1, <1>2 DEF MailsAreRecorded
  <2> SUFFICES ASSUME NEW n \in Messages
               PROVE  \/ mails'[n] <= lapses'[n]
                      \/ /\ mails'[n] = lapses'[n] + 1
                         /\ \/ row'[n].status = "sent"
                            \/ \E v \in Workers : AtWork(v)' /\ worker'[v].msg = n /\ worker'[v].mailed
      BY DEF MailsAreRecorded
  <2>2. CASE n = m
    <3>1. AtWork(w)' /\ worker'[w].msg = n
        BY <2>2, <1>4, <1>5 DEF AtWork
    <3>2. \/ mails'[n] <= lapses'[n]
          \/ mails'[n] = lapses'[n] + 1 /\ worker'[w].mailed
      <4>1. mails'[n] = mails[n] + 1 /\ lapses'[n] = lapses[n] /\ mails[n] \in Nat /\ lapses[n] \in Nat
                => mails'[n] <= lapses'[n] \/ mails'[n] = lapses'[n] + 1
          BY <2>1, <2>2
      <4>2. QED
          BY <2>1, <2>2, <1>5, <4>1 DEF OutboxTypes
    <3>3. QED
        BY <3>1, <3>2
  <2>3. CASE n # m
    <3>1. mails'[n] = mails[n] /\ lapses'[n] = lapses[n] /\ row'[n] = row[n]
        BY <2>3, <1>1, <1>5 DEF OutboxTypes
    <3>2. \A v \in Workers : AtWork(v) /\ worker[v].msg = n => AtWork(v)' /\ worker'[v] = worker[v]
        BY <2>3, <1>3 DEF AtWork
    <3>3. QED
        BY <3>1, <3>2 DEF MailsAreRecorded
  <2>4. QED
      BY <2>2, <2>3
<1>12. SentIsMailed'
    BY <1>1, <1>6, <1>9 DEF SentIsMailed, OutboxTypes
<1>13. QED
    BY <1>6, <1>7, <1>8, <1>10, <1>11, <1>12

\* A task ends, or is killed: nobody else holds its row, and its email is
\* recorded, lapsed or was never sent.
LEMMA LeavingPreserves ==
    ASSUME IInv, NEW w \in Workers, AtWork(w), worker' = [worker EXCEPT ![w] = NoTask],
           row' \in [Messages -> Row], broker' \in [Messages -> Nat],
           etas' \in [Messages -> SUBSET (Nat \ {0})], lapses' \in [Messages -> Nat],
           kills' \in Nat, UNCHANGED <<subject, mails>>,
           \A n \in Messages : n # worker[w].msg => row'[n] = row[n] /\ lapses'[n] = lapses[n],
           \/ mails[worker[w].msg] <= lapses'[worker[w].msg]
           \/ /\ mails[worker[w].msg] = lapses'[worker[w].msg] + 1
              /\ row'[worker[w].msg].status = "sent",
           row'[worker[w].msg].status = "sent" =>
               mails[worker[w].msg] > 0 \/ subject[worker[w].msg] = "closed"
    PROVE  IInv'
<1> USE DEF IInv
<1>1. ~AtWork(w)'
    BY DEF AtWork, NoTask, OutboxTypes
<1>2. \A v \in Workers : v # w => worker'[v] = worker[v]
    BY DEF OutboxTypes
<1>3. \A v \in Workers : AtWork(v)' => /\ AtWork(v) /\ worker'[v] = worker[v]
                                       /\ worker[v].msg # worker[w].msg
    BY <1>1, <1>2 DEF AtWork, OneSender
<1>4. OutboxTypes'
    BY DEF OutboxTypes, NoTask, Task
<1>5. WorkersHoldTheirRow'
    BY <1>3 DEF WorkersHoldTheirRow
<1>6. OneSender'
    BY <1>3 DEF OneSender, AtWork
<1>7. TasksKnowTheirMail'
    BY <1>3 DEF TasksKnowTheirMail
<1>8. MailsAreRecorded'
  <2> SUFFICES ASSUME NEW n \in Messages, n # worker[w].msg
               PROVE  \/ mails'[n] <= lapses'[n]
                      \/ /\ mails'[n] = lapses'[n] + 1
                         /\ \/ row'[n].status = "sent"
                            \/ \E v \in Workers : AtWork(v)' /\ worker'[v].msg = n /\ worker'[v].mailed
      BY DEF MailsAreRecorded
  <2>1. \A v \in Workers : AtWork(v) /\ worker[v].msg = n => AtWork(v)' /\ worker'[v] = worker[v]
      BY <1>2 DEF AtWork
  <2>2. QED
      BY <2>1 DEF MailsAreRecorded
<1>9. SentIsMailed'
    BY DEF SentIsMailed
<1>10. QED
    BY <1>4, <1>5, <1>6, <1>7, <1>8, <1>9

\* What is known of the email of a task, from the invariant.
LEMMA MailOfTask ==
    ASSUME IInv, NEW w \in Workers, AtWork(w)
    PROVE  /\ worker[w].msg \in Messages /\ row[worker[w].msg].status = "processing"
           /\ worker[w].mailed => mails[worker[w].msg] <= lapses[worker[w].msg] + 1
           /\ ~worker[w].mailed => mails[worker[w].msg] <= lapses[worker[w].msg]
<1>1. worker[w].msg \in Messages /\ row[worker[w].msg].status = "processing"
    BY DEF IInv, WorkersHoldTheirRow
<1>2. \A v \in Workers : AtWork(v) /\ worker[v].msg = worker[w].msg => v = w
    BY DEF IInv, OneSender, AtWork
<1>3. mails[worker[w].msg] \in Nat /\ lapses[worker[w].msg] \in Nat
    BY <1>1 DEF IInv, OutboxTypes
<1>4. QED
    BY <1>1, <1>2, <1>3 DEF IInv, MailsAreRecorded

\* The except branch: the task has no email to record.
LEMMA FailurePreserves ==
    ASSUME IInv, NEW w \in Workers, RecordFailure(w) PROVE IInv'
<1> DEFINE m == worker[w].msg
<1>1. AtWork(w) /\ ~worker[w].mailed
    BY DEF RecordFailure, AtWork, IInv, TasksKnowTheirMail, OutboxTypes, Task
<1>2. m \in Messages /\ mails[m] <= lapses[m]
    BY <1>1, MailOfTask
<1>3. Delay(worker[w].attempts) \in Nat \ {0}
    BY DelayType DEF IInv, OutboxTypes, Task
<1>4. PICK d \in Nat \ {0}, st \in {"failed", "queued"} :
          /\ row' = [row EXCEPT ![m].status = st, ![m].wait = d, ![m].age = 0]
          /\ etas' = [etas EXCEPT ![m] = IF st = "failed" THEN @ ELSE @ \cup {d}]
    BY <1>3 DEF RecordFailure
<1>5. /\ row' \in [Messages -> Row] /\ row'[m].status # "sent"
      /\ \A n \in Messages : n # m => row'[n] = row[n]
  <2>1. row[m] \in Row
      BY <1>2 DEF IInv, OutboxTypes
  <2>2. PICK r : r = [row[m] EXCEPT !.status = st, !.wait = d, !.age = 0]
      OBVIOUS
  <2>3. r = [status |-> st, attempts |-> row[m].attempts, age |-> 0, wait |-> d,
             secret |-> row[m].secret]
      BY <2>1, <2>2 DEF Row
  <2>4. r \in Row /\ r.status # "sent"
      BY <2>1, <2>3, Limits DEF Row
  <2>5. row' = [row EXCEPT ![m] = r]
      BY <1>4, <2>2
  <2>6. row \in [Messages -> Row] /\ m \in Messages
      BY <1>2 DEF IInv, OutboxTypes
  <2> HIDE DEF m
  <2>7. QED
      BY ONLY <2>4, <2>5, <2>6
<1>6. etas' \in [Messages -> SUBSET (Nat \ {0})]
    BY <1>2, <1>4 DEF IInv, OutboxTypes
<1>7. QED
    BY <1>1, <1>2, <1>5, <1>6, LeavingPreserves DEF RecordFailure, IInv, OutboxTypes

\* The closing update: the email is recorded, or there was none to send.
LEMMA SentPreserves ==
    ASSUME IInv, NEW w \in Workers, RecordSent(w) PROVE IInv'
<1> DEFINE m == worker[w].msg
<1>1. /\ AtWork(w)
      /\ worker[w].mailed => mails[m] > 0
      /\ worker[w].mailed \/ subject[m] = "closed"
    BY DEF RecordSent, AtWork, IInv, TasksKnowTheirMail
<1>2. /\ m \in Messages /\ mails[m] \in Nat /\ lapses[m] \in Nat
      /\ mails[m] <= lapses[m] + 1
    BY <1>1, MailOfTask DEF IInv, OutboxTypes
<1>3. /\ row' \in [Messages -> Row] /\ row'[m].status = "sent"
      /\ \A n \in Messages : n # m => row'[n] = row[n]
  <2>1. ASSUME NEW r \in Row, NEW s,
               s = [r EXCEPT !.status = "sent", !.secret = FALSE, !.age = 0]
        PROVE  s \in Row /\ s.status = "sent"
    <3>1. s = [status |-> "sent", attempts |-> r.attempts, age |-> 0, wait |-> r.wait,
               secret |-> FALSE]
        BY <2>1 DEF Row
    <3>2. QED
        BY <3>1, Limits DEF Row
  <2>2. row' = [row EXCEPT ![m] = [row[m] EXCEPT !.status = "sent", !.secret = FALSE, !.age = 0]]
      BY DEF RecordSent
  <2>3. QED
      BY <1>2, <2>1, <2>2 DEF IInv, OutboxTypes
<1>4. mails[m] <= lapses[m] \/ mails[m] = lapses[m] + 1
    BY <1>2
<1>5. QED
    BY <1>1, <1>2, <1>3, <1>4, LeavingPreserves DEF RecordSent, IInv, OutboxTypes

\* A worker is lost: its email, if it left, has lapsed.
LEMMA KillPreserves ==
    ASSUME IInv, NEW w \in Workers, KillWorker(w) PROVE IInv'
<1> DEFINE m == worker[w].msg
<1>1. AtWork(w)
    BY DEF KillWorker, AtWork
<1>2. /\ m \in Messages /\ row[m].status = "processing" /\ mails[m] \in Nat /\ lapses[m] \in Nat
      /\ worker[w].mailed => mails[m] <= lapses[m] + 1
      /\ ~worker[w].mailed => mails[m] <= lapses[m]
    BY <1>1, MailOfTask DEF IInv, OutboxTypes
<1>3. /\ lapses' \in [Messages -> Nat] /\ mails[m] <= lapses'[m]
      /\ \A n \in Messages : n # m => lapses'[n] = lapses[n]
    BY <1>2 DEF KillWorker, IInv, OutboxTypes, Task
<1>4. broker' \in [Messages -> Nat] /\ kills' \in Nat
    BY <1>2 DEF KillWorker, Publish, IInv, OutboxTypes
<1>5. QED
    BY <1>1, <1>2, <1>3, <1>4, LeavingPreserves DEF KillWorker, IInv, OutboxTypes

-----------------------------------------------------------------------------
(* Beat's task and the time.                                               *)

\* The dispatcher releases stale locks, and no worker holds one.
LEMMA DispatchPreserves ==
    ASSUME IInv, dispatch_pending_outbox PROVE IInv'
<1> USE DEF IInv
<1>1. /\ row' \in [Messages -> Row]
      /\ \A n \in Messages :
            \/ row'[n] = row[n]
            \/ row[n].age = LOCK_TIMEOUT /\ row[n].status = "processing" /\ row'[n].status = "queued"
  <2>1. ASSUME NEW r \in Row
        PROVE  /\ Released(r) \in Row
               /\ \/ Released(r) = r
                  \/ r.age = LOCK_TIMEOUT /\ r.status = "processing" /\ Released(r).status = "queued"
    <3>1. ASSUME NEW s, s = [r EXCEPT !.status = "queued", !.age = 0]
          PROVE  s \in Row /\ s.status = "queued"
      <4>1. s = [status |-> "queued", attempts |-> r.attempts, age |-> 0, wait |-> r.wait,
                 secret |-> r.secret]
          BY <3>1 DEF Row
      <4>2. QED
          BY <4>1, Limits DEF Row
    <3>2. QED
        BY <3>1 DEF Released
  <2>2. row' = [n \in Messages |-> Released(row[n])]
      BY DEF dispatch_pending_outbox
  <2>3. \A n \in Messages : row[n] \in Row /\ row'[n] = Released(row[n])
      BY <2>2 DEF OutboxTypes
  <2>4. row' \in [Messages -> Row]
      BY <2>1, <2>2, <2>3
  <2>5. QED
      BY <2>1, <2>3, <2>4
<1>2. broker' \in [Messages -> Nat]
  <2>1. \A n \in Messages : Publish(broker, n)[n] \in Nat
      BY DEF Publish, OutboxTypes
  <2>2. QED
      BY <2>1 DEF dispatch_pending_outbox, OutboxTypes
<1>3. UNCHANGED <<subject, etas, worker, mails, lapses, kills>>
    BY DEF dispatch_pending_outbox
<1>4. OutboxTypes'
    BY <1>1, <1>2, <1>3 DEF OutboxTypes
<1>5. \A w \in Workers : AtWork(w) => row'[worker[w].msg] = row[worker[w].msg]
    BY <1>1, Limits DEF WorkersHoldTheirRow, OutboxTypes, Task
<1>6. WorkersHoldTheirRow'
    BY <1>3, <1>5 DEF WorkersHoldTheirRow, AtWork
<1>7. OneSender' /\ TasksKnowTheirMail'
    BY <1>3 DEF OneSender, TasksKnowTheirMail, AtWork
<1>8. \A n \in Messages : row'[n].status = "sent" <=> row[n].status = "sent"
    BY <1>1
<1>9. MailsAreRecorded' /\ SentIsMailed'
    BY <1>3, <1>8 DEF MailsAreRecorded, SentIsMailed, AtWork
<1>10. QED
    BY <1>4, <1>6, <1>7, <1>9

\* A tick: the locks of the rows that are worked on and the tasks grow older
\* together, and no task outlives its limit.
LEMMA TickPreserves ==
    ASSUME IInv, Tick PROVE IInv'
<1> USE DEF IInv
<1>1. /\ row' \in [Messages -> Row]
      /\ \A n \in Messages : /\ row'[n].status = row[n].status
                             /\ row[n].status = "processing"
                                    => row'[n].age = Older(row[n].age, LOCK_TIMEOUT)
  <2> DEFINE Age(r) == IF r.status = "processing" THEN Older(r.age, LOCK_TIMEOUT) ELSE 0
             Wait(r) == IF r.wait > 0 THEN r.wait - 1 ELSE 0
             Aged(r) == [r EXCEPT !.age = Age(r), !.wait = Wait(r)]
  <2>1. ASSUME NEW r \in Row
        PROVE  /\ Aged(r) \in Row /\ Aged(r).status = r.status
               /\ r.status = "processing" => Aged(r).age = Older(r.age, LOCK_TIMEOUT)
    <3>1. Age(r) \in 0..LOCK_TIMEOUT /\ Wait(r) \in Nat
        BY Limits DEF Older, Row
    <3>2. ASSUME NEW age \in 0..LOCK_TIMEOUT, NEW wait \in Nat
          PROVE  LET s == [r EXCEPT !.age = age, !.wait = wait]
                 IN  s \in Row /\ s.status = r.status /\ s.age = age
        BY DEF Row
    <3> HIDE DEF Age, Wait
    <3>3. Aged(r) \in Row /\ Aged(r).status = r.status /\ Aged(r).age = Age(r)
        BY <3>1, <3>2
    <3>4. QED
        BY <3>3 DEF Age
  <2>2. row' = [n \in Messages |-> Aged(row[n])]
      BY DEF Tick
  <2> HIDE DEF Aged
  <2>3. QED
      BY <2>1, <2>2 DEF OutboxTypes
<1>2. broker' \in [Messages -> Nat]
  <2>1. \A n \in Messages : Publish(broker, n)[n] \in Nat
      BY DEF Publish, OutboxTypes
  <2>2. QED
      BY <2>1 DEF Tick, OutboxTypes
<1>3. etas' \in [Messages -> SUBSET (Nat \ {0})]
  <2>1. \A n \in Messages : {t - 1 : t \in etas[n] \ {1}} \subseteq Nat \ {0}
      BY DEF OutboxTypes
  <2>2. QED
      BY <2>1 DEF Tick
<1>4. \A w \in Workers :
        /\ AtWork(w) => worker'[w] = [worker[w] EXCEPT !.age = @ + 1] /\ worker[w].age < TIME_LIMIT
        /\ ~AtWork(w) => worker'[w] = worker[w]
    BY DEF Tick, AtWork, OutboxTypes
<1>5. \A w \in Workers :
        /\ worker'[w].pc = worker[w].pc /\ worker'[w].msg = worker[w].msg
        /\ worker'[w].mailed = worker[w].mailed
        /\ AtWork(w) => worker'[w].age = worker[w].age + 1
  <2>1. \A t \in Task : LET u == [t EXCEPT !.age = @ + 1]
                        IN  /\ u \in Task /\ u.pc = t.pc /\ u.msg = t.msg
                            /\ u.mailed = t.mailed /\ u.age = t.age + 1
      BY DEF Task
  <2>2. QED
      BY <1>4, <2>1 DEF OutboxTypes
<1>6. worker' \in [Workers -> Task]
  <2>1. \A t \in Task : [t EXCEPT !.age = @ + 1] \in Task
      BY DEF Task
  <2>2. QED
      BY <2>1 DEF Tick, OutboxTypes
<1>7. UNCHANGED <<subject, mails, lapses, kills>>
    BY DEF Tick
<1>8. OutboxTypes'
    BY <1>1, <1>2, <1>3, <1>6, <1>7 DEF OutboxTypes
<1>9. WorkersHoldTheirRow'
  <2> SUFFICES ASSUME NEW w \in Workers, AtWork(w)'
               PROVE  /\ worker'[w].msg \in Messages
                      /\ row'[worker'[w].msg].status = "processing"
                      /\ row'[worker'[w].msg].age = worker'[w].age
                      /\ worker'[w].age <= TIME_LIMIT
      BY DEF WorkersHoldTheirRow
  <2>1. AtWork(w)
      BY <1>5 DEF AtWork
  <2>2. /\ worker[w].msg \in Messages /\ row[worker[w].msg].status = "processing"
        /\ row[worker[w].msg].age = worker[w].age /\ worker[w].age < TIME_LIMIT
        /\ worker[w].age \in Nat
      BY <2>1, <1>4 DEF WorkersHoldTheirRow, OutboxTypes, Task
  <2>3. row'[worker[w].msg].age = worker[w].age + 1
      BY <2>2, <1>1, Limits DEF Older
  <2>4. QED
      BY <2>1, <2>2, <2>3, <1>1, <1>5, Limits
<1>10. OneSender' /\ TasksKnowTheirMail'
    BY <1>5, <1>7 DEF OneSender, TasksKnowTheirMail, AtWork
<1>11. MailsAreRecorded' /\ SentIsMailed'
    BY <1>1, <1>5, <1>7 DEF MailsAreRecorded, SentIsMailed, AtWork
<1>12. QED
    BY <1>8, <1>9, <1>10, <1>11

-----------------------------------------------------------------------------

\* Every step preserves the invariant.
LEMMA StepIInv == IInv /\ [OutboxNext]_outboxVars => IInv'
<1> SUFFICES ASSUME IInv, [OutboxNext]_outboxVars PROVE IInv'
    OBVIOUS
<1>1. CASE \E m \in Messages : queue_outbox_message(m) \/ SubjectChanges(m)
    BY <1>1, QueuePreserves, SubjectPreserves
<1>2. CASE \E w \in Workers, m \in Messages : Claim(w, m) \/ SkipTask(w, m)
    BY <1>2, ClaimPreserves, SkipPreserves
<1>3. CASE \E w \in Workers : WorkerStep(w) \/ KillWorker(w)
    BY <1>3, CheckPreserves, SendPreserves, FailurePreserves, SentPreserves, KillPreserves
       DEF WorkerStep
<1>4. CASE dispatch_pending_outbox
    BY <1>4, DispatchPreserves
<1>5. CASE Tick
    BY <1>5, TickPreserves
<1>6. CASE UNCHANGED outboxVars
    BY <1>6 DEF outboxVars, IInv, OutboxTypes, WorkersHoldTheirRow, OneSender, TasksKnowTheirMail,
                MailsAreRecorded, SentIsMailed, AtWork
<1>7. QED
    BY <1>1, <1>2, <1>3, <1>4, <1>5, <1>6 DEF OutboxNext

\* The inductive invariant holds.
LEMMA Invariance == OutboxSpec => []IInv
<1>1. QED
    BY InitIInv, StepIInv, PTL DEF OutboxSpec

\* Rows, tasks and counters hold what their columns and fields allow.
THEOREM OutboxTypesHold == OutboxSpec => []OutboxTypes
<1>1. IInv => OutboxTypes
    BY DEF IInv
<1>2. QED
    BY <1>1, Invariance, PTL

\* One worker at most is at work on a row (_claim, LOCK_TIMEOUT and the task
\* time limit), for any number of copies of the task, workers lost and ticks.
THEOREM AlwaysOneSender == OutboxSpec => []OneSender
<1>1. IInv => OneSender
    BY DEF IInv
<1>2. QED
    BY <1>1, Invariance, PTL

\* A row that deliver_outbox_message marks sent was mailed, or its subject was
\* settled; and no second email leaves unless an earlier one was not recorded.
THEOREM AlwaysAtLeastOnce == OutboxSpec => []DeliveryIsAtLeastOnce
<1>1. IInv => DeliveryIsAtLeastOnce
  <2> SUFFICES ASSUME IInv, NEW m \in Messages
               PROVE  /\ row[m].status = "sent" => mails[m] > 0 \/ subject[m] = "closed"
                      /\ mails[m] <= lapses[m] + 1
      BY DEF DeliveryIsAtLeastOnce
  <2>1. mails[m] \in Nat /\ lapses[m] \in Nat
      BY DEF IInv, OutboxTypes
  <2>2. QED
      BY <2>1 DEF IInv, SentIsMailed, MailsAreRecorded
<1>2. QED
    BY <1>1, Invariance, PTL

\* Once a row is marked sent no copy of its task, retry or dispatch mails it
\* again or takes it back.
SentRowsRest ==
    [][\A m \in Messages : row[m].status = "sent" =>
           row'[m].status = "sent" /\ mails'[m] = mails[m]]_outboxVars

\* Whoever mails or records an outcome holds a row that is processing, and a
\* claim refuses a row that is sent.
THEOREM SentIsFinal == OutboxSpec => SentRowsRest
<1>1. ASSUME IInv, [OutboxNext]_outboxVars, NEW m \in Messages, row[m].status = "sent"
      PROVE  row'[m].status = "sent" /\ mails'[m] = mails[m]
  <2> DEFINE Rests == row'[m].status = "sent" /\ mails'[m] = mails[m]
  <2>1. CASE \E n \in Messages : queue_outbox_message(n) \/ SubjectChanges(n)
      BY <2>1, <1>1 DEF queue_outbox_message, SubjectChanges, IInv, OutboxTypes
  <2>2. CASE \E w \in Workers, n \in Messages : Claim(w, n) \/ SkipTask(w, n)
      BY <2>2, <1>1 DEF Claim, Claimable, SkipTask, IInv, OutboxTypes
  <2>3. ASSUME NEW w \in Workers, WorkerStep(w) \/ KillWorker(w) PROVE Rests
    <3>1. worker[w].msg \in Messages \ {m}
      <4>1. AtWork(w)
          BY <2>3 DEF WorkerStep, CheckSubject, SendMail, RecordFailure, RecordSent, KillWorker,
                      AtWork
      <4>2. QED
          BY <4>1, <1>1 DEF IInv, WorkersHoldTheirRow
    <3>2. CASE CheckSubject(w) \/ SendMail(w)
        BY <3>2, <3>1, <1>1 DEF CheckSubject, SendMail, IInv, OutboxTypes
    <3>3. CASE RecordFailure(w) \/ RecordSent(w) \/ KillWorker(w)
        BY <3>3, <3>1, <1>1 DEF RecordFailure, RecordSent, KillWorker, IInv, OutboxTypes
    <3>4. QED
        BY <3>2, <3>3, <2>3 DEF WorkerStep
  <2>4. CASE dispatch_pending_outbox
      BY <2>4, <1>1 DEF dispatch_pending_outbox, Released, IInv, OutboxTypes
  <2>5. CASE Tick
    <3>1. row'[m].status = row[m].status
      <4>1. ASSUME NEW r \in Row, NEW a, NEW d
            PROVE  [r EXCEPT !.age = a, !.wait = d].status = r.status
          BY DEF Row
      <4>2. PICK a, d : row'[m] = [row[m] EXCEPT !.age = a, !.wait = d]
          BY <2>5 DEF Tick
      <4>3. QED
          BY <4>1, <4>2, <1>1 DEF IInv, OutboxTypes
    <3>2. QED
        BY <3>1, <2>5, <1>1 DEF Tick
  <2>6. CASE UNCHANGED outboxVars
      BY <2>6, <1>1 DEF outboxVars
  <2>7. QED
      BY <2>1, <2>2, <2>3, <2>4, <2>5, <2>6, <1>1 DEF OutboxNext
<1>2. IInv /\ [OutboxNext]_outboxVars =>
        [\A m \in Messages : row[m].status = "sent" =>
            row'[m].status = "sent" /\ mails'[m] = mails[m]]_outboxVars
    BY <1>1
<1>3. QED
    BY <1>2, Invariance, PTL DEF OutboxSpec, SentRowsRest
=============================================================================
