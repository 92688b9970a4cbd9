----------------------------- MODULE Notifications -----------------------------
(***************************************************************************)
(* Notification rows from the transaction that creates them to the Celery  *)
(* task that sends them: the on_commit callbacks of core/services.py, the  *)
(* task send_notification of core/tasks.py and the generic edits of        *)
(* NotificationViewSet.                                                    *)
(*                                                                         *)
(* The callbacks run after the commit, in the request's thread, in the     *)
(* order they were registered: enqueue, then broadcast; one that raises    *)
(* takes the ones behind it along.  The task runs in a transaction of its  *)
(* own that locks the row first; it writes the failure of a dispatch and   *)
(* then raises out of that same transaction.  Celery acknowledges a        *)
(* message before it runs the task.  A worker sets no organization on its   *)
(* connection, so where the policies of migration 0002 bind the database   *)
(* role it finds no notification.                                          *)
(***************************************************************************)
EXTENDS Naturals, Sequences, FiniteSets

CONSTANTS
  Notices,      \* primary keys of notifications
  External,     \* those on a channel that needs a provider (email, sms, push)
  Workers,      \* Celery worker processes
  MaxRetries,   \* max_retries of the task
  PoliciesBind, \* whether the row-level policies bind the database role
  Conditions    \* what a behaviour may meet, see Condition

\* The kinds of fault that may happen, and three bounds: how many of them, how
\* many generic edits begun and how many rows deleted.
Condition == [kinds : SUBSET {"crash", "broker", "commit", "death", "redelivery"},
              faults : Nat, edits : Nat, deletes : Nat]

ASSUME NotificationsAssumption ==
  /\ External \subseteq Notices
  /\ MaxRetries \in Nat
  /\ PoliciesBind \in BOOLEAN
  /\ Conditions \subseteq Condition

VARIABLES
  call,         \* the service call that creates each notification
  notice,       \* the notifications table
  attempts,     \* the notification_attempts of each, oldest first
  queue,        \* messages at the broker: how many per notification and retry
  task,         \* what each worker is running
  executions,   \* history: how often the task was run for each notification
  provider,     \* whether the settings name a provider for External
  edit,         \* the generic edit in flight, if any
  limits,       \* the condition of this behaviour
  faults, edits, deletes

rows == <<notice, attempts>>
bounds == <<limits, faults, edits, deletes>>
vars == <<call, notice, attempts, queue, task, executions, provider, edit, bounds>>

Statuses == {"queued", "sent", "failed"}

NoNotice == [status |-> "absent", attempts |-> 0]

Idle == [state |-> "idle"]

NoEdit == [state |-> "none"]

Init ==
  /\ call = [n \in Notices |-> "none"]
  /\ notice = [n \in Notices |-> NoNotice]
  /\ attempts = [n \in Notices |-> <<>>]
  /\ queue = [n \in Notices |-> [k \in 0..MaxRetries |-> 0]]
  /\ task = [w \in Workers |-> Idle]
  /\ executions = [n \in Notices |-> 0]
  /\ provider \in BOOLEAN
  /\ edit = NoEdit
  /\ limits \in Conditions
  /\ faults = 0 /\ edits = 0 /\ deletes = 0

Fault(kind) ==
  /\ kind \in limits.kinds
  /\ faults < limits.faults
  /\ faults' = faults + 1
  /\ UNCHANGED <<limits, edits, deletes>>

Locked(n) == \E w \in Workers : task[w].state = "locked" /\ task[w].n = n

Put(n, k) == queue' = [queue EXCEPT ![n][k] = @ + 1]

-------------------------------------------------------------------------------
(* assign_courier and transition_delivery: the row is inserted in a        *)
(* transaction; what follows its commit depends on the call that made it.  *)

OpenTransaction(n) ==
  /\ call[n] = "none"
  /\ call' = [call EXCEPT ![n] = "open"]
  /\ UNCHANGED <<rows, queue, task, executions, provider, edit, bounds>>

Commit(n) ==
  /\ call[n] = "open"
  /\ call' = [call EXCEPT ![n] = "committed"]
  /\ notice' = [notice EXCEPT ![n].status = "queued"]
  /\ UNCHANGED <<attempts, queue, task, executions, provider, edit, bounds>>

Rollback(n) ==
  /\ call[n] = "open"
  /\ call' = [call EXCEPT ![n] = "rolled_back"]
  /\ UNCHANGED <<rows, queue, task, executions, provider, edit, bounds>>

\* Mutant of Enqueue: delay() at once, not on commit.
EnqueueAtOnce(n) ==
  /\ call[n] = "open"
  /\ queue[n][0] = 0
  /\ Put(n, 0)
  /\ UNCHANGED <<call, rows, task, executions, provider, edit, bounds>>

Enqueue(n) ==
  /\ call[n] = "committed"
  /\ call' = [call EXCEPT ![n] = "enqueued"]
  /\ Put(n, 0)
  /\ UNCHANGED <<rows, task, executions, provider, edit, bounds>>

\* The broker refuses the message: on_commit callbacks are not robust, so the
\* broadcast behind it is not run either.
EnqueueFails(n) ==
  /\ call[n] = "committed"
  /\ Fault("broker")
  /\ call' = [call EXCEPT ![n] = "lost"]
  /\ UNCHANGED <<rows, queue, task, executions, provider, edit>>

Broadcast(n) ==
  /\ call[n] = "enqueued"
  /\ call' = [call EXCEPT ![n] = "announced"]
  /\ UNCHANGED <<rows, queue, task, executions, provider, edit, bounds>>

\* The server process dies between the commit and the end of its callbacks.
ServerCrash(n) ==
  /\ call[n] \in {"open", "committed", "enqueued"}
  /\ Fault("crash")
  /\ call' = [call EXCEPT ![n] = "lost"]
  /\ UNCHANGED <<rows, queue, task, executions, provider, edit>>

-------------------------------------------------------------------------------
(* send_notification.                                                      *)

Take(w, n, k) ==
  /\ task[w] = Idle
  /\ queue[n][k] > 0
  /\ queue' = [queue EXCEPT ![n][k] = @ - 1]
  /\ task' = [task EXCEPT ![w] = [state |-> "taken", n |-> n, retry |-> k]]
  /\ executions' = [executions EXCEPT ![n] = @ + 1]
  /\ UNCHANGED <<call, rows, provider, edit, bounds>>

\* What get() returns a row for: app.current_org is not set in a worker.
Finds(n) == notice[n].status # "absent" /\ ~PoliciesBind

\* Mutant of LockRow: get() without select_for_update().
ReadRow(w) ==
  LET t == task[w] IN
    /\ t.state = "taken"
    /\ Finds(t.n)
    /\ task' = [task EXCEPT ![w] =
                  [state |-> "locked", n |-> t.n, retry |-> t.retry,
                   number |-> notice[t.n].attempts + 1]]
    /\ UNCHANGED <<call, rows, queue, executions, provider, edit, bounds>>

\* SELECT ... FOR UPDATE, and attempts + 1 computed from the row it returns.
LockRow(w) ==
  LET t == task[w] IN
    /\ t.state = "taken"
    /\ Finds(t.n)
    /\ ~Locked(t.n)
    /\ task' = [task EXCEPT ![w] =
                  [state |-> "locked", n |-> t.n, retry |-> t.retry,
                   number |-> notice[t.n].attempts + 1]]
    /\ UNCHANGED <<call, rows, queue, executions, provider, edit, bounds>>

\* Mutant of Retry: the last retry is lost.
RetryOneShort(w) ==
  LET t == task[w] IN
    /\ task' = [task EXCEPT ![w] = Idle]
    /\ IF t.retry + 1 < MaxRetries THEN Put(t.n, t.retry + 1) ELSE UNCHANGED queue
    /\ UNCHANGED <<call, executions, provider, edit>>

\* Any exception: autoretry_for publishes the message again, max_retries times.
Retry(w) ==
  LET t == task[w] IN
    /\ task' = [task EXCEPT ![w] = Idle]
    /\ IF t.retry < MaxRetries THEN Put(t.n, t.retry + 1) ELSE UNCHANGED queue
    /\ UNCHANGED <<call, executions, provider, edit>>

\* DoesNotExist, of a row that was deleted or is hidden.
RowNotFound(w) ==
  /\ task[w].state = "taken"
  /\ ~Finds(task[w].n)
  /\ Retry(w)
  /\ UNCHANGED <<rows, bounds>>

Dispatched(n) == n \in External => provider

\* Mutant of RecordAttempt: no attempt row.
RecordCounterOnly(n, number, success) ==
  /\ notice' = [notice EXCEPT ![n] = [status |-> IF success THEN "sent" ELSE "failed",
                                      attempts |-> number]]
  /\ UNCHANGED attempts

RecordAttempt(n, number, success) ==
  /\ notice' = [notice EXCEPT ![n] = [status |-> IF success THEN "sent" ELSE "failed",
                                      attempts |-> number]]
  /\ attempts' = [attempts EXCEPT ![n] = Append(@, [number |-> number, success |-> success])]

Succeed(w) ==
  LET t == task[w] IN
    /\ t.state = "locked"
    /\ Dispatched(t.n)
    /\ RecordAttempt(t.n, t.number, TRUE)
    /\ task' = [task EXCEPT ![w] = Idle]
    /\ UNCHANGED <<call, queue, executions, provider, edit, bounds>>

\* Mutant of DispatchFails: the failure is committed before it is raised.
DispatchFailsOnRecord(w) ==
  /\ task[w].state = "locked"
  /\ ~Dispatched(task[w].n)
  /\ RecordAttempt(task[w].n, task[w].number, FALSE)
  /\ Retry(w)
  /\ UNCHANGED bounds

\* The failure is written, and rolled back by the exception that is raised
\* again inside the transaction.
DispatchFails(w) ==
  /\ task[w].state = "locked"
  /\ ~Dispatched(task[w].n)
  /\ UNCHANGED rows
  /\ Retry(w)
  /\ UNCHANGED bounds

\* The database refuses the commit, after the dispatch.
CommitFails(w) ==
  /\ task[w].state = "locked"
  /\ Dispatched(task[w].n)
  /\ Fault("commit")
  /\ UNCHANGED rows
  /\ Retry(w)

\* The worker dies; its message was acknowledged when it was taken.
WorkerDies(w) ==
  /\ task[w] # Idle
  /\ Fault("death")
  /\ task' = [task EXCEPT ![w] = Idle]
  /\ UNCHANGED <<call, rows, queue, executions, provider, edit>>

\* The connection to the broker breaks before the acknowledgement: the broker
\* hands the message out again, the worker runs it nevertheless.
Redeliver(w) ==
  /\ task[w].state = "taken"
  /\ Fault("redelivery")
  /\ Put(task[w].n, task[w].retry)
  /\ UNCHANGED <<call, rows, task, executions, provider, edit>>

\* The deployment is restarted with other settings.
Configure ==
  /\ External # {}
  /\ provider' = ~provider
  /\ UNCHANGED <<call, rows, queue, task, executions, edit, bounds>>

-------------------------------------------------------------------------------
(* NotificationViewSet: a generic ModelViewSet whose serializer leaves the *)
(* status writable.  A POST inserts a row with any status and enqueues     *)
(* nothing; a PATCH saves every column of the copy it read, with any       *)
(* status; a DELETE takes the attempts along.  The last two wait for the   *)
(* lock of a running task.                                                 *)

Post(n) ==
  /\ call[n] = "none"
  /\ call' = [call EXCEPT ![n] = "posted"]
  /\ \E s \in Statuses : notice' = [notice EXCEPT ![n].status = s]
  /\ UNCHANGED <<attempts, queue, task, executions, provider, edit, bounds>>

BeginEdit(n) ==
  /\ edits < limits.edits
  /\ edit = NoEdit
  /\ notice[n].status # "absent"
  /\ \E s \in Statuses :
       edit' = [state |-> "read", n |-> n, row |-> [notice[n] EXCEPT !.status = s]]
  /\ edits' = edits + 1
  /\ UNCHANGED <<call, rows, queue, task, executions, provider, limits, faults, deletes>>

SaveEdit ==
  /\ edit # NoEdit
  /\ ~Locked(edit.n)
  /\ notice' = [notice EXCEPT ![edit.n] = edit.row]
  /\ edit' = NoEdit
  /\ UNCHANGED <<call, attempts, queue, task, executions, provider, bounds>>

Delete(n) ==
  /\ deletes < limits.deletes
  /\ notice[n].status # "absent"
  /\ ~Locked(n)
  /\ notice' = [notice EXCEPT ![n] = NoNotice]
  /\ attempts' = [attempts EXCEPT ![n] = <<>>]
  /\ deletes' = deletes + 1
  /\ UNCHANGED <<call, queue, task, executions, provider, edit, limits, faults, edits>>

-------------------------------------------------------------------------------

ServerStep(n) ==
  \/ OpenTransaction(n) \/ Commit(n) \/ Rollback(n)
  \/ Enqueue(n) \/ EnqueueFails(n) \/ Broadcast(n) \/ ServerCrash(n)
  \/ Post(n) \/ BeginEdit(n) \/ Delete(n)

WorkerStep(w) ==
  \/ \E n \in Notices, k \in 0..MaxRetries : Take(w, n, k)
  \/ LockRow(w) \/ RowNotFound(w)
  \/ Succeed(w) \/ DispatchFails(w) \/ CommitFails(w)

Mishap(w) == WorkerDies(w) \/ Redeliver(w)

Next ==
  \/ \E n \in Notices : ServerStep(n)
  \/ SaveEdit
  \/ \E w \in Workers : WorkerStep(w) \/ Mishap(w)
  \/ Configure

\* Weak fairness for what runs without being asked: the callbacks of a request
\* that goes on running, and the workers, of which Celery keeps a pool.
Fairness ==
  /\ \A n \in Notices : WF_vars(Enqueue(n))
  /\ \A w \in Workers : WF_vars(WorkerStep(w))

Spec == Init /\ [][Next]_vars /\ Fairness

-------------------------------------------------------------------------------
(* Properties.                                                             *)

\* Whether the message of n is at the broker or with a worker.
InFlight(n) ==
  \/ \E k \in 0..MaxRetries : queue[n][k] > 0
  \/ \E w \in Workers : task[w] # Idle /\ task[w].n = n

\* No worker is ever asked to send a notification whose transaction has not
\* committed, or was rolled back: a task finds its row unless it was deleted.
NoTaskBeforeCommit ==
  \A n \in Notices : InFlight(n) => call[n] \notin {"none", "open", "rolled_back", "posted"}

\* The counter of a notification is never ahead of its attempt rows, although
\* edits of an older copy set it back, unless one puts a deleted row back; and
\* until an edit, the attempts are numbered without a gap or a repetition and the
\* row counts them, although two workers may hold the same message and commits
\* fail after the dispatch.
AttemptsNumbered ==
  \A n \in Notices :
    /\ edits = 0 \/ deletes = 0 => notice[n].attempts <= Len(attempts[n])
    /\ edits = 0 => /\ notice[n].attempts = Len(attempts[n])
                    /\ \A i \in 1..Len(attempts[n]) : attempts[n][i].number = i

\* A notification of the service that no generic edit touched is sent exactly if
\* a successful attempt is on record, whatever fails, is retried or handed out
\* twice.  Of one that was posted the row says what the POST said.
SentIsRecorded ==
  edits = 0 =>
    \A n \in Notices :
      call[n] # "posted" =>
        (notice[n].status = "sent"
           <=> \E i \in 1..Len(attempts[n]) : attempts[n][i].success)

\* No task turns a sent notification back: a redelivered message that fails on
\* a changed configuration leaves it sent, until the row is deleted.
SentIsFinal ==
  [][\A n \in Notices :
       notice[n].status = "sent" /\ edit' = edit
         => notice'[n].status \in {"sent", "absent"}]_vars

\* Nothing but commits fails, no more of them than there are retries.
FewFailedCommits ==
  /\ limits.kinds \subseteq {"commit"}
  /\ limits.faults <= MaxRetries
  /\ limits.edits = 0

\* An in-app notification whose transaction committed is sent in the end, or
\* deleted, whatever tasks overlap and commits fail, as long as the retries last
\* ("Celery task hooks for async notifications", README.md:21).  It is so only
\* where the database role is exempt from the policies.
CommittedIsSent ==
  \A n \in Notices \ External :
    (call[n] = "committed" /\ FewFailedCommits /\ ~PoliciesBind)
      ~> notice[n].status \in {"sent", "absent"}

\* "Notification dispatch attempt logging with retryable Celery execution"
\* (README.md:23): every run of the task that dispatched leaves an attempt row.
AttemptsLogged ==
  \A n \in Notices : ~InFlight(n) => executions[n] <= Len(attempts[n])
===============================================================================
