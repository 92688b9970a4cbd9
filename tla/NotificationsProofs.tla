--------------------------- MODULE NotificationsProofs ---------------------------
(***************************************************************************)
(* NoTaskBeforeCommit, AttemptsNumbered, SentIsRecorded and SentIsFinal of *)
(* Notifications, for any number of notifications, workers and retries and *)
(* whatever the behaviour meets.                                           *)
(***************************************************************************)
EXTENDS Notifications, TLAPS

Rows == [status : Statuses \cup {"absent"}, attempts : Nat]

Attempt == [number : Nat, success : BOOLEAN]

Tasks ==
  [state : {"idle"}]
    \cup [state : {"taken"}, n : Notices, retry : 0..MaxRetries]
    \cup [state : {"locked"}, n : Notices, retry : 0..MaxRetries, number : Nat]

Calls == {"none", "open", "committed", "rolled_back", "enqueued", "announced", "lost", "posted"}

Queues == [Notices -> [0..MaxRetries -> Nat]]

MessageTypes ==
  /\ call \in [Notices -> Calls]
  /\ queue \in Queues
  /\ task \in [Workers -> Tasks]

RowTypes ==
  /\ notice \in [Notices -> Rows]
  /\ attempts \in [Notices -> Seq(Attempt)]
  /\ edits \in Nat /\ deletes \in Nat
  /\ edit # NoEdit => edit.n \in Notices /\ edit.row \in Rows

MessageInv == MessageTypes /\ NoTaskBeforeCommit

\* At first nothing is at the broker.
LEMMA InitMessages == Init => MessageInv
<1> SUFFICES ASSUME Init PROVE MessageInv
  OBVIOUS
<1>1. MessageTypes
  BY DEF Init, MessageTypes, Calls, Queues, Tasks, Idle
<1>2. NoTaskBeforeCommit
  BY DEF Init, NoTaskBeforeCommit, InFlight, Idle
<1> QED
  BY <1>1, <1>2 DEF MessageInv

\* One message more, of a notification that is in flight or just enqueued.
LEMMA PutKeeps ==
  ASSUME NEW n \in Notices, NEW k \in 0..MaxRetries, queue \in Queues, Put(n, k)
  PROVE  /\ queue' \in Queues
         /\ \A m \in Notices \ {n}, j \in 0..MaxRetries : queue'[m][j] = queue[m][j]
<1>1. [queue[n] EXCEPT ![k] = @ + 1] \in [0..MaxRetries -> Nat]
  <2>1. queue[n] \in [0..MaxRetries -> Nat]
    BY DEF Queues
  <2>2. queue[n][k] \in Nat
    BY <2>1
  <2>3. queue[n][k] + 1 \in Nat
    BY <2>2
  <2> QED
    BY <2>1, <2>3
<1>2. queue' = [queue EXCEPT ![n] = [queue[n] EXCEPT ![k] = @ + 1]]
  BY DEF Put
<1> QED
  BY <1>1, <1>2 DEF Queues

\* A task that ends, with a retry or without.
LEMMA RetryKeeps ==
  ASSUME MessageInv, NEW w \in Workers, task[w] # Idle, Retry(w)
  PROVE  MessageInv'
<1> DEFINE n == task[w].n
<1>1. n \in Notices /\ task[w].retry \in 0..MaxRetries /\ InFlight(n)
  BY DEF MessageInv, MessageTypes, Tasks, Idle, InFlight
<1>2. task' = [task EXCEPT ![w] = Idle] /\ call' = call
  BY DEF Retry
<1>3. /\ queue' \in Queues
      /\ \A m \in Notices \ {n}, j \in 0..MaxRetries : queue'[m][j] = queue[m][j]
  <2>1. CASE UNCHANGED queue
    BY <2>1 DEF MessageInv, MessageTypes
  <2>2. CASE task[w].retry < MaxRetries /\ Put(n, task[w].retry + 1)
    <3>1. task[w].retry + 1 \in 0..MaxRetries
      BY <1>1, <2>2, NotificationsAssumption
    <3> QED
      BY <1>1, <2>2, <3>1, PutKeeps DEF MessageInv, MessageTypes
  <2> QED
    BY <2>1, <2>2 DEF Retry
<1>4. MessageTypes'
  BY <1>2, <1>3 DEF MessageInv, MessageTypes, Tasks, Idle
<1>5. \A m \in Notices \ {n} : InFlight(m)' => InFlight(m)
  BY <1>2, <1>3 DEF InFlight, MessageInv, MessageTypes
<1> HIDE DEF n
<1> QED
  BY <1>1, <1>2, <1>4, <1>5 DEF MessageInv, NoTaskBeforeCommit

\* No step of a server, a worker or a fault breaks the messages' invariant.
LEMMA NextKeepsMessages == RowTypes /\ MessageInv /\ [Next]_vars => MessageInv'
<1> SUFFICES ASSUME RowTypes, MessageInv, [Next]_vars PROVE MessageInv'
  OBVIOUS
<1>b. RowTypes
  OBVIOUS
<1>a. MessageTypes /\ NoTaskBeforeCommit
  BY DEF MessageInv
<1>1. CASE UNCHANGED <<call, queue, task>>
  BY <1>a, <1>1 DEF MessageInv, MessageTypes, NoTaskBeforeCommit, InFlight
<1>2. ASSUME NEW n \in Notices,
             OpenTransaction(n) \/ Commit(n) \/ Rollback(n) \/ EnqueueFails(n)
               \/ Broadcast(n) \/ ServerCrash(n) \/ Post(n)
      PROVE MessageInv'
  <2> USE <1>a, <1>2 DEF OpenTransaction, Commit, Rollback, EnqueueFails, Broadcast,
                         ServerCrash, Post
  <2>1. UNCHANGED <<queue, task>>
    OBVIOUS
  <2>2. MessageTypes'
    BY <2>1 DEF MessageTypes, Calls
  <2>3. \A m \in Notices : InFlight(m)' <=> InFlight(m)
    BY <2>1 DEF InFlight
  <2>4. InFlight(n) => call'[n] \notin {"none", "open", "rolled_back", "posted"}
    BY DEF MessageTypes, NoTaskBeforeCommit
  <2>5. \A m \in Notices \ {n} : call'[m] = call[m]
    BY DEF MessageTypes
  <2> QED
    BY <2>2, <2>3, <2>4, <2>5 DEF MessageInv, NoTaskBeforeCommit
<1>3. ASSUME NEW n \in Notices, Enqueue(n) PROVE MessageInv'
  <2> USE <1>a, <1>3 DEF Enqueue
  <2>0. 0 \in 0..MaxRetries
    BY NotificationsAssumption
  <2>1. /\ queue' \in Queues
        /\ \A m \in Notices \ {n}, j \in 0..MaxRetries : queue'[m][j] = queue[m][j]
    BY <2>0, PutKeeps DEF MessageTypes
  <2>2. MessageTypes'
    BY <2>1 DEF MessageTypes, Calls
  <2>3. \A m \in Notices \ {n} : InFlight(m)' => InFlight(m)
    BY <2>1 DEF InFlight
  <2>4. call'[n] = "enqueued" /\ \A m \in Notices \ {n} : call'[m] = call[m]
    BY DEF MessageTypes
  <2> QED
    BY <2>2, <2>3, <2>4 DEF MessageInv, NoTaskBeforeCommit
<1>4. ASSUME NEW w \in Workers, NEW n \in Notices, NEW k \in 0..MaxRetries, Take(w, n, k)
      PROVE MessageInv'
  <2> USE <1>a, <1>4 DEF Take
  <2>1. [queue[n] EXCEPT ![k] = @ - 1] \in [0..MaxRetries -> Nat]
    <3>1. queue[n] \in [0..MaxRetries -> Nat] /\ queue[n][k] \in Nat /\ queue[n][k] > 0
      BY DEF MessageTypes, Queues
    <3>2. queue[n][k] - 1 \in Nat
      BY <3>1
    <3> QED
      BY <3>1, <3>2
  <2>2. queue' \in Queues
        /\ \A m \in Notices \ {n}, j \in 0..MaxRetries : queue'[m][j] = queue[m][j]
    BY <2>1 DEF MessageTypes, Queues
  <2>3. MessageTypes'
    BY <2>2 DEF MessageTypes, Tasks
  <2>4. InFlight(n)
    BY DEF InFlight
  <2>5. \A m \in Notices \ {n} : InFlight(m)' => InFlight(m)
    BY <2>2 DEF InFlight, MessageTypes
  <2> QED
    BY <2>3, <2>4, <2>5 DEF MessageInv, NoTaskBeforeCommit
<1>5. ASSUME NEW w \in Workers, LockRow(w) \/ Succeed(w) \/ WorkerDies(w) PROVE MessageInv'
  <2> USE <1>a, <1>5 DEF LockRow, Succeed, WorkerDies
  <2>0. UNCHANGED <<call, queue>>
    OBVIOUS
  <2>1. PICK t \in Tasks :
          task' = [task EXCEPT ![w] = t] /\ (t # Idle => task[w] # Idle /\ t.n = task[w].n)
    <3>1. CASE LockRow(w)
      <4> DEFINE t == [state |-> "locked", n |-> task[w].n, retry |-> task[w].retry,
                       number |-> notice[task[w].n].attempts + 1]
      <4>1. task[w].state = "taken" /\ task' = [task EXCEPT ![w] = t]
        BY <3>1
      <4>2. task[w].n \in Notices /\ task[w].retry \in 0..MaxRetries
        BY <4>1 DEF MessageTypes, Tasks
      <4>3. notice[task[w].n].attempts + 1 \in Nat
        BY <1>b, <4>2 DEF RowTypes, Rows
      <4>4. t \in Tasks /\ t.n = task[w].n
        BY <4>2, <4>3 DEF Tasks
      <4> HIDE DEF t
      <4>5. task[w] # Idle
        BY <4>1 DEF Idle
      <4> QED
        BY <4>1, <4>4, <4>5
    <3>2. CASE Succeed(w) \/ WorkerDies(w)
      BY <3>2 DEF Idle, Tasks
    <3> QED
      BY <3>1, <3>2
  <2>2. MessageTypes'
    BY <2>0, <2>1 DEF MessageTypes
  <2>3. \A m \in Notices : InFlight(m)' => InFlight(m)
    <3>1. \A v \in Workers \ {w} : task'[v] = task[v]
      BY <2>1 DEF MessageTypes
    <3>2. task'[w] # Idle => task[w] # Idle /\ task'[w].n = task[w].n
      BY <2>1 DEF MessageTypes
    <3> QED
      BY <2>0, <3>1, <3>2 DEF InFlight
  <2> QED
    BY <2>0, <2>2, <2>3 DEF MessageInv, NoTaskBeforeCommit
<1>6. ASSUME NEW w \in Workers, RowNotFound(w) \/ DispatchFails(w) \/ CommitFails(w)
      PROVE MessageInv'
  BY <1>6, RetryKeeps DEF RowNotFound, DispatchFails, CommitFails, Idle
<1>7. ASSUME NEW w \in Workers, Redeliver(w) PROVE MessageInv'
  <2> DEFINE n == task[w].n
  <2>1. n \in Notices /\ task[w].retry \in 0..MaxRetries /\ InFlight(n)
    BY <1>a, <1>7 DEF Redeliver, MessageTypes, Tasks, Idle, InFlight
  <2>2. /\ queue' \in Queues
        /\ \A m \in Notices \ {n}, j \in 0..MaxRetries : queue'[m][j] = queue[m][j]
    BY <1>a, <1>7, <2>1, PutKeeps DEF Redeliver, MessageTypes
  <2>3. UNCHANGED <<call, task>>
    BY <1>7 DEF Redeliver
  <2>4. MessageTypes'
    BY <1>a, <2>2, <2>3 DEF MessageTypes
  <2>5. \A m \in Notices \ {n} : InFlight(m)' => InFlight(m)
    BY <2>2, <2>3 DEF InFlight
  <2> HIDE DEF n
  <2> QED
    BY <1>a, <2>1, <2>3, <2>4, <2>5 DEF MessageInv, NoTaskBeforeCommit
<1> QED
  BY <1>1, <1>2, <1>3, <1>4, <1>5, <1>6, <1>7
     DEF Next, vars, rows, bounds, ServerStep, WorkerStep, Mishap, BeginEdit, Delete,
         SaveEdit, Configure

-------------------------------------------------------------------------------

\* Before its transaction commits a notification has no row, and no edit of it.
BlankBeforeCommit ==
  \A n \in Notices :
    call[n] \in {"none", "open"} =>
      /\ notice[n] = NoNotice /\ attempts[n] = <<>>
      /\ edit # NoEdit => edit.n # n

\* What a task read under the lock is what the row holds, and the lock is its own.
LockedIsCurrent ==
  \A w \in Workers :
    task[w].state = "locked" =>
      /\ task[w].number = notice[task[w].n].attempts + 1
      /\ \A v \in Workers \ {w} : task[v].state = "locked" => task[v].n # task[w].n

\* An edit is counted when it reads, and its copy counts no attempt that is not there.
CopyIsBehind ==
  edit # NoEdit =>
    /\ edits > 0
    /\ deletes = 0 => edit.row.attempts <= Len(attempts[edit.n])

RowInv ==
  RowTypes /\ BlankBeforeCommit /\ LockedIsCurrent /\ CopyIsBehind
    /\ AttemptsNumbered /\ SentIsRecorded

\* At first there is no notification.
LEMMA InitRows == Init => RowInv
<1> SUFFICES ASSUME Init PROVE RowInv
  OBVIOUS
<1> USE DEF Init, NoNotice, Idle
<1>1. RowTypes
  BY DEF RowTypes, Rows
<1>2. BlankBeforeCommit /\ LockedIsCurrent /\ CopyIsBehind
  BY DEF BlankBeforeCommit, LockedIsCurrent, CopyIsBehind
<1>3. AttemptsNumbered /\ SentIsRecorded
  BY DEF AttemptsNumbered, SentIsRecorded
<1> QED
  BY <1>1, <1>2, <1>3 DEF RowInv

\* Steps that leave the tables alone, and lock nothing.
LEMMA RowsStay ==
  ASSUME RowInv, UNCHANGED <<rows, edit, edits, deletes>>,
         \A n \in Notices : call'[n] \in {"none", "open"} => call[n] \in {"none", "open"},
         \A n \in Notices : call[n] = "posted" => call'[n] = "posted",
         \A w \in Workers : task'[w] = task[w] \/ task'[w].state # "locked"
  PROVE  RowInv'
<1> USE DEF RowInv, rows
<1>1. RowTypes'
  BY DEF RowTypes
<1>2. BlankBeforeCommit'
  BY DEF BlankBeforeCommit
<1>3. LockedIsCurrent'
  BY DEF LockedIsCurrent
<1>4. CopyIsBehind' /\ AttemptsNumbered' /\ SentIsRecorded'
  BY DEF CopyIsBehind, AttemptsNumbered, SentIsRecorded
<1> QED
  BY <1>1, <1>2, <1>3, <1>4

\* No step of a server, a worker or a fault breaks the rows' invariant.
LEMMA NextKeepsRows == MessageInv /\ RowInv /\ [Next]_vars => RowInv'
<1> SUFFICES ASSUME MessageInv, RowInv, [Next]_vars PROVE RowInv'
  OBVIOUS
<1>a. /\ MessageTypes /\ NoTaskBeforeCommit /\ RowTypes /\ BlankBeforeCommit
      /\ LockedIsCurrent /\ CopyIsBehind /\ AttemptsNumbered /\ SentIsRecorded
  BY DEF MessageInv, RowInv
<1>1. CASE UNCHANGED vars \/ Configure
  BY <1>1, RowsStay DEF vars, rows, bounds, Configure
<1>2. ASSUME NEW n \in Notices,
             OpenTransaction(n) \/ Rollback(n) \/ Enqueue(n) \/ EnqueueFails(n)
               \/ Broadcast(n) \/ ServerCrash(n)
      PROVE RowInv'
  <2> USE <1>2 DEF OpenTransaction, Rollback, Enqueue, EnqueueFails, Broadcast, ServerCrash
  <2>1. UNCHANGED <<rows, edit, edits, deletes, task>>
    BY DEF Fault, bounds
  <2>2. \A m \in Notices : call'[m] \in {"none", "open"} => call[m] \in {"none", "open"}
    BY <1>a DEF MessageTypes
  <2>3. \A m \in Notices : call[m] = "posted" => call'[m] = "posted"
    BY <1>a DEF MessageTypes
  <2> QED
    BY <2>1, <2>2, <2>3, RowsStay
<1>3. ASSUME NEW n \in Notices, Commit(n) \/ Post(n) PROVE RowInv'
  <2> USE <1>3 DEF Commit, Post
  <2>1. call[n] \in {"none", "open"} /\ notice[n] = NoNotice /\ attempts[n] = <<>>
    BY <1>a DEF BlankBeforeCommit
  <2>2. PICK s \in Statuses : /\ notice' = [notice EXCEPT ![n] = [status |-> s, attempts |-> 0]]
                              /\ s = "queued" \/ call'[n] = "posted"
    <3>1. PICK s \in Statuses : /\ notice' = [notice EXCEPT ![n].status = s]
                                /\ s = "queued" \/ call'[n] = "posted"
      BY <1>a DEF MessageTypes, Statuses
    <3>2. [notice[n] EXCEPT !.status = s] = [status |-> s, attempts |-> 0]
      BY <2>1 DEF NoNotice
    <3>3. notice' = [notice EXCEPT ![n] = [notice[n] EXCEPT !.status = s]]
      BY <3>1
    <3>4. notice' = [notice EXCEPT ![n] = [status |-> s, attempts |-> 0]]
      BY <3>2, <3>3
    <3> HIDE <1>3 DEF Commit, Post
    <3> QED
      BY <3>1, <3>4
  <2>3. UNCHANGED <<attempts, edit, edits, deletes, task>>
    BY DEF bounds
  <2>4. RowTypes'
    BY <1>a, <2>2, <2>3 DEF RowTypes, Rows, Statuses
  <2>5. BlankBeforeCommit'
    BY <1>a, <2>2, <2>3 DEF BlankBeforeCommit, MessageTypes, RowTypes
  <2>6. \A m \in Notices : notice'[m].attempts = notice[m].attempts
    BY <1>a, <2>1, <2>2 DEF RowTypes, NoNotice
  <2>7. LockedIsCurrent'
    BY <1>a, <2>3, <2>6 DEF LockedIsCurrent, MessageTypes, Tasks
  <2>8. CopyIsBehind' /\ AttemptsNumbered'
    BY <1>a, <2>3, <2>6 DEF CopyIsBehind, AttemptsNumbered
  <2>9. SentIsRecorded'
    <3>1. \A m \in Notices \ {n} : call'[m] = call[m] /\ notice'[m] = notice[m]
      BY <1>a, <2>2 DEF MessageTypes, RowTypes
    <3>2. notice'[n].status = "queued" \/ call'[n] = "posted"
      BY <1>a, <2>2 DEF RowTypes
    <3> QED
      BY <1>a, <2>1, <2>3, <3>1, <3>2 DEF SentIsRecorded
  <2> QED
    BY <2>4, <2>5, <2>7, <2>8, <2>9 DEF RowInv
<1>4. ASSUME NEW w \in Workers,
             \/ \E n \in Notices, k \in 0..MaxRetries : Take(w, n, k)
             \/ RowNotFound(w) \/ DispatchFails(w) \/ CommitFails(w)
             \/ WorkerDies(w) \/ Redeliver(w)
      PROVE RowInv'
  <2> USE <1>4 DEF Take, RowNotFound, DispatchFails, CommitFails, WorkerDies, Redeliver, Retry
  <2>1. UNCHANGED <<rows, edit, edits, deletes, call>>
    BY DEF Fault, bounds
  <2>2. \A v \in Workers : task'[v] = task[v] \/ task'[v].state # "locked"
    BY <1>a DEF MessageTypes, Idle
  <2> QED
    BY <2>1, <2>2, RowsStay
<1>5. ASSUME NEW w \in Workers, LockRow(w) PROVE RowInv'
  <2> USE <1>5 DEF LockRow
  <2>1. UNCHANGED <<rows, edit, edits, deletes, call>>
    BY DEF bounds
  <2>2. task' = [task EXCEPT ![w] = [state |-> "locked", n |-> task[w].n,
                                     retry |-> task[w].retry,
                                     number |-> notice[task[w].n].attempts + 1]]
    OBVIOUS
  <2>3. \A v \in Workers \ {w} : task[v].state = "locked" => task[v].n # task[w].n
    BY DEF Locked
  <2>4. LockedIsCurrent'
    BY <1>a, <2>1, <2>2, <2>3 DEF LockedIsCurrent, MessageTypes, rows
  <2>5. RowTypes' /\ BlankBeforeCommit'
    BY <1>a, <2>1 DEF RowTypes, BlankBeforeCommit, rows
  <2>6. CopyIsBehind' /\ AttemptsNumbered' /\ SentIsRecorded'
    BY <1>a, <2>1 DEF CopyIsBehind, AttemptsNumbered, SentIsRecorded, rows
  <2> QED
    BY <2>4, <2>5, <2>6 DEF RowInv
<1>6. ASSUME NEW w \in Workers, Succeed(w) PROVE RowInv'
  <2> DEFINE n == task[w].n
             a == [number |-> task[w].number, success |-> TRUE]
  <2>1. /\ task[w].state = "locked" /\ n \in Notices
        /\ task[w].number \in Nat /\ task[w].number = notice[n].attempts + 1
    BY <1>a, <1>6 DEF Succeed, MessageTypes, Tasks, LockedIsCurrent
  <2>2. /\ notice' = [notice EXCEPT ![n] = [status |-> "sent", attempts |-> task[w].number]]
        /\ attempts' = [attempts EXCEPT ![n] = Append(attempts[n], a)]
        /\ task' = [task EXCEPT ![w] = Idle]
        /\ UNCHANGED <<edit, edits, deletes, call>>
    BY <1>6 DEF Succeed, RecordAttempt, bounds
  <2>3. call[n] \notin {"none", "open"}
    BY <1>a, <2>1 DEF NoTaskBeforeCommit, InFlight, Idle
  <2>4. a \in Attempt /\ a.number = task[w].number /\ a.success
    BY <2>1 DEF Attempt
  <2> HIDE DEF a, n
  <2>5. attempts[n] \in Seq(Attempt)
    BY <1>a, <2>1 DEF RowTypes
  <2>6. /\ Append(attempts[n], a) \in Seq(Attempt)
        /\ Len(Append(attempts[n], a)) = Len(attempts[n]) + 1
        /\ Append(attempts[n], a)[Len(attempts[n]) + 1] = a
        /\ \A i \in 1..Len(attempts[n]) : Append(attempts[n], a)[i] = attempts[n][i]
    BY <2>4, <2>5
  <2>7. /\ attempts'[n] \in Seq(Attempt) /\ Len(attempts'[n]) = Len(attempts[n]) + 1
        /\ attempts'[n][Len(attempts[n]) + 1] = a
        /\ \A i \in 1..Len(attempts[n]) : attempts'[n][i] = attempts[n][i]
        /\ notice'[n].attempts = task[w].number /\ notice'[n].status = "sent"
    BY <1>a, <2>1, <2>2, <2>6 DEF RowTypes
  <2>8. \A m \in Notices \ {n} : notice'[m] = notice[m] /\ attempts'[m] = attempts[m]
    BY <1>a, <2>2 DEF RowTypes
  <2>9. RowTypes'
    BY <1>a, <2>1, <2>2, <2>6 DEF RowTypes, Rows, Statuses
  <2>10. BlankBeforeCommit'
    BY <1>a, <2>2, <2>3, <2>8 DEF BlankBeforeCommit
  <2>11. LockedIsCurrent'
    <3> SUFFICES ASSUME NEW v \in Workers, task'[v].state = "locked"
                 PROVE  /\ task'[v].number = notice'[task'[v].n].attempts + 1
                        /\ \A u \in Workers \ {v} : task'[u].state = "locked" =>
                                                      task'[u].n # task'[v].n
      BY DEF LockedIsCurrent
    <3>1. \A u \in Workers : task'[u] = task[u] \/ task'[u].state = "idle"
      BY <1>a, <2>2 DEF MessageTypes, Idle
    <3>2. v # w /\ task'[v] = task[v]
      BY <1>a, <2>2, <3>1 DEF MessageTypes, Idle
    <3>3. task[v].n \in Notices \ {n}
      BY <1>a, <2>1, <3>2 DEF MessageTypes, Tasks, LockedIsCurrent, n
    <3> QED
      BY <1>a, <2>8, <3>1, <3>2, <3>3 DEF LockedIsCurrent
  <2>12. CopyIsBehind'
    <3> SUFFICES ASSUME edit # NoEdit
                 PROVE  /\ edits > 0
                        /\ deletes = 0 => edit.row.attempts <= Len(attempts'[edit.n])
      BY <2>2 DEF CopyIsBehind
    <3>1. edit.n \in Notices /\ edit.row.attempts \in Nat
      BY <1>a DEF RowTypes, Rows
    <3>2. edits > 0 /\ (deletes = 0 => edit.row.attempts <= Len(attempts[edit.n]))
      BY <1>a DEF CopyIsBehind
    <3>3. CASE edit.n = n
      BY <2>5, <2>7, <3>1, <3>2, <3>3
    <3>4. CASE edit.n # n
      BY <2>8, <3>1, <3>2, <3>4
    <3> QED
      BY <3>3, <3>4
  <2>13. AttemptsNumbered'
    <3>1. Len(attempts[n]) \in Nat /\ notice[n].attempts \in Nat
      BY <1>a, <2>1, <2>5 DEF RowTypes, Rows
    <3>2. edits = 0 \/ deletes = 0 => notice'[n].attempts <= Len(attempts'[n])
      BY <1>a, <2>1, <2>7, <3>1 DEF AttemptsNumbered
    <3>3. edits = 0 => /\ notice'[n].attempts = Len(attempts'[n])
                       /\ \A i \in 1..Len(attempts'[n]) : attempts'[n][i].number = i
      <4> SUFFICES ASSUME edits = 0
                   PROVE  /\ notice'[n].attempts = Len(attempts'[n])
                          /\ \A i \in 1..Len(attempts'[n]) : attempts'[n][i].number = i
        OBVIOUS
      <4>1. notice[n].attempts = Len(attempts[n])
            /\ \A i \in 1..Len(attempts[n]) : attempts[n][i].number = i
        BY <1>a, <2>1 DEF AttemptsNumbered
      <4>2. a.number = Len(attempts[n]) + 1
        BY <2>1, <2>4, <4>1
      <4>3. ASSUME NEW i \in 1..Len(attempts'[n]) PROVE attempts'[n][i].number = i
        <5>1. i \in 1..Len(attempts[n]) \/ i = Len(attempts[n]) + 1
          BY <2>7, <3>1
        <5> QED
          BY <2>7, <4>1, <4>2, <5>1
      <4> QED
        BY <2>1, <2>7, <4>1, <4>3
    <3> QED
      BY <1>a, <2>2, <2>8, <3>2, <3>3 DEF AttemptsNumbered
  <2>14. SentIsRecorded'
    <3>1. Len(attempts[n]) + 1 \in 1..Len(attempts'[n])
      BY <2>5, <2>7
    <3>2. \E i \in 1..Len(attempts'[n]) : attempts'[n][i].success
      BY <2>4, <2>7, <3>1
    <3> QED
      BY <1>a, <2>2, <2>7, <2>8, <3>2 DEF SentIsRecorded
  <2> QED
    BY <2>9, <2>10, <2>11, <2>12, <2>13, <2>14 DEF RowInv
<1>7. ASSUME NEW n \in Notices, BeginEdit(n) PROVE RowInv'
  <2>1. /\ edits' = edits + 1 /\ notice[n].status # "absent"
        /\ UNCHANGED <<call, notice, attempts, task, deletes>>
    BY <1>7 DEF BeginEdit, rows
  <2>2. PICK x \in Statuses :
          edit' = [state |-> "read", n |-> n, row |-> [notice[n] EXCEPT !.status = x]]
    BY <1>7 DEF BeginEdit
  <2>3. edit'.n = n /\ edit'.row = [notice[n] EXCEPT !.status = x]
    BY <2>2
  <2>4. edit'.row \in Rows /\ edit'.row.attempts = notice[n].attempts
    <3>1. notice[n] \in Rows
      BY <1>a DEF RowTypes
    <3> QED
      BY <2>3, <3>1 DEF Rows
  <2>5. edits' > 0 /\ edits' \in Nat /\ edits' # 0
    BY <1>a, <2>1 DEF RowTypes
  <2>6. RowTypes'
    BY <1>a, <2>1, <2>3, <2>4, <2>5 DEF RowTypes
  <2>7. BlankBeforeCommit'
    BY <1>a, <2>1, <2>3 DEF BlankBeforeCommit, NoNotice
  <2>8. LockedIsCurrent'
    BY <1>a, <2>1 DEF LockedIsCurrent
  <2>9. CopyIsBehind'
    BY <1>a, <2>1, <2>3, <2>4, <2>5 DEF CopyIsBehind, AttemptsNumbered
  <2>10. AttemptsNumbered' /\ SentIsRecorded'
    BY <1>a, <2>1, <2>5 DEF AttemptsNumbered, SentIsRecorded
  <2> QED
    BY <2>6, <2>7, <2>8, <2>9, <2>10 DEF RowInv
<1>8. CASE SaveEdit
  <2>1. /\ edit # NoEdit /\ edit' = NoEdit
        /\ \A w \in Workers : task[w].state = "locked" => task[w].n # edit.n
        /\ notice' = [notice EXCEPT ![edit.n] = edit.row]
        /\ UNCHANGED <<call, attempts, task, edits, deletes>>
    BY <1>8 DEF SaveEdit, Locked, bounds
  <2>2. edit.n \in Notices /\ edit.row \in Rows
    BY <1>a, <2>1 DEF RowTypes
  <2>3. notice'[edit.n] = edit.row /\ \A m \in Notices \ {edit.n} : notice'[m] = notice[m]
    BY <1>a, <2>1, <2>2 DEF RowTypes
  <2>4. edits # 0
    BY <1>a, <2>1 DEF CopyIsBehind, RowTypes
  <2>5. RowTypes'
    BY <1>a, <2>1, <2>2 DEF RowTypes
  <2>6. BlankBeforeCommit' /\ CopyIsBehind'
    BY <1>a, <2>1, <2>3 DEF BlankBeforeCommit, CopyIsBehind
  <2>7. LockedIsCurrent'
    BY <1>a, <2>1, <2>3 DEF LockedIsCurrent, MessageTypes, Tasks
  <2>8. AttemptsNumbered' /\ SentIsRecorded'
    BY <1>a, <2>1, <2>3, <2>4 DEF AttemptsNumbered, SentIsRecorded, CopyIsBehind
  <2> QED
    BY <2>5, <2>6, <2>7, <2>8 DEF RowInv
<1>9. ASSUME NEW n \in Notices, Delete(n) PROVE RowInv'
  <2>1. /\ deletes' = deletes + 1 /\ notice[n].status # "absent"
        /\ \A w \in Workers : task[w].state = "locked" => task[w].n # n
        /\ notice' = [notice EXCEPT ![n] = NoNotice]
        /\ attempts' = [attempts EXCEPT ![n] = <<>>]
        /\ UNCHANGED <<call, task, edit, edits>>
    BY <1>9 DEF Delete, Locked
  <2>2. /\ notice'[n] = [status |-> "absent", attempts |-> 0] /\ attempts'[n] = <<>>
        /\ \A m \in Notices \ {n} : notice'[m] = notice[m] /\ attempts'[m] = attempts[m]
    BY <1>a, <2>1 DEF RowTypes, NoNotice
  <2>3. deletes' # 0 /\ deletes' \in Nat
    BY <1>a, <2>1 DEF RowTypes
  <2>4. RowTypes'
    BY <1>a, <2>1, <2>3 DEF RowTypes, Rows, NoNotice
  <2>5. BlankBeforeCommit' /\ CopyIsBehind'
    BY <1>a, <2>1, <2>2, <2>3 DEF BlankBeforeCommit, CopyIsBehind, NoNotice
  <2>6. LockedIsCurrent'
    BY <1>a, <2>1, <2>2 DEF LockedIsCurrent, MessageTypes, Tasks
  <2>7. AttemptsNumbered' /\ SentIsRecorded'
    BY <1>a, <2>1, <2>2, <2>3 DEF AttemptsNumbered, SentIsRecorded
  <2> QED
    BY <2>4, <2>5, <2>6, <2>7 DEF RowInv
<1> QED
  BY <1>1, <1>2, <1>3, <1>4, <1>5, <1>6, <1>7, <1>8, <1>9
     DEF Next, ServerStep, WorkerStep, Mishap

NoticeInv == MessageInv /\ RowInv

\* The whole invariant: messages, tasks and rows agree.
LEMMA NoticesAgree == Spec => []NoticeInv
<1>1. Init => NoticeInv
  BY InitMessages, InitRows DEF NoticeInv
<1>2. NoticeInv /\ [Next]_vars => NoticeInv'
  BY NextKeepsMessages, NextKeepsRows DEF NoticeInv, RowInv
<1>3. QED
  BY <1>1, <1>2, PTL DEF Spec

\* No worker is asked to send what was not committed, whatever crashes, retries
\* and redeliveries there are.
THEOREM TasksFollowCommits == Spec => []NoTaskBeforeCommit
<1>1. NoticeInv => NoTaskBeforeCommit
  BY DEF NoticeInv, MessageInv
<1>2. QED
  BY <1>1, NoticesAgree, PTL

\* The attempts of a notification agree with the counter of its row.
THEOREM AttemptsAreNumbered == Spec => []AttemptsNumbered
<1>1. NoticeInv => AttemptsNumbered
  BY DEF NoticeInv, RowInv
<1>2. QED
  BY <1>1, NoticesAgree, PTL

\* A notification that the service made and no edit touched is sent exactly if an
\* attempt succeeded, whatever fails, is retried or handed out twice.
THEOREM SentOnRecord == Spec => []SentIsRecorded
<1>1. NoticeInv => SentIsRecorded
  BY DEF NoticeInv, RowInv
<1>2. QED
  BY <1>1, NoticesAgree, PTL

\* No task takes a sent notification back.
THEOREM SentStays == Spec => SentIsFinal
<1> DEFINE Kept ==
      \A n \in Notices :
        notice[n].status = "sent" /\ edit' = edit => notice'[n].status \in {"sent", "absent"}
<1>1. NoticeInv /\ [Next]_vars => Kept
  <2> SUFFICES ASSUME NoticeInv, [Next]_vars,
                      NEW n \in Notices, notice[n].status = "sent", edit' = edit
               PROVE  notice'[n].status \in {"sent", "absent"}
    OBVIOUS
  <2>1. RowTypes /\ BlankBeforeCommit
    BY DEF NoticeInv, RowInv
  <2>2. CASE notice' = notice
    BY <2>2
  <2>3. ASSUME NEW m \in Notices, Commit(m) \/ Post(m)
        PROVE notice'[n].status \in {"sent", "absent"}
    <3>1. notice[m] = NoNotice /\ \E s \in Statuses : notice' = [notice EXCEPT ![m].status = s]
      BY <2>1, <2>3 DEF Commit, Post, BlankBeforeCommit, Statuses
    <3>2. m # n
      BY <3>1 DEF NoNotice
    <3> QED
      BY <2>1, <3>1, <3>2 DEF RowTypes
  <2>4. ASSUME NEW w \in Workers, Succeed(w) PROVE notice'[n].status \in {"sent", "absent"}
    BY <2>1, <2>4 DEF Succeed, RecordAttempt, RowTypes
  <2>5. ASSUME NEW m \in Notices, Delete(m) PROVE notice'[n].status \in {"sent", "absent"}
    BY <2>1, <2>5 DEF Delete, NoNotice, RowTypes
  <2> QED
    BY <2>2, <2>3, <2>4, <2>5
       DEF Next, vars, rows, ServerStep, WorkerStep, Mishap, OpenTransaction, Rollback,
           Enqueue, EnqueueFails, Broadcast, ServerCrash, BeginEdit, SaveEdit, Take, LockRow,
           RowNotFound, DispatchFails, CommitFails, WorkerDies, Redeliver, Configure, Retry
<1>2. NoticeInv /\ [Next]_vars => [Kept]_vars
  BY <1>1
<1>3. QED
  BY <1>2, NoticesAgree, PTL DEF Spec, SentIsFinal
===============================================================================
