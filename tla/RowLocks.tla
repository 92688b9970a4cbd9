-------------------------------- MODULE RowLocks --------------------------------
(***************************************************************************)
(* The three transactions of core/services.py that lock rows, statement by *)
(* statement: assign_courier, transition_delivery and record_tracking.     *)
(* Each works on the copy of a row that its SELECT ... FOR UPDATE returned *)
(* and its writes are seen by others when it commits.  A lock is held from *)
(* the statement that took it to the end of the transaction.               *)
(*                                                                         *)
(* The database is PostgreSQL at READ COMMITTED: a statement that waited   *)
(* for a row reads it as it is then.  A foreign key is checked at commit   *)
(* (Django declares it DEFERRABLE INITIALLY DEFERRED), and that check      *)
(* waits for a lock on the row referred to.  So record_tracking, which     *)
(* locks the courier, may wait for the delivery at its commit, while       *)
(* assign_courier locks the delivery and waits for the courier; the        *)
(* database then aborts one of the two.                                    *)
(***************************************************************************)
EXTENDS DeliveryService, Sequences

CONSTANTS
  Sessions,     \* database connections of the server's workers
  Targets,      \* statuses that transitions are asked for
  Interval,     \* least time between two tracking logs of a courier (10 s)
  MaxTime       \* bound: the clock stops there

ASSUME LockAssumption ==
  /\ Targets \subseteq Statuses
  /\ Interval \in Nat \ {0}
  /\ MaxTime \in Nat
  /\ None \notin Deliveries \cup Nat

VARIABLES
  session,      \* the transaction of each session, and what it has read
  located,      \* location_updated_at of each courier
  logs,         \* time stamps of each courier's tracking_logs rows
  now           \* timezone.now()

lockVars == <<session, located, logs, now>>
allVars == <<vars, lockVars>>

Time == 0..MaxTime

Idle == [call |-> "none"]

\* Where a transaction waits or works: "row" before the lock on its delivery,
\* "courier" before the lock on its courier, "commit" before its COMMIT.
AssignBegun == [call : {"assign"}, at : {"row"}, d : Deliveries, c : Couriers]
AssignLocked == [call : {"assign"}, at : {"courier", "commit"}, d : Deliveries,
                 c : Couriers, row : DeliveryRow]
TransitionBegun == [call : {"transition"}, at : {"row"}, d : Deliveries, to : Statuses]
TransitionLocked == [call : {"transition"}, at : {"commit"}, d : Deliveries,
                     to : Statuses, row : DeliveryRow]
TrackBegun == [call : {"track"}, at : {"courier"}, c : Couriers,
               d : Deliveries \cup {None}]
TrackLocked == [call : {"track"}, at : {"commit"}, c : Couriers,
                d : Deliveries \cup {None}, time : Time]

Transactions ==
  {Idle} \cup AssignBegun \cup AssignLocked \cup TransitionBegun
         \cup TransitionLocked \cup TrackBegun \cup TrackLocked

LockInit ==
  /\ Init
  /\ session = [s \in Sessions |-> Idle]
  /\ located = [c \in Couriers |-> None]
  /\ logs = [c \in Couriers |-> <<>>]
  /\ now = 0

In(s, call, at) == session[s] # Idle /\ session[s].call = call /\ session[s].at = at

HoldsDelivery(s, d) ==
  /\ \/ In(s, "assign", "courier") \/ In(s, "assign", "commit")
     \/ In(s, "transition", "commit")
  /\ session[s].d = d

HoldsCourier(s, c) ==
  /\ In(s, "assign", "commit") \/ In(s, "track", "commit")
  /\ session[s].c = c

FreeDelivery(d) == \A s \in Sessions : ~HoldsDelivery(s, d)
FreeCourier(c) == \A s \in Sessions : ~HoldsCourier(s, c)

Go(s, t) == session' = [session EXCEPT ![s] = t]

Begin(s, t) ==
  /\ session[s] = Idle
  /\ Go(s, t)
  /\ UNCHANGED <<vars, located, logs, now>>

\* The transaction ends without effect: an exception, or a return before a write.
Leave(s) == Go(s, Idle) /\ UNCHANGED <<vars, located, logs, now>>

-------------------------------------------------------------------------------
(* assign_courier.                                                         *)

BeginAssign(s, d, c) ==
  /\ delivery[d].status # Absent
  /\ Begin(s, [call |-> "assign", at |-> "row", d |-> d, c |-> c])

\* Mutant of LockRow: get without select_for_update.
ReadRow(s) ==
  LET t == session[s] IN
  /\ In(s, "assign", "row")
  /\ Go(s, [call |-> "assign", at |-> "courier", d |-> t.d, c |-> t.c,
            row |-> delivery[t.d]])
  /\ UNCHANGED <<vars, located, logs, now>>

LockRow(s) ==
  LET t == session[s] IN
  /\ In(s, "assign", "row")
  /\ FreeDelivery(t.d)
  /\ Go(s, [call |-> "assign", at |-> "courier", d |-> t.d, c |-> t.c,
            row |-> delivery[t.d]])
  /\ UNCHANGED <<vars, located, logs, now>>

Assignable(row, c) ==
  /\ row.status \in Statuses \ Terminal
  /\ row.branch = None \/ courier[c].branch = None \/ row.branch = courier[c].branch
  /\ row.courier \in {None, c}

\* Mutant of LockCourier: a refusal leaves the transaction open.
LockCourierHoldingOn(s) ==
  LET t == session[s] IN
  /\ In(s, "assign", "courier")
  /\ FreeCourier(t.c)
  /\ IF Assignable(t.row, t.c) THEN Go(s, [t EXCEPT !.at = "commit"]) ELSE Go(s, t)
  /\ UNCHANGED <<vars, located, logs, now>>

LockCourier(s) ==
  LET t == session[s] IN
  /\ In(s, "assign", "courier")
  /\ FreeCourier(t.c)
  /\ IF Assignable(t.row, t.c) THEN Go(s, [t EXCEPT !.at = "commit"]) ELSE Go(s, Idle)
  /\ UNCHANGED <<vars, located, logs, now>>

\* save(update_fields=["courier", "status"]) of the delivery, and the courier's
\* status; the count stored beside it is read by no decision and left out.
CommitAssign(s) ==
  LET t == session[s] IN
  /\ In(s, "assign", "commit")
  /\ delivery' = [delivery EXCEPT ![t.d].courier = t.c,
                                  ![t.d].status = Assigned(t.row, t.c).status]
  /\ courier' = [courier EXCEPT ![t.c].status = "delivering"]
  /\ timeline' = [timeline EXCEPT ![t.d] = @ \cup {"assigned"}]
  /\ offered' = [offered EXCEPT ![t.d] = @ \cup {t.c}]
  /\ Go(s, Idle)
  /\ UNCHANGED <<creation, outcomes, located, logs, now>>

-------------------------------------------------------------------------------
(* transition_delivery.                                                    *)

BeginTransition(s, d, to) ==
  /\ delivery[d].status # Absent
  /\ Begin(s, [call |-> "transition", at |-> "row", d |-> d, to |-> to])

LockForTransition(s) ==
  LET t == session[s] IN
  /\ In(s, "transition", "row")
  /\ FreeDelivery(t.d)
  /\ IF Allowed(t.d, t.to)
     THEN Go(s, [call |-> "transition", at |-> "commit", d |-> t.d, to |-> t.to,
                 row |-> delivery[t.d]])
     ELSE Go(s, Idle)
  /\ UNCHANGED <<vars, located, logs, now>>

\* save() of every column of the copy.
CommitTransition(s) ==
  LET t == session[s] IN
  /\ In(s, "transition", "commit")
  /\ delivery' = [delivery EXCEPT ![t.d] = Moved(t.row, t.to)]
  /\ timeline' = [timeline EXCEPT ![t.d] = @ \cup {t.to}]
  /\ outcomes' = [outcomes EXCEPT ![t.d] = IF t.to \in Outcomes THEN @ + 1 ELSE @]
  /\ Go(s, Idle)
  /\ UNCHANGED <<courier, creation, offered, located, logs, now>>

-------------------------------------------------------------------------------
(* record_tracking.                                                        *)

BeginTracking(s, c, d) ==
  /\ d # None => delivery[d].status # Absent
  /\ Begin(s, [call |-> "track", at |-> "courier", c |-> c, d |-> d])

\* Mutant of FreeToTrack: get without select_for_update.
AnyTime(c) == c \in Couriers

FreeToTrack(c) == FreeCourier(c)

Recent(c) == located[c] # None /\ now - located[c] < Interval

LockForTracking(s) ==
  LET t == session[s] IN
  /\ In(s, "track", "courier")
  /\ FreeToTrack(t.c)
  /\ IF Recent(t.c) \/ (t.d # None /\ ~BranchesAgree(t.d, t.c))
     THEN Go(s, Idle)
     ELSE Go(s, [call |-> "track", at |-> "commit", c |-> t.c, d |-> t.d, time |-> now])
  /\ UNCHANGED <<vars, located, logs, now>>

\* The foreign key of the log waits for a lock on the delivery it names.
CommitTracking(s) ==
  LET t == session[s] IN
  /\ In(s, "track", "commit")
  /\ t.d # None => FreeDelivery(t.d)
  /\ located' = [located EXCEPT ![t.c] = t.time]
  /\ logs' = [logs EXCEPT ![t.c] = Append(@, t.time)]
  /\ Go(s, Idle)
  /\ UNCHANGED <<vars, now>>

-------------------------------------------------------------------------------
(* The database, the clock and the calls that take no lock.                *)

\* s waits for the courier of t, and t for the delivery of s.
Deadlocked(s, t) ==
  /\ In(s, "assign", "courier")
  /\ HoldsCourier(t, session[s].c)
  /\ In(t, "track", "commit")
  /\ HoldsDelivery(s, session[t].d)

BreakDeadlock(s) ==
  /\ \E t \in Sessions : Deadlocked(s, t) \/ Deadlocked(t, s)
  /\ Leave(s)

\* The worker or its connection is lost before the commit.
Disconnect(s) ==
  /\ session[s] # Idle
  /\ Leave(s)

Tick ==
  /\ now < MaxTime
  /\ now' = now + 1
  /\ UNCHANGED <<vars, session, located, logs>>

\* The events of create_delivery refer to its row, and wait as tracking does.
Create(d) ==
  /\ \/ \E st \in InitialStatuses, b \in Branches \cup {None} : InsertDelivery(d, st, b)
     \/ FreeDelivery(d) /\ LogCreation(d)
     \/ AnnounceCreation(d)
  /\ UNCHANGED lockVars

-------------------------------------------------------------------------------

Step(s) ==
  \/ LockRow(s)
  \/ LockCourier(s)
  \/ CommitAssign(s)
  \/ LockForTransition(s)
  \/ CommitTransition(s)
  \/ LockForTracking(s)
  \/ CommitTracking(s)

Request(s) ==
  \/ \E d \in Deliveries, c \in Couriers : BeginAssign(s, d, c)
  \/ \E d \in Deliveries, to \in Targets : BeginTransition(s, d, to)
  \/ \E c \in Couriers, d \in Deliveries \cup {None} : BeginTracking(s, c, d)

LockNext ==
  \/ \E s \in Sessions : Request(s) \/ Step(s) \/ BreakDeadlock(s) \/ Disconnect(s)
  \/ \E d \in Deliveries : Create(d)
  \/ Tick

\* The queue of a lock is first come, first served, so a statement that could
\* have its lock again and again gets it; the deadlock detector runs.
Fairness ==
  \A s \in Sessions : SF_allVars(Step(s)) /\ WF_allVars(BreakDeadlock(s))

LockSpec == LockInit /\ [][LockNext]_allVars /\ Fairness

-------------------------------------------------------------------------------
(* Properties.                                                             *)

\* At most one transaction has a row locked, and what it read under the lock
\* is the row still: nothing it decided on has changed when it commits.
CopyIsCurrent ==
  \A s \in Sessions, d \in Deliveries : HoldsDelivery(s, d) =>
    /\ session[s].row = delivery[d]
    /\ \A t \in Sessions \ {s} : ~HoldsDelivery(t, d)

\* Two positions of a courier are never logged within the throttling interval,
\* however many updates arrive together.
Throttled ==
  \A c \in Couriers : \A i \in 1..(Len(logs[c]) - 1) :
    logs[c][i + 1] - logs[c][i] >= Interval

OnTime(s) ==
  LET c == session[s].c IN
  located[c] = None \/ session[s].time - located[c] >= Interval

AloneOnCourier(s) == \A x \in Sessions \ {s} : ~HoldsCourier(x, session[s].c)

\* What a tracking update found under the courier's lock holds until it commits,
\* and location_updated_at is the time of the last log.
ThrottleInv ==
  /\ located \in [Couriers -> Time \cup {None}]
  /\ logs \in [Couriers -> Seq(Time)]
  /\ now \in Time
  /\ Throttled
  /\ \A c \in Couriers : IF logs[c] = <<>> THEN located[c] = None
                                          ELSE located[c] = logs[c][Len(logs[c])]
  /\ \A s \in Sessions : In(s, "track", "commit") => OnTime(s) /\ AloneOnCourier(s)

\* What a transaction checked under its locks holds until it commits.
DecisionHolds ==
  \A s \in Sessions :
    /\ In(s, "assign", "commit") => Assignable(session[s].row, session[s].c)
    /\ In(s, "transition", "commit") => Allowed(session[s].d, session[s].to)

\* No row is deleted here: those that requests named exist.
NamedExist ==
  /\ \A c \in Couriers : courier[c].status # Absent
  /\ \A s \in Sessions :
       session[s] # Idle /\ session[s].call \in {"assign", "transition"} =>
         delivery[session[s].d].status # Absent

\* The inductive invariant of the refinement.
LockInv ==
  /\ session \in [Sessions -> Transactions]
  /\ CopyIsCurrent
  /\ DecisionHolds
  /\ NamedExist

\* The locks make each call atomic: statement by statement, the transactions
\* are a behaviour of DeliveryService, where each is one step.
CallsAreAtomic == Spec

\* Every transaction ends, although assign_courier and record_tracking lock in
\* opposite orders.
EveryCallEnds == \A s \in Sessions : []<>(session[s] = Idle)
===============================================================================
