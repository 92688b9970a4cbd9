---------------------------- MODULE ScheduledRelease ----------------------------
(***************************************************************************)
(* release_due_scheduled_deliveries of core/services.py, run by the Celery *)
(* task release_scheduled_deliveries: it reads the earliest due deliveries *)
(* without a lock, then announces them one transaction at a time.  Runs of *)
(* the task may overlap with each other and with every other request on    *)
(* the same deliveries, whose metadata, the release mark with it, are       *)
(* writable in POST and PATCH.  A run sets no organization on its          *)
(* connection before its query, so where the policies of migration 0002    *)
(* bind the database role the query is empty.                              *)
(***************************************************************************)
EXTENDS Naturals, FiniteSets

CONSTANTS
  Deliveries,   \* primary keys of scheduled deliveries
  Jobs,         \* runs of the task that may overlap
  Limit,        \* at most this many deliveries are read by a run
  PoliciesBind, \* whether the row-level policies bind the database role
  MaxTime,      \* bound: the clock
  MaxEdits,     \* bound: generic edits begun
  MaxDeletes    \* bound: rows deleted

ASSUME ScheduleAssumption ==
  /\ Limit \in Nat \ {0}
  /\ PoliciesBind \in BOOLEAN
  /\ MaxTime \in Nat
  /\ MaxEdits \in Nat
  /\ MaxDeletes \in Nat

VARIABLES
  now,          \* the clock
  row,          \* the columns of each delivery that matter here
  ready,        \* announcements of delivery.scheduled_ready
  supplied,     \* history: deliveries whose mark a request has supplied
  job,          \* what each run's query returned and it has not yet handled
  edit,         \* the generic edit in flight, if any
  edits, deletes

vars == <<now, row, ready, supplied, job, edit, edits, deletes>>

Times == 0..MaxTime

\* The job asks only whether a delivery is pending: "taken" stands for every
\* status that VALID_TRANSITIONS leads to from there.
Statuses == {"pending", "taken"}

\* Of the metadata: without scheduled_release_at, with it, or JSON that is no
\* object, which has no get().
Marks == {"none", "released", "malformed"}

Row == [status : Statuses \cup {"absent", "deleted"}, at : Times, mark : Marks]

NoEdit == [state |-> "none"]

Finished == [state |-> "finished"]

NotCreated == [status |-> "absent", at |-> 0, mark |-> "none"]

Init ==
  /\ now = 0
  /\ row = [d \in Deliveries |-> NotCreated]
  /\ ready = [d \in Deliveries |-> 0]
  /\ supplied = {}
  /\ job = [j \in Jobs |-> Finished]
  /\ edit = NoEdit
  /\ edits = 0
  /\ deletes = 0

Exists(d) == row[d].status \in Statuses

Tick ==
  /\ now < MaxTime
  /\ now' = now + 1
  /\ UNCHANGED <<row, ready, supplied, job, edit, edits, deletes>>

-------------------------------------------------------------------------------
(* The other requests on these rows, in as far as they matter here.        *)

\* create_delivery with a scheduled_time and any metadata.
Schedule(d, t, m) ==
  /\ row[d] = NotCreated
  /\ row' = [row EXCEPT ![d] = [status |-> "pending", at |-> t, mark |-> m]]
  /\ supplied' = IF m = "released" THEN supplied \cup {d} ELSE supplied
  /\ UNCHANGED <<now, ready, job, edit, edits, deletes>>

\* assign_courier and transition_delivery.
Advance(d) ==
  /\ row[d].status = "pending"
  /\ row' = [row EXCEPT ![d].status = "taken"]
  /\ UNCHANGED <<now, ready, supplied, job, edit, edits, deletes>>

\* A generic edit may set the status, the scheduled time and the metadata, and
\* saves its copy of the rest of the row.
BeginEdit(d) ==
  /\ edits < MaxEdits
  /\ edit = NoEdit
  /\ Exists(d)
  /\ \E s \in Statuses, t \in Times, m \in Marks :
       edit' = [state |-> "read", d |-> d, row |-> [status |-> s, at |-> t, mark |-> m],
                supplies |-> m = "released" /\ row[d].mark # "released"]
  /\ edits' = edits + 1
  /\ UNCHANGED <<now, row, ready, supplied, job, deletes>>

SaveEdit ==
  /\ edit # NoEdit
  /\ row' = [row EXCEPT ![edit.d] = edit.row]
  /\ supplied' = IF edit.supplies THEN supplied \cup {edit.d} ELSE supplied
  /\ edit' = NoEdit
  /\ UNCHANGED <<now, ready, job, edits, deletes>>

Delete(d) ==
  /\ deletes < MaxDeletes
  /\ Exists(d)
  /\ row' = [row EXCEPT ![d].status = "deleted"]
  /\ deletes' = deletes + 1
  /\ UNCHANGED <<now, ready, supplied, job, edit, edits>>

-------------------------------------------------------------------------------
(* release_due_scheduled_deliveries.                                       *)

Due == {d \in Deliveries : row[d].status = "pending" /\ row[d].at <= now}

\* What the query returns rows from.
Visible == IF PoliciesBind THEN {} ELSE Due

\* Mutant of Earliest: ORDER BY -scheduled_time.
Latest(W) ==
  /\ W \subseteq Visible
  /\ Cardinality(W) = IF Cardinality(Visible) < Limit THEN Cardinality(Visible) ELSE Limit
  /\ \A d \in W, e \in Visible \ W : row[d].at >= row[e].at

\* ORDER BY scheduled_time LIMIT; ties are broken either way.
Earliest(W) ==
  /\ W \subseteq Visible
  /\ Cardinality(W) = IF Cardinality(Visible) < Limit THEN Cardinality(Visible) ELSE Limit
  /\ \A d \in W, e \in Visible \ W : row[d].at <= row[e].at

\* The rows that the query shows as released are skipped without a lock.
StartJob(j) ==
  /\ job[j] = Finished
  /\ \E W \in SUBSET Due :
       /\ Earliest(W)
       /\ job' = [job EXCEPT ![j] =
                    [state |-> "running",
                     copy |-> [d \in {e \in W : row[e].mark # "released"} |-> row[d]]]]
  /\ UNCHANGED <<now, row, ready, supplied, edit, edits, deletes>>

\* The row whose turn it is.
First(j, d) ==
  /\ job[j].state = "running"
  /\ d \in DOMAIN job[j].copy
  /\ \A e \in DOMAIN job[j].copy : job[j].copy[d].at <= job[j].copy[e].at

Done(j, d) ==
  job' = [job EXCEPT ![j].copy = [e \in DOMAIN @ \ {d} |-> @[e]]]

\* Its copy's metadata are an object; so are the row's, which is there.
Readable(j, d) ==
  /\ First(j, d)
  /\ job[j].copy[d].mark # "malformed"
  /\ Exists(d)
  /\ row[d].mark # "malformed"

\* Mutants of Release: the flag is not read again; the row is marked and not
\* announced.
ReleaseUnchecked(j, d) ==
  /\ Readable(j, d)
  /\ row' = [row EXCEPT ![d].mark = "released"]
  /\ ready' = [ready EXCEPT ![d] = @ + 1]
  /\ Done(j, d)
  /\ UNCHANGED <<now, supplied, edit, edits, deletes>>

ReleaseSilently(j, d) ==
  /\ Readable(j, d)
  /\ row[d].mark = "none"
  /\ row' = [row EXCEPT ![d].mark = "released"]
  /\ Done(j, d)
  /\ UNCHANGED <<now, ready, supplied, edit, edits, deletes>>

\* The row is locked and read again: its release flag decides, its status is
\* not looked at.
Release(j, d) ==
  /\ Readable(j, d)
  /\ row[d].mark = "none"
  /\ row' = [row EXCEPT ![d].mark = "released"]
  /\ ready' = [ready EXCEPT ![d] = @ + 1]
  /\ Done(j, d)
  /\ UNCHANGED <<now, supplied, edit, edits, deletes>>

Skip(j, d) ==
  /\ Readable(j, d)
  /\ row[d].mark = "released"
  /\ Done(j, d)
  /\ UNCHANGED <<now, row, ready, supplied, edit, edits, deletes>>

\* get() raises, of a row that was deleted or of metadata that are no object, and
\* ends the run.
Abort(j, d) ==
  /\ First(j, d)
  /\ ~Readable(j, d)
  /\ job' = [job EXCEPT ![j] = Finished]
  /\ UNCHANGED <<now, row, ready, supplied, edit, edits, deletes>>

Finish(j) ==
  /\ job[j].state = "running"
  /\ DOMAIN job[j].copy = {}
  /\ job' = [job EXCEPT ![j] = Finished]
  /\ UNCHANGED <<now, row, ready, supplied, edit, edits, deletes>>

JobStep(j) ==
  \/ StartJob(j)
  \/ \E d \in Deliveries : Release(j, d) \/ Skip(j, d) \/ Abort(j, d)
  \/ Finish(j)

-------------------------------------------------------------------------------

Next ==
  \/ Tick
  \/ \E d \in Deliveries, t \in Times, m \in Marks : Schedule(d, t, m)
  \/ \E d \in Deliveries : Advance(d) \/ BeginEdit(d) \/ Delete(d)
  \/ SaveEdit
  \/ \E j \in Jobs : JobStep(j)

\* The deployment's scheduler starts the task again and again (README.md), and
\* a run that was started goes on.
Fairness == \A j \in Jobs : WF_vars(JobStep(j))

Spec == Init /\ [][Next]_vars /\ Fairness

-------------------------------------------------------------------------------
(* Properties.                                                             *)

\* However many runs overlap, a delivery is announced ready once; each generic
\* edit that saves an older copy of the row can make for one more.
ReadyOnce == \A d \in Deliveries : ready[d] <= 1 + edits

\* A row that says it was released was announced, however runs, copies saved
\* again and deletions overlap, unless a POST or PATCH supplied the mark.
ReleasedIsAnnounced ==
  \A d \in Deliveries : row[d].mark = "released" => ready[d] > 0 \/ d \in supplied

\* As many deliveries that were released and still wait for a courier, due no
\* later than d, as a run reads at most: they are read again by every run.
Crowded(d) ==
  Cardinality({e \in Due \ {d} : row[e].mark = "released" /\ row[e].at <= row[d].at}) >= Limit

\* Metadata that are no object, of d or of a delivery due no later, at which
\* every run ends.
Obstructed(d) ==
  \E e \in Due : row[e].mark = "malformed" /\ row[e].at <= row[d].at

\* A due delivery is marked as released in the end, or is not pending any more,
\* unless released deliveries that nobody takes up keep every run from seeing it
\* or malformed metadata end every run before it; also if a run ends at a deleted
\* row ("Schedule the latter two with Celery Beat", README.md:106).  It is so
\* only where the database role is exempt from the policies.
DueIsReleased ==
  \A d \in Deliveries :
    (d \in Due /\ ~PoliciesBind)
      ~> \/ row[d].mark = "released" \/ row[d].status # "pending" \/ row[d].at > now
         \/ Crowded(d) \/ Obstructed(d)

\* "Scheduled delivery ... is ready for dispatch" (services.py:589): what is
\* announced ready is still pending.
ReadyIsPending ==
  [][\A d \in Deliveries : ready'[d] > ready[d] => row[d].status = "pending"]_vars
===============================================================================
