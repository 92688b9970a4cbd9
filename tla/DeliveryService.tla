---------------------------- MODULE DeliveryService ----------------------------
(***************************************************************************)
(* The service layer of core/services.py: create_delivery, assign_courier  *)
(* and transition_delivery on the rows of deliveries and couriers of one   *)
(* organization.                                                           *)
(*                                                                         *)
(* assign_courier and transition_delivery are transactions that lock every *)
(* row they decide on, so each is one step.  create_delivery is not: its   *)
(* inserts are committed one by one, each is a step of its own, and a      *)
(* worker that dies between two of them takes no further one.  A call that *)
(* is refused (DeliveryStateError, DoesNotExist) rolls back and changes    *)
(* nothing.                                                                *)
(***************************************************************************)
EXTENDS DeliveryStatus, Naturals

CONSTANTS
  Deliveries,   \* primary keys of delivery rows
  Couriers,     \* primary keys of courier rows
  Branches,     \* branches of the organization
  None          \* SQL NULL, in courier_id and branch_id

ASSUME ServiceAssumption ==
  /\ None \notin Couriers
  /\ None \notin Branches

VARIABLES
  delivery,     \* the deliveries table
  courier,      \* the couriers table
  timeline,     \* the statuses of each delivery's DeliveryEvent rows
  creation,     \* the create_delivery call of each delivery
  outcomes,     \* number of outcome notifications created for each delivery
  offered       \* couriers a delivery.assigned notification was created for

vars == <<delivery, courier, timeline, creation, outcomes, offered>>

CourierStatuses == {"available", "delivering", "offline", "inactive"}

DeliveryRow == [status  : Statuses \cup {Absent},
                courier : Couriers \cup {None},
                branch  : Branches \cup {None},
                stamps  : SUBSET Stamped]

CourierRow == [status : CourierStatuses \cup {Absent},
               branch : Branches \cup {None}]

NotCalled == [step |-> "none", status |-> Absent]

\* What has been committed of a call, and the status of its object in memory.
Creation == {NotCalled} \cup [step   : {"inserted", "logged", "announced"},
                              status : InitialStatuses]

NoDelivery == [status |-> Absent, courier |-> None, branch |-> None, stamps |-> {}]

-------------------------------------------------------------------------------

Init ==
  /\ delivery = [d \in Deliveries |-> NoDelivery]
  /\ courier \in [Couriers -> [status : {"offline"},
                               branch : Branches \cup {None}]]
  /\ timeline = [d \in Deliveries |-> {}]
  /\ creation = [d \in Deliveries |-> NotCalled]
  /\ outcomes = [d \in Deliveries |-> 0]
  /\ offered = [d \in Deliveries |-> {}]

-------------------------------------------------------------------------------
(* create_delivery, one step per commit.                                   *)

Inserted(s, b) == [status |-> s, courier |-> None, branch |-> b, stamps |-> {}]

InsertDelivery(d, s, b) ==
  /\ creation[d] = NotCalled
  /\ delivery' = [delivery EXCEPT ![d] = Inserted(s, b)]
  /\ creation' = [creation EXCEPT ![d] = [step |-> "inserted", status |-> s]]
  /\ UNCHANGED <<courier, timeline, outcomes, offered>>

\* The event is given the status of the object in memory, whatever other
\* requests have made of the row since.  It references the row.
LogCreation(d) ==
  /\ creation[d].step = "inserted"
  /\ delivery[d].status # Absent
  /\ timeline' = [timeline EXCEPT ![d] = @ \cup {creation[d].status}]
  /\ creation' = [creation EXCEPT ![d].step = "logged"]
  /\ UNCHANGED <<delivery, courier, outcomes, offered>>

\* The analytics event, the audit entry and the broadcast of delivery.created:
\* nothing below reads them, so they are one step.
AnnounceCreation(d) ==
  /\ creation[d].step = "logged"
  /\ creation' = [creation EXCEPT ![d].step = "announced"]
  /\ UNCHANGED <<delivery, courier, timeline, outcomes, offered>>

-------------------------------------------------------------------------------
(* assign_courier.                                                         *)

BranchesAgree(d, c) ==
  \/ delivery[d].branch = None
  \/ courier[c].branch = None
  \/ delivery[d].branch = courier[c].branch

Assigned(row, c) ==
  [row EXCEPT !.courier = c,
              !.status = IF @ = "pending" THEN "assigned" ELSE @]

\* Mutants of CanAssign, each without one of its checks.
CanAssignEnded(d, c) ==
  /\ delivery[d].status \in Statuses
  /\ courier[c].status # Absent
  /\ BranchesAgree(d, c)
  /\ delivery[d].courier \in {None, c}

CanAssignAcross(d, c) ==
  /\ delivery[d].status \in Statuses \ Terminal
  /\ courier[c].status # Absent
  /\ delivery[d].courier \in {None, c}

CanAssignTaken(d, c) ==
  /\ delivery[d].status \in Statuses \ Terminal
  /\ courier[c].status # Absent
  /\ BranchesAgree(d, c)

CanAssign(d, c) ==
  /\ delivery[d].status \in Statuses \ Terminal
  /\ courier[c].status # Absent
  /\ BranchesAgree(d, c)
  /\ delivery[d].courier \in {None, c}

AssignCourier(d, c) ==
  /\ CanAssign(d, c)
  /\ delivery' = [delivery EXCEPT ![d] = Assigned(@, c)]
  /\ courier' = [courier EXCEPT ![c].status = "delivering"]
  /\ timeline' = [timeline EXCEPT ![d] = @ \cup {"assigned"}]
  /\ offered' = [offered EXCEPT ![d] = @ \cup {c}]
  /\ UNCHANGED <<creation, outcomes>>

-------------------------------------------------------------------------------
(* transition_delivery.                                                    *)

\* Mutants of Allowed: a repeated report taken for a new one, a cancellation on
\* the road.
AllowedAgain(d, s) ==
  /\ delivery[d].status # Absent
  /\ s \in VALID_TRANSITIONS[delivery[d].status] \cup {delivery[d].status}

AllowedCancel(d, s) ==
  /\ delivery[d].status # Absent
  /\ \/ s \in VALID_TRANSITIONS[delivery[d].status]
     \/ delivery[d].status = "picked_up" /\ s = "cancelled"

Allowed(d, s) ==
  /\ delivery[d].status # Absent
  /\ s \in VALID_TRANSITIONS[delivery[d].status]

Moved(row, s) ==
  [row EXCEPT !.status = s,
              !.stamps = @ \cup ({s} \cap Stamped)]

\* Mutant of TransitionDelivery: no event is logged.
TransitionUnlogged(d, s) ==
  /\ Allowed(d, s)
  /\ delivery' = [delivery EXCEPT ![d] = Moved(@, s)]
  /\ outcomes' = [outcomes EXCEPT ![d] = IF s \in Outcomes THEN @ + 1 ELSE @]
  /\ UNCHANGED <<courier, timeline, creation, offered>>

TransitionDelivery(d, s) ==
  /\ Allowed(d, s)
  /\ delivery' = [delivery EXCEPT ![d] = Moved(@, s)]
  /\ timeline' = [timeline EXCEPT ![d] = @ \cup {s}]
  /\ outcomes' = [outcomes EXCEPT ![d] = IF s \in Outcomes THEN @ + 1 ELSE @]
  /\ UNCHANGED <<courier, creation, offered>>

-------------------------------------------------------------------------------

Next ==
  \E d \in Deliveries :
    \/ \E s \in InitialStatuses, b \in Branches \cup {None} : InsertDelivery(d, s, b)
    \/ LogCreation(d)
    \/ AnnounceCreation(d)
    \/ \E c \in Couriers : AssignCourier(d, c)
    \/ \E s \in Statuses : TransitionDelivery(d, s)

Spec == Init /\ [][Next]_vars

-------------------------------------------------------------------------------
(* Type invariant.                                                         *)

\* Every row, event set and counter stays within its columns' values.
TypeOK ==
  /\ delivery \in [Deliveries -> DeliveryRow]
  /\ courier \in [Couriers -> CourierRow]
  /\ timeline \in [Deliveries -> SUBSET Statuses]
  /\ creation \in [Deliveries -> Creation]
  /\ outcomes \in [Deliveries -> Nat]
  /\ offered \in [Deliveries -> SUBSET Couriers]

-------------------------------------------------------------------------------
(* Safety invariants.                                                      *)

StampsMatch(row) ==
  /\ \A s \in Terminal : s \in row.stamps <=> s = row.status
  /\ "picked_up" \in row.stamps
       <=> row.status \in {"picked_up", "in_transit", "delivered", "failed"}
  /\ row.status = "accepted" => "accepted" \in row.stamps
  /\ "accepted" \in row.stamps => row.status \in UnderWay \cup Terminal

\* The time stamps of a row tell the same story as its status, whichever path
\* the requests took: picked_up_at is set exactly on the rows that were picked
\* up, exactly one of completed_at, failed_at and cancelled_at is set on a
\* terminal row and it is the one of that status, none is set before.
\* transition_delivery never clears a stamp, so a path through two ends or a
\* skipped pick-up would leave a contradiction in the row.
StampsTellStatus == \A d \in Deliveries : StampsMatch(delivery[d])

\* The timeline shown to customers and the row agree: what has a stamp has an
\* event and the reverse, and the current status has an event, except that of
\* a row whose create_delivery has not logged its event (and never will, if
\* the worker died there).
TimelineTellsStatus ==
  \A d \in Deliveries :
    /\ timeline[d] \cap Stamped = delivery[d].stamps
    /\ \/ delivery[d].status \in timeline[d] \cup {Absent}
       \/ creation[d].step = "inserted" /\ delivery[d].status = creation[d].status

\* However many requests report the same delivery as delivered or failed, one
\* notification tells how it ended, and none does before it has ended.
OneOutcomeNotice ==
  \A d \in Deliveries :
    outcomes[d] = IF delivery[d].status \in Outcomes THEN 1 ELSE 0

\* A courier who was told of an assignment is the courier of that delivery:
\* no delivery was ever offered to two couriers, in whatever order the
\* dispatchers' requests were served.
OfferedToItsCourier ==
  \A d \in Deliveries : offered[d] = {delivery[d].courier} \ {None}

\* A delivery and its courier never belong to two different branches.
SameBranch ==
  \A d \in Deliveries :
    delivery[d].courier # None => BranchesAgree(d, delivery[d].courier)

\* Nothing refers to a delivery before create_delivery inserted it.
UncalledIsBlank ==
  \A d \in Deliveries :
    creation[d] = NotCalled =>
      /\ delivery[d] = NoDelivery
      /\ timeline[d] = {}
      /\ outcomes[d] = 0
      /\ offered[d] = {}

\* The inductive invariant: the first five, and what an insert starts from.
Inv ==
  /\ StampsTellStatus
  /\ TimelineTellsStatus
  /\ OneOutcomeNotice
  /\ OfferedToItsCourier
  /\ SameBranch
  /\ UncalledIsBlank

-------------------------------------------------------------------------------
(* Action properties.                                                      *)

\* A delivery that was completed, failed or cancelled stays as it is: no later
\* request changes its status, its courier, its stamps or its notices.
TerminalIsFinal ==
  [][\A d \in Deliveries : delivery[d].status \in Terminal =>
       /\ delivery'[d] = delivery[d]
       /\ outcomes'[d] = outcomes[d]
       /\ offered'[d] = offered[d]]_vars

-------------------------------------------------------------------------------
(* What the service promises.                                              *)

PhaseOf ==
  [absent |-> "unborn", requested |-> "waiting", pending |-> "waiting",
   assigned |-> "committed", accepted |-> "committed",
   picked_up |-> "moving", in_transit |-> "moving",
   delivered |-> "delivered", failed |-> "failed", cancelled |-> "cancelled"]

Phase == [d \in Deliveries |-> PhaseOf[delivery[d].status]]
Carrier == [d \in Deliveries |-> delivery[d].courier]
Told == [d \in Deliveries |-> outcomes[d] > 0]

Lifecycle == INSTANCE DeliveryLifecycle WITH
  Carriers <- Couriers, phase <- Phase, carrier <- Carrier, told <- Told

\* Every behaviour of the service is one of the abstract lifecycle: whatever
\* the interleaving of creations, assignments and transitions, each delivery
\* goes forward only, keeps its carrier and tells its outcome as it ends.
ImplementsLifecycle == Lifecycle!Spec
===============================================================================
