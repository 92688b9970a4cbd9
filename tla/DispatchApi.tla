------------------------------ MODULE DispatchApi ------------------------------
(***************************************************************************)
(* The REST requests of core/views.py that reach delivery and courier      *)
(* rows, on top of the service layer.  The views run in autocommit and     *)
(* take no lock: what a request reads is held in the worker's memory while *)
(* other requests commit, and what it writes is computed from that copy.   *)
(* A generic PATCH or PUT saves every column of the copy (DRF's            *)
(* ModelSerializer.update calls save() with no update_fields); the other   *)
(* requests name the columns they save.                                    *)
(*                                                                         *)
(* The assign and transition actions and the GraphQL mutations only pass   *)
(* primary keys to the service, which reads the rows again under its own   *)
(* locks: they are the actions of DeliveryService.                         *)
(***************************************************************************)
EXTENDS DeliveryService, FiniteSets

CONSTANTS
  Workers,      \* server threads; each handles one request at a time
  Loads,        \* what a behaviour may be made of, see Load
  Editable,     \* columns that edits may set, beside notes and the like
  MaxEdits      \* bound: generic edits begun

\* The kinds of request that arrive, how many are handled at a time, how many
\* couriers there are, and how many rows may be deleted (a bound).
Load == [kinds : SUBSET {"edit_delivery", "edit_courier", "status", "login",
                         "profile", "own_transition"},
         workers : Nat, couriers : Nat, deletes : Nat]

ASSUME ApiAssumption ==
  /\ Loads \subseteq Load
  /\ Editable \subseteq {"status", "courier", "branch", "courier_status",
                         "courier_branch"}
  /\ MaxEdits \in Nat

VARIABLES
  load,         \* the load of this behaviour
  request,      \* what each worker has read and is about to write
  edits,        \* generic edits begun so far
  deletes       \* rows deleted so far

apiVars == <<load, request, edits, deletes>>
allVars == <<vars, apiVars>>

NoRequest == [kind |-> "none"]

NoCourier == [status |-> Absent, branch |-> None]

ApiInit ==
  /\ load \in Loads
  /\ \E staff \in SUBSET Couriers :
       /\ Cardinality(staff) = load.couriers
       /\ courier \in {[c \in Couriers |-> IF c \in staff THEN row[c] ELSE NoCourier] :
                       row \in [staff -> [status : {"offline"}, branch : Branches \cup {None}]]}
  /\ delivery = [d \in Deliveries |-> NoDelivery]
  /\ timeline = [d \in Deliveries |-> {}]
  /\ creation = [d \in Deliveries |-> NotCalled]
  /\ outcomes = [d \in Deliveries |-> 0]
  /\ offered = [d \in Deliveries |-> {}]
  /\ request = [w \in Workers |-> NoRequest]
  /\ edits = 0
  /\ deletes = 0

Accept(w, r) ==
  /\ r.kind \in load.kinds
  /\ request[w] = NoRequest
  /\ Cardinality({v \in Workers : request[v] # NoRequest}) < load.workers
  /\ request' = [request EXCEPT ![w] = r]

Reply(w) == request' = [request EXCEPT ![w] = NoRequest]

Handling(w, kind) == request[w].kind = kind

Exists(c) == courier[c].status # Absent

-------------------------------------------------------------------------------
(* PATCH and PUT on a delivery: DRF's UpdateModelMixin over                *)
(* DeliveryViewSet and DeliverySerializer.                                 *)

Choices(column, values, old) == IF column \in Editable THEN values ELSE {old}

Edited(row, s, c, b) == [row EXCEPT !.status = s, !.courier = c, !.branch = b]

BeginEditDelivery(w, d) ==
  /\ edits < MaxEdits
  /\ delivery[d].status # Absent
  /\ \E s \in Choices("status", Statuses, delivery[d].status),
        c \in Choices("courier", Couriers \cup {None}, delivery[d].courier),
        b \in Choices("branch", Branches \cup {None}, delivery[d].branch) :
       Accept(w, [kind |-> "edit_delivery", d |-> d, row |-> Edited(delivery[d], s, c, b)])
  /\ edits' = edits + 1
  /\ UNCHANGED <<vars, deletes, load>>

\* Mutant of SaveDelivery: save(update_fields=["status"]).
SaveDeliveryStatus(w) ==
  /\ Handling(w, "edit_delivery")
  /\ LET r == request[w] IN
       delivery' = [delivery EXCEPT ![r.d].status = r.row.status]
  /\ Reply(w)
  /\ UNCHANGED <<courier, timeline, creation, outcomes, offered, edits, deletes, load>>

\* save(): an UPDATE of every column, or an INSERT if the row is gone by now.
\* The foreign key to a courier that is gone fails it.
SaveDelivery(w) ==
  /\ Handling(w, "edit_delivery")
  /\ LET r == request[w] IN
       delivery' = IF r.row.courier # None /\ ~Exists(r.row.courier)
                   THEN delivery
                   ELSE [delivery EXCEPT ![r.d] = r.row]
  /\ Reply(w)
  /\ UNCHANGED <<courier, timeline, creation, outcomes, offered, edits, deletes, load>>

\* DELETE: the events of the delivery go with it.
DeleteDelivery(d) ==
  /\ deletes < load.deletes
  /\ delivery[d].status # Absent
  /\ delivery' = [delivery EXCEPT ![d] = NoDelivery]
  /\ timeline' = [timeline EXCEPT ![d] = {}]
  /\ deletes' = deletes + 1
  /\ UNCHANGED <<courier, creation, outcomes, offered, request, edits, load>>

-------------------------------------------------------------------------------
(* CourierOwnDeliveryTransitionView.post: whether the delivery is the      *)
(* courier's own is read before transition_delivery locks the row.         *)

\* Mutant of BeginOwnTransition: any delivery will do.
BeginAnyTransition(w, c, d, s) ==
  /\ courier[c].status \notin {Absent, "inactive"}
  /\ delivery[d].status # Absent
  /\ Accept(w, [kind |-> "own_transition", d |-> d, c |-> c, to |-> s])
  /\ UNCHANGED <<vars, edits, deletes, load>>

BeginOwnTransition(w, c, d, s) ==
  /\ courier[c].status \notin {Absent, "inactive"}
  /\ delivery[d].status # Absent
  /\ delivery[d].courier = c
  /\ Accept(w, [kind |-> "own_transition", d |-> d, c |-> c, to |-> s])
  /\ UNCHANGED <<vars, edits, deletes, load>>

OwnTransition(w) ==
  /\ Handling(w, "own_transition")
  /\ LET r == request[w] IN
       \/ TransitionDelivery(r.d, r.to)
       \/ ~Allowed(r.d, r.to) /\ UNCHANGED vars
  /\ Reply(w)
  /\ UNCHANGED <<edits, deletes, load>>

-------------------------------------------------------------------------------
(* CourierViewSet.status: read the courier, look for a delivery under way, *)
(* save the status.                                                        *)

UnderWayWith(c) ==
  {d \in Deliveries : delivery[d].courier = c /\ delivery[d].status \in UnderWay}

\* The field held is history, for StatusLockHeld: no request reads it.
BeginSetStatus(w, c, s) ==
  /\ Exists(c)
  /\ Accept(w, [kind |-> "status", c |-> c, seen |-> courier[c].status,
                to |-> s, checked |-> FALSE, held |-> UnderWayWith(c)])
  /\ UNCHANGED <<vars, edits, deletes, load>>

\* Mutant of CheckSetStatus: only going offline is refused.
CheckGoingOffline(w) ==
  /\ Handling(w, "status")
  /\ ~request[w].checked
  /\ IF /\ request[w].seen = "delivering"
        /\ UnderWayWith(request[w].c) # {}
        /\ request[w].to = "offline"
     THEN Reply(w)
     ELSE request' = [request EXCEPT ![w].checked = TRUE]
  /\ UNCHANGED <<vars, edits, deletes, load>>

CheckSetStatus(w) ==
  /\ Handling(w, "status")
  /\ ~request[w].checked
  /\ IF /\ request[w].seen = "delivering"
        /\ UnderWayWith(request[w].c) # {}
        /\ request[w].to # "delivering"
     THEN Reply(w)
     ELSE request' = [request EXCEPT ![w].checked = TRUE]
  /\ UNCHANGED <<vars, edits, deletes, load>>

\* save(update_fields=["status", ...]) raises when the row is gone.
WriteStatus(c, s) ==
  /\ courier' = IF Exists(c) THEN [courier EXCEPT ![c].status = s] ELSE courier
  /\ UNCHANGED <<delivery, timeline, creation, outcomes, offered, edits, deletes, load>>

SaveSetStatus(w) ==
  /\ Handling(w, "status")
  /\ request[w].checked
  /\ WriteStatus(request[w].c, request[w].to)
  /\ Reply(w)

-------------------------------------------------------------------------------
(* CourierLoginView.post makes an offline courier available, and           *)
(* CourierOwnProfileView.patch sets the courier's own status to anything.  *)

BeginLogin(w, c) ==
  /\ courier[c].status \notin {Absent, "inactive"}
  /\ Accept(w, [kind |-> "login", c |-> c, seen |-> courier[c].status])
  /\ UNCHANGED <<vars, edits, deletes, load>>

SaveLogin(w) ==
  /\ Handling(w, "login")
  /\ IF request[w].seen = "offline"
     THEN WriteStatus(request[w].c, "available")
     ELSE UNCHANGED <<vars, edits, deletes, load>>
  /\ Reply(w)

BeginProfile(w, c, s) ==
  /\ courier[c].status \notin {Absent, "inactive"}
  /\ Accept(w, [kind |-> "profile", c |-> c, to |-> s])
  /\ UNCHANGED <<vars, edits, deletes, load>>

SaveProfile(w) ==
  /\ Handling(w, "profile")
  /\ WriteStatus(request[w].c, request[w].to)
  /\ Reply(w)

-------------------------------------------------------------------------------
(* PATCH, PUT and DELETE on a courier: the mixins over CourierViewSet.     *)

EditedCourier(row, s, b) == [row EXCEPT !.status = s, !.branch = b]

BeginEditCourier(w, c) ==
  /\ edits < MaxEdits
  /\ Exists(c)
  /\ \E s \in Choices("courier_status", CourierStatuses, courier[c].status),
        b \in Choices("courier_branch", Branches \cup {None}, courier[c].branch) :
       Accept(w, [kind |-> "edit_courier", c |-> c, row |-> EditedCourier(courier[c], s, b)])
  /\ edits' = edits + 1
  /\ UNCHANGED <<vars, deletes, load>>

SaveCourier(w) ==
  /\ Handling(w, "edit_courier")
  /\ courier' = [courier EXCEPT ![request[w].c] = request[w].row]
  /\ Reply(w)
  /\ UNCHANGED <<delivery, timeline, creation, outcomes, offered, edits, deletes, load>>

\* Mutant of DeleteCourier: on_delete=DO_NOTHING.
DeleteCourierAlone(c) ==
  /\ deletes < load.deletes
  /\ Exists(c)
  /\ courier' = [courier EXCEPT ![c] = NoCourier]
  /\ deletes' = deletes + 1
  /\ UNCHANGED <<delivery, timeline, creation, outcomes, offered, request, edits, load>>

\* on_delete=SET_NULL: the courier's deliveries are left without one.
DeleteCourier(c) ==
  /\ deletes < load.deletes
  /\ Exists(c)
  /\ courier' = [courier EXCEPT ![c] = NoCourier]
  /\ delivery' = [d \in Deliveries |->
                    IF delivery[d].courier = c THEN [delivery[d] EXCEPT !.courier = None]
                                               ELSE delivery[d]]
  /\ deletes' = deletes + 1
  /\ UNCHANGED <<timeline, creation, outcomes, offered, request, edits, load>>

-------------------------------------------------------------------------------

ServiceCall == Next /\ UNCHANGED apiVars

DeliveryRequests ==
  \/ \E w \in Workers, d \in Deliveries : BeginEditDelivery(w, d)
  \/ \E w \in Workers : SaveDelivery(w)
  \/ \E d \in Deliveries : DeleteDelivery(d)
  \/ \E w \in Workers, c \in Couriers, d \in Deliveries, s \in Statuses :
       BeginOwnTransition(w, c, d, s)
  \/ \E w \in Workers : OwnTransition(w)

CourierRequests ==
  \/ \E w \in Workers, c \in Couriers, s \in CourierStatuses : BeginSetStatus(w, c, s)
  \/ \E w \in Workers : CheckSetStatus(w) \/ SaveSetStatus(w)
  \/ \E w \in Workers, c \in Couriers : BeginLogin(w, c)
  \/ \E w \in Workers : SaveLogin(w)
  \/ \E w \in Workers, c \in Couriers, s \in CourierStatuses : BeginProfile(w, c, s)
  \/ \E w \in Workers : SaveProfile(w)
  \/ \E w \in Workers, c \in Couriers : BeginEditCourier(w, c)
  \/ \E w \in Workers : SaveCourier(w)
  \/ \E c \in Couriers : DeleteCourier(c)

ApiNext == ServiceCall \/ DeliveryRequests \/ CourierRequests

ApiSpec == ApiInit /\ [][ApiNext]_allVars

-------------------------------------------------------------------------------
(* Properties.                                                             *)

\* Edits may bring an older row back, and forget an assignment or an end, but
\* they never lose an event: whatever the row says happened is on the timeline,
\* unless the delivery was deleted and an edit brought it back.
TimelineCoversRow ==
  deletes = 0 =>
    \A d \in Deliveries :
      /\ delivery[d].stamps \subseteq timeline[d]
      /\ \/ delivery[d].status \in timeline[d] \cup {Absent}
         \/ creation[d].step = "inserted" /\ delivery[d].status = creation[d].status

\* A delivery's courier exists and is of its branch, although deletions,
\* assignments and the saving of older copies of both rows interleave.
CourierExistsInBranch ==
  \A d \in Deliveries : LET c == delivery[d].courier IN
    c # None => Exists(c) /\ BranchesAgree(d, c)

\* A courier's own request moves only a delivery that is the courier's at that
\* moment, although ownership was checked before the row was locked.  Only an
\* edit or a deletion in between can take it from that courier.
OwnTransitionByHolder ==
  [][\A w \in Workers :
       Handling(w, "own_transition") /\ request'[w] = NoRequest /\ edits + deletes = 0 =>
         LET d == request[w].d IN
           delivery'[d] # delivery[d] => delivery[d].courier = request[w].c]_allVars

\* A delivery that was under way when the status action was received, for a
\* courier it saw delivering, and is under way still, keeps its courier's
\* status from being changed by it, whatever else was committed in between.
\* Only an edit can make a delivery or a courier what it was before.
StatusLockHeld ==
  [][\A w \in Workers :
       Handling(w, "status") /\ request'[w] = NoRequest /\ edits = 0 =>
         LET r == request[w] IN
           r.seen = "delivering" /\ r.held \cap UnderWayWith(r.c) # {}
             => courier'[r.c].status \in {courier[r.c].status, "delivering"}]_allVars

\* "Courier status is locked while an active delivery is in progress."
\* (views.py:1178): the status action does not take a courier off delivering
\* while a delivery of theirs is under way.
StatusLocked ==
  [][\A w \in Workers :
       Handling(w, "status") /\ request'[w] = NoRequest =>
         LET c == request[w].c IN
           courier'[c] # courier[c] /\ courier[c].status = "delivering"
             => UnderWayWith(c) = {}]_allVars
===============================================================================
