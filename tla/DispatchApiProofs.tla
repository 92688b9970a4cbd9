--------------------------- MODULE DispatchApiProofs ---------------------------
(***************************************************************************)
(* Proofs about DispatchApi: the service together with requests that write *)
(* what they computed from an older copy, for any number of workers, edits *)
(* and deletions and any mix of requests.                                  *)
(***************************************************************************)
EXTENDS DispatchApi, DeliveryServiceProofs

-------------------------------------------------------------------------------
(* Type correctness.                                                       *)

ExistingCourier == [status : CourierStatuses, branch : Branches \cup {None}]

ApiRequests ==
  [kind : {"none"}]
    \cup [kind : {"edit_delivery"}, d : Deliveries, row : DeliveryRow]
    \cup [kind : {"own_transition"}, d : Deliveries, c : Couriers, to : Statuses]
    \cup [kind : {"status"}, c : Couriers, seen : CourierStatuses, to : CourierStatuses,
          checked : BOOLEAN, held : SUBSET Deliveries]
    \cup [kind : {"login"}, c : Couriers, seen : CourierStatuses]
    \cup [kind : {"profile"}, c : Couriers, to : CourierStatuses]
    \cup [kind : {"edit_courier"}, c : Couriers, row : ExistingCourier]

ApiTypes ==
  /\ TypeOK
  /\ request \in [Workers -> ApiRequests]
  /\ edits \in Nat /\ deletes \in Nat

\* A request is received, or answered.
LEMMA RequestChanges ==
  ASSUME ApiTypes, NEW w \in Workers, NEW r \in ApiRequests,
         request' = [request EXCEPT ![w] = r]
  PROVE  /\ request' \in [Workers -> ApiRequests]
         /\ \A v \in Workers : request'[v] = IF v = w THEN r ELSE request[v]
BY DEF ApiTypes

LEMMA NoRequestTyped == NoRequest \in ApiRequests /\ NoRequest.kind = "none"
BY DEF NoRequest, ApiRequests

\* A courier's row that is there is one of the schema.
LEMMA ExistingTyped ==
  ASSUME TypeOK, NEW c \in Couriers
  PROVE  /\ Exists(c) => courier[c] \in ExistingCourier /\ courier[c].status \in CourierStatuses
         /\ ~Exists(c) <=> courier[c].status = Absent
BY DEF TypeOK, CourierRow, ExistingCourier, Exists

\* What an edit may make of a row.
LEMMA DeliveryEdit ==
  ASSUME TypeOK, NEW w \in Workers, NEW d \in Deliveries, BeginEditDelivery(w, d)
  PROVE  \E new \in DeliveryRow :
           /\ request' = [request EXCEPT ![w] = [kind |-> "edit_delivery", d |-> d, row |-> new]]
           /\ new.stamps = delivery[d].stamps
           /\ "status" \notin Editable => new.status = delivery[d].status
           /\ "courier" \notin Editable => new.courier = delivery[d].courier
           /\ "branch" \notin Editable => new.branch = delivery[d].branch
<1>1. PICK s \in Choices("status", Statuses, delivery[d].status),
           c \in Choices("courier", Couriers \cup {None}, delivery[d].courier),
           b \in Choices("branch", Branches \cup {None}, delivery[d].branch) :
        request' = [request EXCEPT ![w] = [kind |-> "edit_delivery", d |-> d,
                                           row |-> Edited(delivery[d], s, c, b)]]
  BY DEF BeginEditDelivery, Accept
<1>2. PICK new : new = Edited(delivery[d], s, c, b)
  OBVIOUS
<1>3. /\ s \in Statuses \cup {Absent} /\ c \in Couriers \cup {None} /\ b \in Branches \cup {None}
      /\ "status" \notin Editable => s = delivery[d].status
      /\ "courier" \notin Editable => c = delivery[d].courier
      /\ "branch" \notin Editable => b = delivery[d].branch
  BY DEF Choices, TypeOK, DeliveryRow
<1>4. /\ new \in DeliveryRow /\ new.status = s /\ new.courier = c /\ new.branch = b
      /\ new.stamps = delivery[d].stamps
  BY <1>2, <1>3 DEF Edited, TypeOK, DeliveryRow
<1> QED
  BY <1>1, <1>2, <1>3, <1>4

LEMMA CourierEdit ==
  ASSUME TypeOK, NEW w \in Workers, NEW c \in Couriers, BeginEditCourier(w, c)
  PROVE  \E new \in ExistingCourier :
           /\ request' = [request EXCEPT ![w] = [kind |-> "edit_courier", c |-> c, row |-> new]]
           /\ "courier_branch" \notin Editable => new.branch = courier[c].branch
<1>1. PICK s \in Choices("courier_status", CourierStatuses, courier[c].status),
           b \in Choices("courier_branch", Branches \cup {None}, courier[c].branch) :
        request' = [request EXCEPT ![w] = [kind |-> "edit_courier", c |-> c,
                                           row |-> EditedCourier(courier[c], s, b)]]
  BY DEF BeginEditCourier, Accept
<1>2. PICK new : new = EditedCourier(courier[c], s, b)
  OBVIOUS
<1>3. /\ s \in CourierStatuses /\ b \in Branches \cup {None}
      /\ "courier_branch" \notin Editable => b = courier[c].branch
  BY ExistingTyped DEF BeginEditCourier, Choices, ExistingCourier
<1>4. new \in ExistingCourier /\ new.branch = b
  BY <1>2, <1>3, ExistingTyped DEF BeginEditCourier, EditedCourier, ExistingCourier
<1> QED
  BY <1>1, <1>2, <1>3, <1>4

LEMMA ApiTypeKept == ApiTypes /\ [ApiNext]_allVars => ApiTypes'
<1> SUFFICES ASSUME ApiTypes, [ApiNext]_allVars PROVE ApiTypes'
  OBVIOUS
<1> USE DEF Accept, Reply, Handling
<1>a. TypeOK /\ request \in [Workers -> ApiRequests] /\ edits \in Nat /\ deletes \in Nat
  BY DEF ApiTypes
<1>b. UNCHANGED vars => TypeOK'
  BY <1>a, TypeKept
<1>c. ASSUME NEW w \in Workers, Reply(w) PROVE request' \in [Workers -> ApiRequests]
  BY <1>c, RequestChanges, NoRequestTyped
<1>d. \A w \in Workers : request[w] \in ApiRequests
  BY <1>a
<1>1. CASE ServiceCall
  BY <1>1, <1>a, TypeKept DEF ServiceCall, apiVars, ApiTypes
<1>2. ASSUME NEW w \in Workers, NEW d \in Deliveries, BeginEditDelivery(w, d) PROVE ApiTypes'
  <2>1. PICK new \in DeliveryRow :
          request' = [request EXCEPT ![w] = [kind |-> "edit_delivery", d |-> d, row |-> new]]
    BY <1>2, <1>a, DeliveryEdit
  <2>3. [kind |-> "edit_delivery", d |-> d, row |-> new] \in ApiRequests
    BY DEF ApiRequests
  <2> QED
    BY <1>2, <1>a, <1>b, <2>1, <2>3, RequestChanges DEF BeginEditDelivery, ApiTypes
<1>3. ASSUME NEW w \in Workers, SaveDelivery(w) PROVE ApiTypes'
  <2>1. request[w].d \in Deliveries /\ request[w].row \in DeliveryRow
    BY <1>3, <1>d DEF SaveDelivery, ApiRequests
  <2>2. TypeOK'
    BY <1>3, <1>a, <2>1 DEF SaveDelivery, TypeOK
  <2> QED
    BY <1>3, <1>a, <1>c, <2>2 DEF SaveDelivery, ApiTypes
<1>4. ASSUME NEW d \in Deliveries, DeleteDelivery(d) PROVE ApiTypes'
  <2>1. NoDelivery \in DeliveryRow
    BY DEF NoDelivery, DeliveryRow
  <2>2. TypeOK'
    BY <1>4, <1>a, <2>1 DEF DeleteDelivery, TypeOK
  <2> QED
    BY <1>4, <1>a, <2>2 DEF DeleteDelivery, ApiTypes
<1>5. ASSUME NEW w \in Workers, NEW c \in Couriers, NEW d \in Deliveries, NEW s \in Statuses,
             BeginOwnTransition(w, c, d, s)
      PROVE ApiTypes'
  <2>1. [kind |-> "own_transition", d |-> d, c |-> c, to |-> s] \in ApiRequests
    BY DEF ApiRequests
  <2> QED
    BY <1>5, <1>a, <1>b, <2>1, RequestChanges DEF BeginOwnTransition, ApiTypes
<1>6. ASSUME NEW w \in Workers, OwnTransition(w) PROVE ApiTypes'
  <2>1. request[w].d \in Deliveries /\ request[w].to \in Statuses
    BY <1>6, <1>d DEF OwnTransition, ApiRequests
  <2>2. [Next]_vars
    BY <1>6, <2>1 DEF OwnTransition, Next
  <2> QED
    BY <1>6, <1>a, <1>c, <2>2, TypeKept DEF OwnTransition, ApiTypes
<1>7. ASSUME NEW w \in Workers, NEW c \in Couriers, NEW s \in CourierStatuses,
             BeginSetStatus(w, c, s)
      PROVE ApiTypes'
  <2>1. [kind |-> "status", c |-> c, seen |-> courier[c].status, to |-> s,
         checked |-> FALSE, held |-> UnderWayWith(c)] \in ApiRequests
    BY <1>7, <1>a, ExistingTyped DEF BeginSetStatus, ApiRequests, UnderWayWith
  <2> QED
    BY <1>7, <1>a, <1>b, <2>1, RequestChanges DEF BeginSetStatus, ApiTypes
<1>8. ASSUME NEW w \in Workers, CheckSetStatus(w) PROVE ApiTypes'
  <2>1. request[w].kind = "status" => [request[w] EXCEPT !.checked = TRUE] \in ApiRequests
    BY <1>d DEF ApiRequests
  <2>2. request' \in [Workers -> ApiRequests]
    BY <1>8, <1>a, <1>c, <2>1 DEF CheckSetStatus
  <2> QED
    BY <1>8, <1>a, <1>b, <2>2 DEF CheckSetStatus, ApiTypes
<1>9. ASSUME NEW c \in Couriers, NEW s \in CourierStatuses, WriteStatus(c, s)
      PROVE  TypeOK' /\ edits' \in Nat /\ deletes' \in Nat
  BY <1>9, <1>a DEF WriteStatus, TypeOK, CourierRow
<1>10. ASSUME NEW w \in Workers, SaveSetStatus(w) \/ SaveLogin(w) \/ SaveProfile(w)
       PROVE ApiTypes'
  <2>1. CASE SaveLogin(w)
    <3>1. request[w].c \in Couriers /\ "available" \in CourierStatuses
      BY <2>1, <1>d DEF SaveLogin, ApiRequests, CourierStatuses
    <3> QED
      BY <2>1, <1>a, <1>b, <1>c, <1>9, <3>1 DEF SaveLogin, ApiTypes
  <2>2. CASE SaveSetStatus(w) \/ SaveProfile(w)
    <3>1. request[w].c \in Couriers /\ request[w].to \in CourierStatuses
      BY <2>2, <1>d DEF SaveSetStatus, SaveProfile, ApiRequests
    <3> QED
      BY <2>2, <1>c, <1>9, <3>1 DEF SaveSetStatus, SaveProfile, ApiTypes
  <2> QED
    BY <1>10, <2>1, <2>2
<1>11. ASSUME NEW w \in Workers, NEW c \in Couriers, BeginLogin(w, c) PROVE ApiTypes'
  <2>1. [kind |-> "login", c |-> c, seen |-> courier[c].status] \in ApiRequests
    BY <1>11, <1>a, ExistingTyped DEF BeginLogin, ApiRequests, Exists
  <2> QED
    BY <1>11, <1>a, <1>b, <2>1, RequestChanges DEF BeginLogin, ApiTypes
<1>12. ASSUME NEW w \in Workers, NEW c \in Couriers, NEW s \in CourierStatuses,
              BeginProfile(w, c, s)
       PROVE ApiTypes'
  <2>1. [kind |-> "profile", c |-> c, to |-> s] \in ApiRequests
    BY DEF ApiRequests
  <2> QED
    BY <1>12, <1>a, <1>b, <2>1, RequestChanges DEF BeginProfile, ApiTypes
<1>13. ASSUME NEW w \in Workers, NEW c \in Couriers, BeginEditCourier(w, c) PROVE ApiTypes'
  <2>1. PICK new \in ExistingCourier :
          request' = [request EXCEPT ![w] = [kind |-> "edit_courier", c |-> c, row |-> new]]
    BY <1>13, <1>a, CourierEdit
  <2>3. [kind |-> "edit_courier", c |-> c, row |-> new] \in ApiRequests
    BY DEF ApiRequests
  <2> QED
    BY <1>13, <1>a, <1>b, <2>1, <2>3, RequestChanges DEF BeginEditCourier, ApiTypes
<1>14. ASSUME NEW w \in Workers, SaveCourier(w) PROVE ApiTypes'
  <2>1. request[w].c \in Couriers /\ request[w].row \in CourierRow
    BY <1>14, <1>d DEF SaveCourier, ApiRequests, CourierRow, ExistingCourier
  <2>2. TypeOK'
    BY <1>14, <1>a, <2>1 DEF SaveCourier, TypeOK
  <2> QED
    BY <1>14, <1>a, <1>c, <2>2 DEF SaveCourier, ApiTypes
<1>15. ASSUME NEW c \in Couriers, DeleteCourier(c) PROVE ApiTypes'
  <2>1. NoCourier \in CourierRow
    BY DEF NoCourier, CourierRow
  <2>2. delivery' \in [Deliveries -> DeliveryRow]
    <3>1. \A d \in Deliveries : [delivery[d] EXCEPT !.courier = None] \in DeliveryRow
      BY <1>a DEF TypeOK, DeliveryRow
    <3> QED
      BY <1>15, <1>a, <3>1 DEF DeleteCourier, TypeOK
  <2>3. TypeOK'
    BY <1>15, <1>a, <2>1, <2>2 DEF DeleteCourier, TypeOK
  <2> QED
    BY <1>15, <1>a, <2>3 DEF DeleteCourier, ApiTypes
<1>16. CASE UNCHANGED allVars
  BY <1>16, <1>a, <1>b DEF allVars, apiVars, ApiTypes
<1> QED
  BY <1>1, <1>2, <1>3, <1>4, <1>5, <1>6, <1>7, <1>8, <1>10, <1>11, <1>12, <1>13, <1>14,
     <1>15, <1>16 DEF ApiNext, DeliveryRequests, CourierRequests

LEMMA ApiInitTyped == ApiInit => ApiTypes
<1> SUFFICES ASSUME ApiInit PROVE ApiTypes
  OBVIOUS
<1>1. courier \in [Couriers -> CourierRow]
  <2>1. PICK staff \in SUBSET Couriers :
          courier \in {[c \in Couriers |-> IF c \in staff THEN row[c] ELSE NoCourier] :
                       row \in [staff -> [status : {"offline"}, branch : Branches \cup {None}]]}
    BY DEF ApiInit
  <2>2. PICK row \in [staff -> [status : {"offline"}, branch : Branches \cup {None}]] :
          courier = [c \in Couriers |-> IF c \in staff THEN row[c] ELSE NoCourier]
    BY <2>1
  <2> QED
    BY <2>2 DEF CourierRow, NoCourier, CourierStatuses
<1>2. NoDelivery \in DeliveryRow
  BY DEF NoDelivery, DeliveryRow
<1>3. TypeOK
  BY <1>1, <1>2 DEF ApiInit, TypeOK, Creation
<1> QED
  BY <1>3, NoRequestTyped DEF ApiInit, ApiTypes

\* The tables keep their types, and so do the copies that requests hold.
THEOREM ApiTypeCorrect == ApiSpec => []ApiTypes
BY ApiInitTyped, ApiTypeKept, PTL DEF ApiSpec

-------------------------------------------------------------------------------
(* Rows of deliveries and the copies of them that edits hold.              *)

Edits(w, d) == request[w].kind = "edit_delivery" /\ request[w].d = d

\* The row of a delivery, and the copies that are about to be saved over it.
Versions(d) == {delivery[d]} \cup {request[w].row : w \in {v \in Workers : Edits(v, d)}}

\* Steps that neither write a delivery nor begin the edit of one.
LEMMA VersionsStay ==
  ASSUME NEW d \in Deliveries, delivery' = delivery,
         \A w \in Workers : request'[w] = request[w] \/ request'[w].kind # "edit_delivery"
  PROVE  Versions(d)' \subseteq Versions(d)
BY DEF Versions, Edits

\* The requests that concern couriers, and the start of a courier's own transition.
LEMMA CourierSteps ==
  ASSUME ApiTypes,
         \/ CourierRequests /\ ~ \E c \in Couriers : DeleteCourier(c)
         \/ \E w \in Workers, c \in Couriers, d \in Deliveries, s \in Statuses :
              BeginOwnTransition(w, c, d, s)
  PROVE  /\ UNCHANGED <<delivery, timeline, creation, outcomes, offered, deletes, load>>
         /\ \A w \in Workers : request'[w] = request[w] \/ request'[w].kind # "edit_delivery"
<1> USE DEF Accept, Reply, Handling, vars
<1>1. ASSUME NEW w \in Workers, NEW r, r.kind # "edit_delivery",
             request' = [request EXCEPT ![w] = r]
      PROVE  \A v \in Workers : request'[v] = request[v] \/ request'[v].kind # "edit_delivery"
  BY <1>1 DEF ApiTypes
<1>2. ASSUME NEW w \in Workers, Reply(w)
      PROVE  \A v \in Workers : request'[v] = request[v] \/ request'[v].kind # "edit_delivery"
  BY <1>1, <1>2, NoRequestTyped
<1>3. ASSUME NEW w \in Workers, NEW c \in Couriers, NEW d \in Deliveries, NEW s \in Statuses,
             BeginOwnTransition(w, c, d, s)
      PROVE  /\ UNCHANGED <<delivery, timeline, creation, outcomes, offered, deletes, load>>
             /\ \A v \in Workers : request'[v] = request[v] \/ request'[v].kind # "edit_delivery"
  BY <1>1, <1>3 DEF BeginOwnTransition
<1>4. ASSUME NEW w \in Workers, NEW c \in Couriers, NEW s \in CourierStatuses,
             BeginSetStatus(w, c, s) \/ BeginProfile(w, c, s)
      PROVE  /\ UNCHANGED <<delivery, timeline, creation, outcomes, offered, deletes, load>>
             /\ \A v \in Workers : request'[v] = request[v] \/ request'[v].kind # "edit_delivery"
  BY <1>1, <1>4 DEF BeginSetStatus, BeginProfile
<1>5. ASSUME NEW w \in Workers, NEW c \in Couriers, BeginLogin(w, c)
      PROVE  /\ UNCHANGED <<delivery, timeline, creation, outcomes, offered, deletes, load>>
             /\ \A v \in Workers : request'[v] = request[v] \/ request'[v].kind # "edit_delivery"
  BY <1>1, <1>5 DEF BeginLogin
<1>6. ASSUME NEW w \in Workers, NEW c \in Couriers, BeginEditCourier(w, c)
      PROVE  /\ UNCHANGED <<delivery, timeline, creation, outcomes, offered, deletes, load>>
             /\ \A v \in Workers : request'[v] = request[v] \/ request'[v].kind # "edit_delivery"
  <2>1. PICK new : request' = [request EXCEPT ![w] = [kind |-> "edit_courier", c |-> c, row |-> new]]
    BY <1>6, CourierEdit DEF ApiTypes
  <2> QED
    BY <1>1, <1>6, <2>1 DEF BeginEditCourier
<1>7. ASSUME NEW w \in Workers, CheckSetStatus(w)
      PROVE  /\ UNCHANGED <<delivery, timeline, creation, outcomes, offered, deletes, load>>
             /\ \A v \in Workers : request'[v] = request[v] \/ request'[v].kind # "edit_delivery"
  <2>1. \/ Reply(w)
        \/ request' = [request EXCEPT ![w].checked = TRUE]
    BY <1>7 DEF CheckSetStatus
  <2>2. request[w].kind = "status" /\ UNCHANGED <<vars, edits, deletes, load>>
    BY <1>7 DEF CheckSetStatus
  <2>3. [request[w] EXCEPT !.checked = TRUE].kind = "status"
    BY <2>2 DEF ApiTypes, ApiRequests
  <2> QED
    BY <1>1, <1>2, <2>1, <2>2, <2>3 DEF ApiTypes
<1>8. ASSUME NEW w \in Workers, SaveSetStatus(w) \/ SaveLogin(w) \/ SaveProfile(w) \/ SaveCourier(w)
      PROVE  /\ UNCHANGED <<delivery, timeline, creation, outcomes, offered, deletes, load>>
             /\ \A v \in Workers : request'[v] = request[v] \/ request'[v].kind # "edit_delivery"
  BY <1>2, <1>8 DEF SaveSetStatus, SaveLogin, SaveProfile, SaveCourier, WriteStatus
<1> QED
  BY <1>3, <1>4, <1>5, <1>6, <1>7, <1>8 DEF CourierRequests

StatusIsKept == "status" \notin Editable

\* The timeline has an event of all that the row says: of its stamps, which are
\* read-only, and of its status if no edit sets that.
Covers(d, row) ==
  /\ row.stamps \subseteq timeline[d]
  /\ StatusIsKept =>
       \/ row.status \in timeline[d] \cup {Absent}
       \/ creation[d].step = "inserted" /\ row.status = creation[d].status

Sound(d, row) ==
  /\ StatusIsKept => StampsMatch(row)
  /\ deletes = 0 => Covers(d, row)

\* Every version of a delivery is consistent, and within the timeline: saving
\* any of them forgets what happened, and makes nothing up.
VersionsSound == \A d \in Deliveries : \A row \in Versions(d) : Sound(d, row)

\* What is on the timeline stays there, and what create_delivery is about to
\* write is in the end.
Grows(d) ==
  deletes' = 0 =>
    /\ deletes = 0 /\ timeline[d] \subseteq timeline'[d]
    /\ creation[d].step = "inserted" =>
         /\ creation'[d].status = creation[d].status
         /\ creation'[d].step = "inserted" \/ creation[d].status \in timeline'[d]

LEMMA VersionsStaySound ==
  ASSUME VersionsSound,
         \A d \in Deliveries :
           /\ Grows(d)
           /\ \A row \in Versions(d)' : row \in Versions(d) \/ Sound(d, row)'
  PROVE  VersionsSound'
<1>1. \A d \in Deliveries : \A row : Sound(d, row) /\ Grows(d) => Sound(d, row)'
  BY DEF Sound, Covers, Grows
<1> QED
  BY <1>1 DEF VersionsSound

\* A step that writes one row of the table and begins no edit.
LEMMA VersionsAfter ==
  ASSUME TypeOK, NEW d \in Deliveries, NEW new,
         delivery' = [delivery EXCEPT ![d] = new],
         \A w \in Workers : request'[w] = request[w] \/ request'[w].kind # "edit_delivery"
  PROVE  \A e \in Deliveries :
           Versions(e)' \subseteq Versions(e) \cup (IF e = d THEN {new} ELSE {})
BY DEF TypeOK, Versions, Edits

\* The calls of the service write a sound row, or none.
LEMMA ServiceKeepsSound ==
  ASSUME ApiTypes, VersionsSound, [Next]_vars, deletes' = deletes,
         \A w \in Workers : request'[w] = request[w] \/ request'[w].kind # "edit_delivery"
  PROVE  VersionsSound'
<1>a. TypeOK /\ \A d \in Deliveries : Sound(d, delivery[d])
  BY DEF ApiTypes, VersionsSound, Versions
<1>1. ASSUME NEW d \in Deliveries, NEW s \in InitialStatuses,
             NEW b \in Branches \cup {None}, InsertDelivery(d, s, b)
      PROVE  VersionsSound'
  <2>a. PICK new : new = Inserted(s, b)
    OBVIOUS
  <2>1. /\ delivery' = [delivery EXCEPT ![d] = new] /\ timeline' = timeline
        /\ creation[d] = NotCalled
        /\ \A e \in Deliveries : creation'[e] = IF e = d THEN [step |-> "inserted", status |-> s]
                                                         ELSE creation[e]
    BY <1>1, <1>a, <2>a DEF InsertDelivery, TypeOK
  <2>2. Sound(d, new)'
    BY <2>a, <2>1 DEF Sound, Covers, StampsMatch, Inserted, InitialStatuses, Terminal, UnderWay
  <2>3. \A e \in Deliveries : Grows(e)
    BY <2>1 DEF Grows, NotCalled
  <2>4. \A e \in Deliveries :
          Versions(e)' \subseteq Versions(e) \cup (IF e = d THEN {new} ELSE {})
    BY <1>a, <2>1, VersionsAfter
  <2> QED
    BY <2>2, <2>3, <2>4, VersionsStaySound
<1>2. ASSUME NEW d \in Deliveries, LogCreation(d) \/ AnnounceCreation(d)
      PROVE  VersionsSound'
  <2>1. delivery' = delivery
    BY <1>2 DEF LogCreation, AnnounceCreation
  <2>2. \A e \in Deliveries : Grows(e)
    <3>1. creation[d] \in [step : {"inserted", "logged", "announced"}, status : InitialStatuses]
      BY <1>2, <1>a DEF LogCreation, AnnounceCreation, TypeOK, Creation, NotCalled
    <3>2. /\ creation'[d].status = creation[d].status
          /\ creation[d].step = "inserted" => creation[d].status \in timeline'[d]
      BY <1>2, <1>a, <3>1 DEF LogCreation, AnnounceCreation, TypeOK
    <3>3. \A e \in Deliveries : timeline[e] \subseteq timeline'[e] /\ (e # d => creation'[e] = creation[e])
      BY <1>2, <1>a DEF LogCreation, AnnounceCreation, TypeOK
    <3> QED
      BY <3>2, <3>3 DEF Grows
  <2> QED
    BY <2>1, <2>2, VersionsStay, VersionsStaySound
<1>3. ASSUME NEW d \in Deliveries, NEW c \in Couriers, AssignCourier(d, c)
      PROVE  VersionsSound'
  <2>1. PICK new : new = Assigned(delivery[d], c)
    OBVIOUS
  <2>2. /\ delivery' = [delivery EXCEPT ![d] = new]
        /\ timeline' = [timeline EXCEPT ![d] = @ \cup {"assigned"}] /\ creation' = creation
        /\ delivery[d].status \in Statuses
    BY <1>3, <2>1 DEF AssignCourier, CanAssign
  <2>3. new.stamps = delivery[d].stamps /\ new.status \in {delivery[d].status, "assigned"}
    BY <1>a, <2>1 DEF Assigned, TypeOK, DeliveryRow
  <2>4. Sound(d, new)'
    <3>1. StatusIsKept => StampsMatch(new)
      BY <1>a, <2>1, <2>2, StampsStayMatched DEF TypeOK, Sound
    <3>2. timeline'[d] = timeline[d] \cup {"assigned"}
      BY <1>a, <2>2 DEF TypeOK
    <3> QED
      BY <1>a, <2>2, <2>3, <3>1, <3>2 DEF Sound, Covers
  <2>5. \A e \in Deliveries : Grows(e)
    BY <1>a, <2>2 DEF Grows, TypeOK
  <2> QED
    BY <1>a, <2>2, <2>4, <2>5, VersionsAfter, VersionsStaySound
<1>4. ASSUME NEW d \in Deliveries, NEW s \in Statuses, TransitionDelivery(d, s)
      PROVE  VersionsSound'
  <2>1. PICK new : new = Moved(delivery[d], s)
    OBVIOUS
  <2>2. /\ delivery' = [delivery EXCEPT ![d] = new]
        /\ timeline' = [timeline EXCEPT ![d] = @ \cup {s}] /\ creation' = creation
        /\ delivery[d].status \in Statuses /\ s \in VALID_TRANSITIONS[delivery[d].status]
    BY <1>4, <1>a, <2>1 DEF TransitionDelivery, Allowed, TypeOK, DeliveryRow
  <2>3. new.stamps = delivery[d].stamps \cup ({s} \cap Stamped) /\ new.status = s
    BY <1>a, <2>1 DEF Moved, TypeOK, DeliveryRow
  <2>4. Sound(d, new)'
    <3>1. StatusIsKept => StampsMatch(new)
      BY <1>a, <2>1, <2>2, StampsStayMatched DEF TypeOK, Sound
    <3>2. timeline'[d] = timeline[d] \cup {s}
      BY <1>a, <2>2 DEF TypeOK
    <3> QED
      BY <1>a, <2>2, <2>3, <3>1, <3>2 DEF Sound, Covers
  <2>5. \A e \in Deliveries : Grows(e)
    BY <1>a, <2>2 DEF Grows, TypeOK
  <2> QED
    BY <1>a, <2>2, <2>4, <2>5, VersionsAfter, VersionsStaySound
<1>5. CASE UNCHANGED vars
  BY <1>5, VersionsStay, VersionsStaySound DEF vars, Grows
<1> QED
  BY <1>1, <1>2, <1>3, <1>4, <1>5 DEF Next

\* Edits keep every version sound, and so do deletions and the requests that
\* concern couriers.
LEMMA ApiKeepsSound ==
  ASSUME ApiTypes, VersionsSound, [ApiNext]_allVars
  PROVE  VersionsSound'
<1> USE DEF Accept, Reply, Handling
<1>a. TypeOK /\ \A d \in Deliveries : Sound(d, delivery[d])
  BY DEF ApiTypes, VersionsSound, Versions
<1>b. \A w \in Workers : request[w] \in ApiRequests
  BY DEF ApiTypes
<1>c. ASSUME NEW w \in Workers, Reply(w)
      PROVE  \A v \in Workers : request'[v] = request[v] \/ request'[v].kind # "edit_delivery"
  BY <1>c, NoRequestTyped DEF ApiTypes
<1>1. CASE ServiceCall
  BY <1>1, ServiceKeepsSound DEF ServiceCall, apiVars
<1>2. ASSUME NEW w \in Workers, OwnTransition(w) PROVE VersionsSound'
  <2>1. request[w].d \in Deliveries /\ request[w].to \in Statuses
    BY <1>2, <1>b DEF OwnTransition, ApiRequests
  <2>2. [Next]_vars
    BY <1>2, <2>1 DEF OwnTransition, Next
  <2> QED
    BY <1>2, <1>c, <2>2, ServiceKeepsSound DEF OwnTransition
<1>3. ASSUME NEW w \in Workers, NEW d \in Deliveries, BeginEditDelivery(w, d) PROVE VersionsSound'
  <2>1. PICK new \in DeliveryRow :
          /\ request' = [request EXCEPT ![w] = [kind |-> "edit_delivery", d |-> d, row |-> new]]
          /\ new.stamps = delivery[d].stamps
          /\ StatusIsKept => new.status = delivery[d].status
    BY <1>3, <1>a, DeliveryEdit DEF StatusIsKept
  <2>2. UNCHANGED <<delivery, timeline, creation, deletes>>
    BY <1>3 DEF BeginEditDelivery, vars
  <2>3. Sound(d, new)
    BY <1>a, <2>1 DEF Sound, Covers, StampsMatch
  <2>4. \A e \in Deliveries : Grows(e) /\ Versions(e)' \subseteq Versions(e) \cup (IF e = d THEN {new} ELSE {})
    BY <2>1, <2>2 DEF Grows, Versions, Edits, ApiTypes
  <2>5. Sound(d, new)'
    BY <2>2, <2>3 DEF Sound, Covers
  <2> QED
    BY <2>4, <2>5, VersionsStaySound
<1>4. ASSUME NEW w \in Workers, SaveDelivery(w) PROVE VersionsSound'
  <2>1. /\ request[w].kind = "edit_delivery" /\ request[w].d \in Deliveries
        /\ UNCHANGED <<timeline, creation, deletes>>
        /\ delivery' = delivery \/ delivery' = [delivery EXCEPT ![request[w].d] = request[w].row]
    BY <1>4, <1>b DEF SaveDelivery, ApiRequests
  <2>2. request[w].row \in Versions(request[w].d)
    BY <2>1 DEF Versions, Edits
  <2>3. PICK d \in Deliveries : \E new \in Versions(d) :
          delivery' = delivery \/ delivery' = [delivery EXCEPT ![d] = new]
    BY <2>1, <2>2
  <2>4. \A v \in Workers : request'[v] = request[v] \/ request'[v].kind # "edit_delivery"
    BY <1>4, <1>c DEF SaveDelivery
  <2>5. \A e \in Deliveries : Versions(e)' \subseteq Versions(e)
    BY <1>a, <2>3, <2>4, VersionsStay, VersionsAfter
  <2>6. \A e \in Deliveries : Grows(e)
    BY <2>1 DEF Grows
  <2> QED
    BY <2>5, <2>6, VersionsStaySound
<1>5. ASSUME NEW d \in Deliveries, DeleteDelivery(d) PROVE VersionsSound'
  <2>1. /\ delivery' = [delivery EXCEPT ![d] = NoDelivery] /\ request' = request
        /\ deletes' # 0
    BY <1>5 DEF DeleteDelivery, ApiTypes
  <2>2. Sound(d, NoDelivery)'
    BY <2>1 DEF Sound, StampsMatch, NoDelivery, Absent, Terminal, UnderWay
  <2>3. \A e \in Deliveries : Grows(e)
    BY <2>1 DEF Grows
  <2> QED
    BY <1>a, <2>1, <2>2, <2>3, VersionsAfter, VersionsStaySound
<1>6. ASSUME NEW c \in Couriers, DeleteCourier(c) PROVE VersionsSound'
  <2>1. request' = request /\ deletes' # 0
    BY <1>6 DEF DeleteCourier, ApiTypes
  <2>2. \A d \in Deliveries : delivery'[d].stamps = delivery[d].stamps /\ delivery'[d].status = delivery[d].status
    BY <1>6, <1>a DEF DeleteCourier, TypeOK, DeliveryRow
  <2>3. \A d \in Deliveries : StatusIsKept => StampsMatch(delivery'[d])
    BY <1>a, <2>2 DEF Sound, StampsMatch
  <2>4. \A d \in Deliveries : Grows(d) /\ \A row \in Versions(d)' : row \in Versions(d) \/ row = delivery'[d]
    BY <2>1 DEF Grows, Versions, Edits
  <2>5. \A d \in Deliveries : \A row \in Versions(d)' : row \in Versions(d) \/ Sound(d, row)'
    BY <2>1, <2>3, <2>4 DEF Sound
  <2> QED
    BY <2>4, <2>5, VersionsStaySound
<1>7. CASE \/ CourierRequests /\ ~ \E c \in Couriers : DeleteCourier(c)
           \/ \E w \in Workers, c \in Couriers, d \in Deliveries, s \in Statuses :
                BeginOwnTransition(w, c, d, s)
  BY <1>7, CourierSteps, VersionsStay, VersionsStaySound DEF Grows
<1>8. CASE UNCHANGED allVars
  BY <1>8, VersionsStay, VersionsStaySound DEF allVars, apiVars, vars, Grows
<1> QED
  BY <1>1, <1>2, <1>3, <1>4, <1>5, <1>6, <1>7, <1>8 DEF ApiNext, DeliveryRequests

LEMMA ApiInitSound == ApiInit => VersionsSound
BY DEF ApiInit, VersionsSound, Versions, Edits, NoRequest, Sound, Covers, StampsMatch,
   NoDelivery, Absent, Terminal, UnderWay

\* Unless an edit sets the status, the stamps of a row tell the same story as
\* its status, although edits save copies that are older than the row.
THEOREM StampsSurviveEdits ==
  ASSUME "status" \notin Editable
  PROVE  ApiSpec => []StampsTellStatus
<1>1. VersionsSound => StampsTellStatus
  BY DEF VersionsSound, Versions, Sound, StampsTellStatus, StatusIsKept
<1>2. ApiTypes /\ VersionsSound /\ [ApiNext]_allVars => VersionsSound'
  BY ApiKeepsSound
<1>3. QED
  BY <1>1, <1>2, ApiInitSound, ApiTypeCorrect, PTL DEF ApiSpec

\* Whatever edits set, each stamp of a row that was not deleted has its event.
THEOREM StampsAreLogged ==
  ApiSpec => [](deletes = 0 => \A d \in Deliveries : delivery[d].stamps \subseteq timeline[d])
<1>1. VersionsSound =>
        (deletes = 0 => \A d \in Deliveries : delivery[d].stamps \subseteq timeline[d])
  BY DEF VersionsSound, Versions, Sound, Covers
<1>2. ApiTypes /\ VersionsSound /\ [ApiNext]_allVars => VersionsSound'
  BY ApiKeepsSound
<1>3. QED
  BY <1>1, <1>2, ApiInitSound, ApiTypeCorrect, PTL DEF ApiSpec

\* Unless an edit sets the status or a delivery was deleted, the timeline has an
\* event of all that the row says, whatever copies were saved.
THEOREM TimelineAlwaysCovers ==
  ASSUME "status" \notin Editable
  PROVE  ApiSpec => []TimelineCoversRow
<1>1. VersionsSound => TimelineCoversRow
  BY DEF VersionsSound, Versions, Sound, Covers, TimelineCoversRow, StatusIsKept
<1>2. ApiTypes /\ VersionsSound /\ [ApiNext]_allVars => VersionsSound'
  BY ApiKeepsSound
<1>3. QED
  BY <1>1, <1>2, ApiInitSound, ApiTypeCorrect, PTL DEF ApiSpec

-------------------------------------------------------------------------------
(* The branch of a delivery and of its courier.                            *)

EditsCourier(w, c) == request[w].kind = "edit_courier" /\ request[w].c = c

\* The row of a courier, if it is there, and the copies that would replace it.
CourierVersions(c) ==
  {x \in {courier[c]} : x.status # Absent}
    \cup {request[w].row : w \in {v \in Workers : EditsCourier(v, c)}}

\* The row names no courier, or one of whom every version has a branch that fits.
Fits(row) ==
  row.courier # None =>
    \A x \in CourierVersions(row.courier) :
      row.branch = None \/ x.branch = None \/ row.branch = x.branch

BranchesAreKept == Editable \cap {"courier", "branch", "courier_branch"} = {}

\* Unless edits set them, a courier who is deleted and saved again is of the
\* branch he was, and every version of a delivery fits its courier.  In any case
\* a delivery's courier is there.
BranchesFit ==
  /\ BranchesAreKept =>
       /\ \A c \in Couriers : \A x, y \in CourierVersions(c) : x.branch = y.branch
       /\ \A d \in Deliveries : \A row \in Versions(d) : Fits(row)
  /\ \A d \in Deliveries : delivery[d].courier # None => Exists(delivery[d].courier)

NoNewBranch ==
  \A c \in Couriers : \A x \in CourierVersions(c)' :
    \E y \in CourierVersions(c) : y.branch = x.branch

\* A courier's row moves to no other branch, and no edit of one begins.
LEMMA CouriersStay ==
  ASSUME \A c \in Couriers : courier'[c].status # Absent =>
           courier[c].status # Absent /\ courier'[c].branch = courier[c].branch,
         \A w \in Workers : request'[w] = request[w] \/ request'[w].kind # "edit_courier"
  PROVE  NoNewBranch
<1> SUFFICES ASSUME NEW c \in Couriers, NEW x \in CourierVersions(c)'
             PROVE  \E y \in CourierVersions(c) : y.branch = x.branch
  BY DEF NoNewBranch
<1>1. CASE x = courier'[c] /\ x.status # Absent
  <2>1. courier[c] \in CourierVersions(c)
    BY <1>1 DEF CourierVersions
  <2> QED
    BY <1>1, <2>1
<1>2. CASE \E w \in Workers : EditsCourier(w, c)' /\ x = request'[w].row
  <2>1. PICK w \in Workers : EditsCourier(w, c)' /\ x = request'[w].row
    BY <1>2
  <2>2. EditsCourier(w, c) /\ x = request[w].row
    BY <2>1 DEF EditsCourier
  <2> QED
    BY <2>2 DEF CourierVersions
<1> QED
  BY <1>1, <1>2 DEF CourierVersions

LEMMA FitsStays ==
  ASSUME NoNewBranch, NEW row \in DeliveryRow, Fits(row)
  PROVE  Fits(row)'
<1>1. row.courier \in Couriers \cup {None}
  BY DEF DeliveryRow
<1> QED
  BY <1>1 DEF Fits, NoNewBranch

LEMMA VersionsTyped ==
  ASSUME ApiTypes, NEW d \in Deliveries
  PROVE  Versions(d) \subseteq DeliveryRow /\ delivery[d] \in Versions(d)
BY DEF ApiTypes, ApiRequests, TypeOK, Versions, Edits

LEMMA BranchesStayFit ==
  ASSUME ApiTypes, BranchesFit, BranchesAreKept => NoNewBranch,
         \A d \in Deliveries : \A row \in Versions(d)' : BranchesAreKept =>
           row \in Versions(d) \/ (row \in DeliveryRow /\ Fits(row)),
         \A d \in Deliveries : delivery'[d].courier # None =>
           courier'[delivery'[d].courier].status # Absent
  PROVE  BranchesFit'
<1>1. BranchesAreKept =>
        \A c \in Couriers : \A x, y \in CourierVersions(c)' : x.branch = y.branch
  BY DEF BranchesFit, NoNewBranch
<1>2. BranchesAreKept => \A d \in Deliveries : \A row \in Versions(d)' : Fits(row)'
  <2> SUFFICES ASSUME BranchesAreKept, NEW d \in Deliveries, NEW row \in Versions(d)'
               PROVE  Fits(row)'
    OBVIOUS
  <2>1. row \in DeliveryRow /\ Fits(row)
    BY VersionsTyped DEF BranchesFit
  <2> QED
    BY <2>1, FitsStays
<1> QED
  BY <1>1, <1>2 DEF BranchesFit, Exists

\* A step that writes one row of the table, of a courier who is there, and
\* moves no courier to another branch.
LEMMA OneRowFits ==
  ASSUME ApiTypes, BranchesFit,
         \A c \in Couriers : /\ courier'[c].branch = courier[c].branch
                             /\ courier[c].status # Absent => courier'[c].status # Absent
                             /\ courier'[c].status # Absent => courier[c].status # Absent,
         \A w \in Workers : request'[w] = request[w] \/ request'[w].kind = "none",
         NEW d \in Deliveries, NEW new \in DeliveryRow,
         delivery' = [delivery EXCEPT ![d] = new],
         BranchesAreKept => new \in Versions(d) \/ Fits(new),
         new.courier # None => Exists(new.courier)
  PROVE  BranchesFit'
<1>1. NoNewBranch
  BY CouriersStay
<1>2. \A e \in Deliveries : Versions(e)' \subseteq Versions(e) \cup (IF e = d THEN {new} ELSE {})
  BY VersionsAfter DEF ApiTypes
<1>3. \A e \in Deliveries : \A row \in Versions(e)' : BranchesAreKept =>
        row \in Versions(e) \/ (row \in DeliveryRow /\ Fits(row))
  <2> SUFFICES ASSUME NEW e \in Deliveries, NEW x \in Versions(e)', BranchesAreKept
               PROVE  x \in Versions(e) \/ (x \in DeliveryRow /\ Fits(x))
    OBVIOUS
  <2>1. x \in Versions(e) \/ (e = d /\ x = new)
    BY <1>2
  <2> QED
    BY <2>1
<1>4. \A e \in Deliveries : delivery'[e].courier # None =>
        courier'[delivery'[e].courier].status # Absent
  <2>1. \A e \in Deliveries : delivery'[e].courier \in Couriers \cup {None}
    BY DEF ApiTypes, TypeOK, DeliveryRow
  <2>2. \A e \in Deliveries : delivery'[e].courier # None => Exists(delivery'[e].courier)
    BY DEF BranchesFit, ApiTypes, TypeOK
  <2> QED
    BY <2>1, <2>2 DEF Exists
<1> QED
  BY <1>1, <1>3, <1>4, BranchesStayFit

\* A step that leaves the deliveries alone, keeps every courier's branch and
\* begins no edit.
LEMMA NoRowFits ==
  ASSUME ApiTypes, BranchesFit, delivery' = delivery, BranchesAreKept => NoNewBranch,
         \A c \in Couriers : courier[c].status # Absent => courier'[c].status # Absent,
         \A w \in Workers : request'[w] = request[w] \/ request'[w].kind # "edit_delivery"
  PROVE  BranchesFit'
<1>1. \A d \in Deliveries : delivery[d].courier \in Couriers \cup {None}
  BY DEF ApiTypes, TypeOK, DeliveryRow
<1>2. \A d \in Deliveries : delivery'[d].courier # None =>
        courier'[delivery'[d].courier].status # Absent
  BY <1>1 DEF BranchesFit, Exists
<1>3. \A d \in Deliveries : \A x \in Versions(d)' : x \in Versions(d)
  BY VersionsStay
<1> QED
  BY <1>2, <1>3, BranchesStayFit

LEMMA ServiceKeepsFit ==
  ASSUME ApiTypes, BranchesFit, [Next]_vars,
         \A w \in Workers : request'[w] = request[w] \/ request'[w].kind = "none"
  PROVE  BranchesFit'
<1>a. TypeOK
  BY DEF ApiTypes
<1>b. \A d \in Deliveries : delivery[d] \in DeliveryRow
  BY <1>a DEF TypeOK
<1>d. BranchesAreKept => \A d \in Deliveries : Fits(delivery[d])
  BY VersionsTyped DEF BranchesFit
<1>c. courier' = courier =>
        \A c \in Couriers : /\ courier'[c].branch = courier[c].branch
                            /\ courier[c].status # Absent => courier'[c].status # Absent
                            /\ courier'[c].status # Absent => courier[c].status # Absent
  OBVIOUS
<1>1. ASSUME NEW d \in Deliveries, NEW s \in InitialStatuses,
             NEW b \in Branches \cup {None}, InsertDelivery(d, s, b)
      PROVE  BranchesFit'
  <2>1. PICK new : new = Inserted(s, b)
    OBVIOUS
  <2>2. new \in DeliveryRow /\ new.courier = None
    BY <2>1 DEF Inserted, DeliveryRow, InitialStatuses, Statuses
  <2>3. Fits(new)
    BY <2>2 DEF Fits
  <2>4. delivery' = [delivery EXCEPT ![d] = new] /\ courier' = courier
    BY <1>1, <2>1 DEF InsertDelivery
  <2> QED
    BY <1>c, <2>2, <2>3, <2>4, OneRowFits
<1>2. ASSUME NEW d \in Deliveries, LogCreation(d) \/ AnnounceCreation(d)
      PROVE  BranchesFit'
  <2>1. delivery' = delivery /\ courier' = courier
    BY <1>2 DEF LogCreation, AnnounceCreation
  <2>2. NoNewBranch
    BY <2>1, CouriersStay
  <2> QED
    BY <1>c, <2>1, <2>2, NoRowFits
<1>3. ASSUME NEW d \in Deliveries, NEW c \in Couriers, AssignCourier(d, c)
      PROVE  BranchesFit'
  <2>1. PICK new : new = Assigned(delivery[d], c)
    OBVIOUS
  <2>2. /\ delivery' = [delivery EXCEPT ![d] = new]
        /\ courier' = [courier EXCEPT ![c].status = "delivering"]
        /\ courier[c].status # Absent /\ BranchesAgree(d, c)
    BY <1>3, <2>1 DEF AssignCourier, CanAssign
  <2>3. new \in DeliveryRow /\ new.courier = c /\ new.branch = delivery[d].branch
    BY <1>b, <2>1 DEF Assigned, DeliveryRow, Statuses
  <2>4. BranchesAreKept => Fits(new)
    <3>1. courier[c] \in CourierVersions(c)
      BY <2>2 DEF CourierVersions
    <3>2. BranchesAreKept => \A x \in CourierVersions(c) : x.branch = courier[c].branch
      BY <3>1 DEF BranchesFit
    <3> QED
      BY <2>2, <2>3, <3>2 DEF Fits, BranchesAgree
  <2>5. \A x \in Couriers : /\ courier'[x].branch = courier[x].branch
                            /\ courier[x].status # Absent => courier'[x].status # Absent
                            /\ courier'[x].status # Absent => courier[x].status # Absent
    BY <1>a, <2>2 DEF TypeOK, CourierRow, Absent
  <2>6. Exists(new.courier)
    BY <2>2, <2>3 DEF Exists
  <2> QED
    BY <2>2, <2>3, <2>4, <2>5, <2>6, OneRowFits
<1>4. ASSUME NEW d \in Deliveries, NEW s \in Statuses, TransitionDelivery(d, s)
      PROVE  BranchesFit'
  <2>1. PICK new : new = Moved(delivery[d], s)
    OBVIOUS
  <2>2. delivery' = [delivery EXCEPT ![d] = new] /\ courier' = courier
    BY <1>4, <2>1 DEF TransitionDelivery
  <2>3. /\ new \in DeliveryRow /\ new.courier = delivery[d].courier
        /\ new.branch = delivery[d].branch
    BY <1>b, <2>1 DEF Moved, DeliveryRow
  <2>4. BranchesAreKept => Fits(new)
    BY <1>d, <2>3 DEF Fits
  <2>5. new.courier # None => Exists(new.courier)
    BY <2>3 DEF BranchesFit
  <2> QED
    BY <1>c, <2>2, <2>3, <2>4, <2>5, OneRowFits
<1>5. CASE UNCHANGED vars
  <2>1. delivery' = delivery /\ courier' = courier
    BY <1>5 DEF vars
  <2>2. NoNewBranch
    BY <2>1, CouriersStay
  <2> QED
    BY <1>c, <2>1, <2>2, NoRowFits
<1> QED
  BY <1>1, <1>2, <1>3, <1>4, <1>5 DEF Next

\* Requests that write the status of a courier who is there, and no other row.
LEMMA StatusWriteFits ==
  ASSUME ApiTypes, BranchesFit, NEW c \in Couriers, NEW s \in CourierStatuses,
         WriteStatus(c, s),
         \A w \in Workers : request'[w] = request[w] \/ request'[w].kind = "none"
  PROVE  BranchesFit'
<1>1. \A x \in Couriers : /\ courier'[x].branch = courier[x].branch
                          /\ courier[x].status # Absent <=> courier'[x].status # Absent
  BY DEF ApiTypes, TypeOK, CourierRow, WriteStatus, Exists, CourierStatuses, Absent
<1>2. delivery' = delivery
  BY DEF WriteStatus
<1>3. NoNewBranch
  BY <1>1, CouriersStay
<1> QED
  BY <1>1, <1>2, <1>3, NoRowFits

\* Every version of every row goes on fitting those of the other table.
LEMMA ApiKeepsFit ==
  ASSUME ApiTypes, BranchesFit, [ApiNext]_allVars
  PROVE  BranchesFit'
<1> USE DEF Accept, Reply, Handling
<1>a. /\ TypeOK
      /\ BranchesAreKept => /\ "courier" \notin Editable /\ "branch" \notin Editable
                            /\ "courier_branch" \notin Editable
  BY DEF ApiTypes, BranchesAreKept
<1>b. \A w \in Workers : request[w] \in ApiRequests
  BY DEF ApiTypes
<1>c. ASSUME NEW w \in Workers, Reply(w)
      PROVE  \A v \in Workers : request'[v] = request[v] \/ request'[v].kind = "none"
  BY <1>c, NoRequestTyped DEF ApiTypes
<1>d. \A d \in Deliveries : delivery[d] \in DeliveryRow
  BY <1>a DEF TypeOK
<1>g. BranchesAreKept => \A d \in Deliveries : Fits(delivery[d])
  BY VersionsTyped DEF BranchesFit
<1>e. ASSUME courier' = courier, delivery' = delivery,
             \A w \in Workers : request'[w] = request[w]
                                \/ request'[w].kind \notin {"edit_courier", "edit_delivery"}
      PROVE  BranchesFit'
  <2>1. NoNewBranch
    BY <1>e, CouriersStay
  <2> QED
    BY <1>e, <2>1, NoRowFits
<1>f. ASSUME NEW w \in Workers, NEW r, r.kind \notin {"edit_courier", "edit_delivery"},
             request' = [request EXCEPT ![w] = r], UNCHANGED vars
      PROVE  BranchesFit'
  BY <1>e, <1>f DEF ApiTypes, vars
<1>1. CASE ServiceCall
  BY <1>1, ServiceKeepsFit DEF ServiceCall, apiVars
<1>2. ASSUME NEW w \in Workers, OwnTransition(w) PROVE BranchesFit'
  <2>1. request[w].d \in Deliveries /\ request[w].to \in Statuses
    BY <1>2, <1>b DEF OwnTransition, ApiRequests
  <2>2. [Next]_vars
    BY <1>2, <2>1 DEF OwnTransition, Next
  <2> QED
    BY <1>2, <1>c, <2>2, ServiceKeepsFit DEF OwnTransition
<1>3. ASSUME NEW w \in Workers, NEW d \in Deliveries, BeginEditDelivery(w, d) PROVE BranchesFit'
  <2>1. PICK new \in DeliveryRow :
          /\ request' = [request EXCEPT ![w] = [kind |-> "edit_delivery", d |-> d, row |-> new]]
          /\ BranchesAreKept =>
               new.courier = delivery[d].courier /\ new.branch = delivery[d].branch
    BY <1>3, <1>a, DeliveryEdit
  <2>2. delivery' = delivery /\ courier' = courier
    BY <1>3 DEF BeginEditDelivery, vars
  <2>3. BranchesAreKept => Fits(new)
    BY <1>g, <2>1 DEF Fits
  <2>4. \A e \in Deliveries : \A x \in Versions(e)' : BranchesAreKept =>
          x \in Versions(e) \/ (x \in DeliveryRow /\ Fits(x))
    <3>1. \A e \in Deliveries : Versions(e)' \subseteq Versions(e) \cup {new}
      BY <2>1, <2>2 DEF Versions, Edits, ApiTypes
    <3> QED
      BY <2>3, <3>1
  <2>5. NoNewBranch
    <3>1. \A v \in Workers : request'[v] = request[v] \/ request'[v].kind # "edit_courier"
      BY <2>1 DEF ApiTypes
    <3> QED
      BY <2>2, <3>1, CouriersStay
  <2>6. \A e \in Deliveries : delivery'[e].courier # None =>
          courier'[delivery'[e].courier].status # Absent
    BY <2>2 DEF BranchesFit, Exists
  <2> QED
    BY <2>4, <2>5, <2>6, BranchesStayFit
<1>4. ASSUME NEW w \in Workers, SaveDelivery(w) PROVE BranchesFit'
  <2>1. /\ request[w].kind = "edit_delivery" /\ request[w].d \in Deliveries
        /\ request[w].row \in DeliveryRow
        /\ courier' = courier
        /\ \/ delivery' = delivery
           \/ /\ delivery' = [delivery EXCEPT ![request[w].d] = request[w].row]
              /\ request[w].row.courier # None => Exists(request[w].row.courier)
    BY <1>4, <1>b DEF SaveDelivery, ApiRequests
  <2>2. \A v \in Workers : request'[v] = request[v] \/ request'[v].kind = "none"
    BY <1>4, <1>c DEF SaveDelivery
  <2>3. CASE delivery' = delivery
    BY <1>e, <2>1, <2>2, <2>3
  <2>4. CASE delivery' # delivery
    <3>1. PICK new : new = request[w].row
      OBVIOUS
    <3>2. PICK d : d = request[w].d
      OBVIOUS
    <3>3. new \in Versions(d)
      BY <2>1, <3>1, <3>2 DEF Versions, Edits
    <3>4. \A c \in Couriers : /\ courier'[c].branch = courier[c].branch
                              /\ courier[c].status # Absent => courier'[c].status # Absent
                              /\ courier'[c].status # Absent => courier[c].status # Absent
      BY <2>1
    <3>5. /\ delivery' = [delivery EXCEPT ![d] = new] /\ d \in Deliveries /\ new \in DeliveryRow
          /\ new.courier # None => Exists(new.courier)
      BY <2>1, <2>4, <3>1, <3>2
    <3> QED
      BY <2>2, <3>3, <3>4, <3>5, OneRowFits
  <2> QED
    BY <2>3, <2>4
<1>5. ASSUME NEW d \in Deliveries, DeleteDelivery(d) PROVE BranchesFit'
  <2>1. delivery' = [delivery EXCEPT ![d] = NoDelivery] /\ request' = request /\ courier' = courier
    BY <1>5 DEF DeleteDelivery
  <2>2. NoDelivery \in DeliveryRow /\ NoDelivery.courier = None
    BY DEF NoDelivery, DeliveryRow
  <2>3. Fits(NoDelivery)
    BY <2>2 DEF Fits
  <2>4. \A c \in Couriers : /\ courier'[c].branch = courier[c].branch
                            /\ courier[c].status # Absent => courier'[c].status # Absent
                            /\ courier'[c].status # Absent => courier[c].status # Absent
    BY <2>1
  <2> QED
    BY <2>1, <2>2, <2>3, <2>4, OneRowFits
<1>6. ASSUME NEW c \in Couriers, DeleteCourier(c) PROVE BranchesFit'
  <2>1. /\ request' = request /\ courier' = [courier EXCEPT ![c] = NoCourier]
        /\ \A d \in Deliveries :
             delivery'[d] = IF delivery[d].courier = c
                            THEN [delivery[d] EXCEPT !.courier = None] ELSE delivery[d]
    BY <1>6 DEF DeleteCourier
  <2>2. NoNewBranch
    <3>1. \A x \in Couriers : courier'[x].status # Absent =>
            courier[x].status # Absent /\ courier'[x].branch = courier[x].branch
      BY <1>a, <2>1 DEF TypeOK, NoCourier, Absent
    <3> QED
      BY <2>1, <3>1, CouriersStay
  <2>3. \A d \in Deliveries : /\ delivery'[d] \in DeliveryRow
                              /\ delivery'[d] = delivery[d] \/ delivery'[d].courier = None
                              /\ delivery'[d].courier # c
    BY <1>d, <2>1, ServiceAssumption DEF DeliveryRow
  <2>4. \A d \in Deliveries : \A x \in Versions(d)' : BranchesAreKept =>
          x \in Versions(d) \/ (x \in DeliveryRow /\ Fits(x))
    <3>1. \A d \in Deliveries : \A x \in Versions(d)' : x \in Versions(d) \/ x = delivery'[d]
      BY <2>1 DEF Versions, Edits
    <3>2. \A x : x.courier = None => Fits(x)
      BY DEF Fits
    <3> QED
      BY <1>g, <2>3, <3>1, <3>2
  <2>5. \A d \in Deliveries : delivery'[d].courier # None =>
          courier'[delivery'[d].courier].status # Absent
    <3> SUFFICES ASSUME NEW d \in Deliveries, delivery'[d].courier # None
                 PROVE  courier'[delivery'[d].courier].status # Absent
      OBVIOUS
    <3>1. delivery'[d] = delivery[d] /\ delivery[d].courier \in Couriers \ {c}
      BY <2>3 DEF DeliveryRow
    <3>2. courier[delivery[d].courier].status # Absent
      BY <3>1 DEF BranchesFit, Exists
    <3> QED
      BY <1>a, <2>1, <3>1, <3>2 DEF TypeOK
  <2> QED
    BY <2>2, <2>4, <2>5, BranchesStayFit
<1>7. ASSUME NEW w \in Workers, NEW c \in Couriers, NEW d \in Deliveries, NEW s \in Statuses,
             BeginOwnTransition(w, c, d, s)
      PROVE  BranchesFit'
  BY <1>7, <1>f DEF BeginOwnTransition
<1>8. ASSUME NEW w \in Workers, NEW c \in Couriers, NEW s \in CourierStatuses,
             BeginSetStatus(w, c, s) \/ BeginProfile(w, c, s)
      PROVE  BranchesFit'
  BY <1>8, <1>f DEF BeginSetStatus, BeginProfile
<1>14. ASSUME NEW w \in Workers, NEW c \in Couriers, BeginLogin(w, c) PROVE BranchesFit'
  BY <1>14, <1>f DEF BeginLogin
<1>9. ASSUME NEW w \in Workers, CheckSetStatus(w) PROVE BranchesFit'
  <2>1. Reply(w) \/ request' = [request EXCEPT ![w].checked = TRUE]
    BY <1>9 DEF CheckSetStatus
  <2>2. request[w].kind = "status" /\ UNCHANGED vars
    BY <1>9 DEF CheckSetStatus
  <2>3. [request[w] EXCEPT !.checked = TRUE].kind = "status"
    BY <1>b, <2>2 DEF ApiRequests
  <2> QED
    BY <1>f, <2>1, <2>2, <2>3, NoRequestTyped
<1>10. ASSUME NEW w \in Workers, SaveSetStatus(w) \/ SaveLogin(w) \/ SaveProfile(w)
       PROVE BranchesFit'
  <2>1. \A v \in Workers : request'[v] = request[v] \/ request'[v].kind = "none"
    BY <1>10, <1>c DEF SaveSetStatus, SaveLogin, SaveProfile
  <2>2. CASE SaveLogin(w)
    <3>1. request[w].c \in Couriers /\ "available" \in CourierStatuses
      BY <2>2, <1>b DEF SaveLogin, ApiRequests, CourierStatuses
    <3>2. UNCHANGED vars => BranchesFit'
      BY <1>e, <2>1 DEF vars
    <3> QED
      BY <2>1, <2>2, <3>1, <3>2, StatusWriteFits DEF SaveLogin
  <2>3. CASE SaveSetStatus(w) \/ SaveProfile(w)
    <3>1. request[w].c \in Couriers /\ request[w].to \in CourierStatuses
      BY <2>3, <1>b DEF SaveSetStatus, SaveProfile, ApiRequests
    <3> QED
      BY <2>1, <2>3, <3>1, StatusWriteFits DEF SaveSetStatus, SaveProfile
  <2> QED
    BY <1>10, <2>2, <2>3
<1>11. ASSUME NEW w \in Workers, NEW c \in Couriers, BeginEditCourier(w, c) PROVE BranchesFit'
  <2>1. PICK new \in ExistingCourier :
          /\ request' = [request EXCEPT ![w] = [kind |-> "edit_courier", c |-> c, row |-> new]]
          /\ BranchesAreKept => new.branch = courier[c].branch
    BY <1>11, <1>a, CourierEdit
  <2>2. UNCHANGED vars /\ courier[c].status # Absent
    BY <1>11 DEF BeginEditCourier, Exists
  <2>3. BranchesAreKept => NoNewBranch
    <3>1. \A x \in Couriers : CourierVersions(x)' \subseteq
            CourierVersions(x) \cup (IF x = c THEN {new} ELSE {})
      BY <2>1, <2>2 DEF CourierVersions, EditsCourier, ApiTypes, vars
    <3>2. courier[c] \in CourierVersions(c)
      BY <2>2 DEF CourierVersions
    <3> QED
      BY <2>1, <3>1, <3>2 DEF NoNewBranch
  <2>4. \A v \in Workers : request'[v] = request[v] \/ request'[v].kind # "edit_delivery"
    BY <2>1 DEF ApiTypes
  <2> QED
    BY <2>2, <2>3, <2>4, NoRowFits DEF vars
<1>12. ASSUME NEW w \in Workers, SaveCourier(w) PROVE BranchesFit'
  <2>1. /\ request[w].c \in Couriers /\ request[w].row \in ExistingCourier
        /\ request[w].kind = "edit_courier"
        /\ courier' = [courier EXCEPT ![request[w].c] = request[w].row]
        /\ delivery' = delivery
    BY <1>12, <1>b DEF SaveCourier, ApiRequests
  <2>2. \A v \in Workers : request'[v] = request[v] \/ request'[v].kind = "none"
    BY <1>12, <1>c DEF SaveCourier
  <2>3. PICK new : new = request[w].row
    OBVIOUS
  <2>4. PICK c : c = request[w].c
    OBVIOUS
  <2>5. new \in CourierVersions(c)
    BY <2>1, <2>3, <2>4 DEF CourierVersions, EditsCourier
  <2>6. courier' = [courier EXCEPT ![c] = new]
    BY <2>1, <2>3, <2>4
  <2>7. \A x \in Couriers : CourierVersions(x)' \subseteq
          CourierVersions(x) \cup (IF x = c THEN {new} ELSE {})
    BY <1>a, <2>2, <2>6 DEF CourierVersions, EditsCourier, TypeOK
  <2>8. NoNewBranch
    BY <2>5, <2>7 DEF NoNewBranch
  <2>9. \A x \in Couriers : courier[x].status # Absent => courier'[x].status # Absent
    BY <1>a, <2>1, <2>3, <2>6 DEF TypeOK, ExistingCourier, CourierStatuses, Absent
  <2> QED
    BY <2>1, <2>2, <2>8, <2>9, NoRowFits
<1>13. CASE UNCHANGED allVars
  BY <1>13, ServiceKeepsFit DEF allVars, apiVars
<1> QED
  BY <1>1, <1>2, <1>3, <1>4, <1>5, <1>6, <1>7, <1>8, <1>9, <1>10, <1>11, <1>12, <1>13,
     <1>14 DEF ApiNext, DeliveryRequests, CourierRequests

LEMMA ApiInitFits == ApiInit => BranchesFit
<1> SUFFICES ASSUME ApiInit PROVE BranchesFit
  OBVIOUS
<1>1. \A w \in Workers : request[w].kind = "none"
  BY NoRequestTyped DEF ApiInit
<1>2. \A c \in Couriers : CourierVersions(c) \subseteq {courier[c]}
  BY <1>1 DEF CourierVersions, EditsCourier
<1>3. \A d \in Deliveries : Versions(d) = {NoDelivery} /\ delivery[d].courier = None
  BY <1>1 DEF Versions, Edits, ApiInit, NoDelivery
<1>4. Fits(NoDelivery)
  BY DEF Fits, NoDelivery
<1> QED
  BY <1>2, <1>3, <1>4 DEF BranchesFit

\* Whatever edits set, the courier of a delivery is there, although couriers are
\* deleted and rows are saved from copies that name them still.
THEOREM CouriersExist ==
  ApiSpec => [](\A d \in Deliveries : delivery[d].courier # None => Exists(delivery[d].courier))
<1>1. BranchesFit =>
        \A d \in Deliveries : delivery[d].courier # None => Exists(delivery[d].courier)
  BY DEF BranchesFit
<1>2. ApiTypes /\ BranchesFit /\ [ApiNext]_allVars => BranchesFit'
  BY ApiKeepsFit
<1>3. QED
  BY <1>1, <1>2, ApiInitFits, ApiTypeCorrect, PTL DEF ApiSpec

\* Unless an edit sets the courier or a branch, the courier of a delivery is
\* there and of its branch, although couriers are deleted, and rows are saved
\* again from copies that were read before.
THEOREM CouriersExistInBranch ==
  ASSUME Editable \cap {"courier", "branch", "courier_branch"} = {}
  PROVE  ApiSpec => []CourierExistsInBranch
<1>1. ApiTypes /\ BranchesFit => CourierExistsInBranch
  <2> SUFFICES ASSUME ApiTypes, BranchesFit, NEW d \in Deliveries, delivery[d].courier # None
               PROVE  Exists(delivery[d].courier) /\ BranchesAgree(d, delivery[d].courier)
    BY DEF CourierExistsInBranch
  <2>1. Exists(delivery[d].courier) /\ Fits(delivery[d])
    BY VersionsTyped DEF BranchesFit, BranchesAreKept
  <2>2. courier[delivery[d].courier] \in CourierVersions(delivery[d].courier)
    BY <2>1 DEF CourierVersions, Exists
  <2> QED
    BY <2>1, <2>2 DEF Fits, BranchesAgree
<1>2. ApiTypes /\ BranchesFit /\ [ApiNext]_allVars => BranchesFit'
  BY ApiKeepsFit
<1>3. QED
  BY <1>1, <1>2, ApiInitFits, ApiTypeCorrect, PTL DEF ApiSpec

-------------------------------------------------------------------------------
(* Between a check and the write it allowed.                               *)

\* Which steps receive and answer the requests that check before they write.
LEMMA CheckedRequests ==
  ASSUME ApiTypes, [ApiNext]_allVars, NEW w \in Workers, request'[w] # request[w]
  PROVE  /\ \/ request'[w].kind \notin {"own_transition", "status"}
            \/ \E c \in Couriers, d \in Deliveries, s \in Statuses : BeginOwnTransition(w, c, d, s)
            \/ \E c \in Couriers, s \in CourierStatuses : BeginSetStatus(w, c, s)
            \/ CheckSetStatus(w)
         /\ request[w].kind = "status" => CheckSetStatus(w) \/ SaveSetStatus(w)
<1> DEFINE Goal == /\ \/ request'[w].kind \notin {"own_transition", "status"}
                      \/ \E c \in Couriers, d \in Deliveries, s \in Statuses :
                           BeginOwnTransition(w, c, d, s)
                      \/ \E c \in Couriers, s \in CourierStatuses : BeginSetStatus(w, c, s)
                      \/ CheckSetStatus(w)
                   /\ request[w].kind = "status" => CheckSetStatus(w) \/ SaveSetStatus(w)
<1> SUFFICES Goal
  OBVIOUS
<1> USE DEF Handling
<1>a. ASSUME NEW v \in Workers, NEW r, Accept(v, r) PROVE v = w /\ request'[w] = r /\ request[w].kind = "none"
  BY <1>a, NoRequestTyped DEF Accept, ApiTypes
<1>b. ASSUME NEW v \in Workers, Reply(v) PROVE v = w /\ request'[w].kind = "none"
  BY <1>b, NoRequestTyped DEF Reply, ApiTypes
<1>1. CASE ServiceCall \/ UNCHANGED allVars
  BY <1>1 DEF ServiceCall, allVars, apiVars
<1>2. ASSUME NEW v \in Workers, NEW d \in Deliveries, BeginEditDelivery(v, d) PROVE Goal
  <2>1. PICK r : r.kind = "edit_delivery" /\ Accept(v, r)
    BY <1>2 DEF BeginEditDelivery
  <2> QED
    BY <1>a, <2>1
<1>3. ASSUME NEW v \in Workers, SaveDelivery(v) \/ OwnTransition(v) \/ SaveLogin(v)
                                \/ SaveProfile(v) \/ SaveCourier(v)
      PROVE  Goal
  BY <1>3, <1>b DEF SaveDelivery, OwnTransition, SaveLogin, SaveProfile, SaveCourier
<1>4. ASSUME NEW d \in Deliveries, DeleteDelivery(d) PROVE Goal
  BY <1>4 DEF DeleteDelivery
<1>5. ASSUME NEW v \in Workers, NEW c \in Couriers, NEW d \in Deliveries, NEW s \in Statuses,
             BeginOwnTransition(v, c, d, s)
      PROVE  Goal
  <2>1. v = w /\ request[w].kind = "none"
    BY <1>5, <1>a DEF BeginOwnTransition
  <2> QED
    BY <1>5, <2>1
<1>6. ASSUME NEW v \in Workers, NEW c \in Couriers, NEW s \in CourierStatuses,
             BeginSetStatus(v, c, s)
      PROVE  Goal
  <2>1. v = w /\ request[w].kind = "none"
    BY <1>6, <1>a DEF BeginSetStatus
  <2> QED
    BY <1>6, <2>1
<1>7. ASSUME NEW v \in Workers, CheckSetStatus(v) \/ SaveSetStatus(v) PROVE Goal
  <2>1. v = w
    BY <1>7, <1>b DEF CheckSetStatus, SaveSetStatus, ApiTypes
  <2> QED
    BY <1>7, <2>1, <1>b DEF SaveSetStatus
<1>8. ASSUME NEW v \in Workers, NEW c \in Couriers, BeginLogin(v, c) PROVE Goal
  BY <1>8, <1>a DEF BeginLogin
<1>9. ASSUME NEW v \in Workers, NEW c \in Couriers, NEW s \in CourierStatuses,
             BeginProfile(v, c, s)
      PROVE  Goal
  BY <1>9, <1>a DEF BeginProfile
<1>10. ASSUME NEW v \in Workers, NEW c \in Couriers, BeginEditCourier(v, c) PROVE Goal
  <2>1. PICK r : r.kind = "edit_courier" /\ Accept(v, r)
    BY <1>10 DEF BeginEditCourier
  <2> QED
    BY <1>a, <2>1
<1>11. ASSUME NEW c \in Couriers, DeleteCourier(c) PROVE Goal
  BY <1>11 DEF DeleteCourier
<1> QED
  BY <1>1, <1>2, <1>3, <1>4, <1>5, <1>6, <1>7, <1>8, <1>9, <1>10, <1>11
     DEF ApiNext, DeliveryRequests, CourierRequests

\* As long as no edit began there is none to save, and a row that is not there
\* was deleted or never created.
NothingEdited ==
  edits = 0 =>
    /\ \A w \in Workers : request[w].kind \notin {"edit_delivery", "edit_courier"}
    /\ \A d \in Deliveries : creation[d] = NotCalled => delivery[d] = NoDelivery

\* The way a delivery goes without edits: on, or out of the table, and with the
\* courier it has, unless one of the two is deleted.
GoesOn(d) ==
  /\ creation[d] # NotCalled =>
       /\ creation'[d] # NotCalled
       /\ delivery[d].status = Absent => delivery'[d].status = Absent
  /\ delivery[d].status \in Terminal => delivery'[d].status \in Terminal \cup {Absent}
  /\ delivery[d].status \in UnderWay =>
       delivery'[d].status \in UnderWay \cup Terminal \cup {Absent}
  /\ delivery[d].courier # None =>
       \/ delivery'[d].courier = delivery[d].courier
       \/ /\ deletes' # 0
          /\ \/ delivery'[d].status = Absent
             \/ courier'[delivery[d].courier].status = Absent

NoneRevived ==
  \A c \in Couriers : courier[c].status = Absent => courier'[c].status = Absent

LEMMA ServiceGoesOn ==
  ASSUME ApiTypes, NothingEdited, edits = 0, [Next]_vars
  PROVE  /\ \A d \in Deliveries : GoesOn(d)
         /\ NoneRevived
         /\ \A d \in Deliveries : creation'[d] = NotCalled =>
              creation[d] = NotCalled /\ delivery'[d] = delivery[d]
<1>a. TypeOK /\ \A d \in Deliveries : delivery[d] \in DeliveryRow
  BY DEF ApiTypes, TypeOK
<1>1. ASSUME NEW d \in Deliveries, NEW s \in InitialStatuses,
             NEW b \in Branches \cup {None}, InsertDelivery(d, s, b)
      PROVE  /\ \A e \in Deliveries : GoesOn(e)
             /\ NoneRevived
             /\ \A e \in Deliveries : creation'[e] = NotCalled =>
                  creation[e] = NotCalled /\ delivery'[e] = delivery[e]
  <2>1. /\ creation[d] = NotCalled /\ delivery[d] = NoDelivery /\ courier' = courier
        /\ creation'[d] # NotCalled
        /\ \A e \in Deliveries \ {d} : delivery'[e] = delivery[e] /\ creation'[e] = creation[e]
    BY <1>1, <1>a DEF InsertDelivery, NothingEdited, TypeOK, NotCalled
  <2>2. /\ NoDelivery.courier = None /\ NoDelivery.status \notin Terminal
        /\ NoDelivery.status \notin UnderWay
    BY DEF NoDelivery, Absent, Terminal, UnderWay
  <2> QED
    BY <2>1, <2>2 DEF GoesOn, NoneRevived
<1>2. ASSUME NEW d \in Deliveries, LogCreation(d) \/ AnnounceCreation(d)
      PROVE  /\ \A e \in Deliveries : GoesOn(e)
             /\ NoneRevived
             /\ \A e \in Deliveries : creation'[e] = NotCalled =>
                  creation[e] = NotCalled /\ delivery'[e] = delivery[e]
  <2>1. /\ delivery' = delivery /\ courier' = courier
        /\ creation'[d].step # "none"
        /\ \A e \in Deliveries \ {d} : creation'[e] = creation[e]
    BY <1>2, <1>a DEF LogCreation, AnnounceCreation, TypeOK, Creation, NotCalled
  <2>2. creation'[d] # NotCalled
    BY <2>1 DEF NotCalled
  <2> QED
    BY <2>1, <2>2 DEF GoesOn, NoneRevived
<1>3. ASSUME NEW d \in Deliveries, NEW c \in Couriers, AssignCourier(d, c)
      PROVE  /\ \A e \in Deliveries : GoesOn(e)
             /\ NoneRevived
             /\ \A e \in Deliveries : creation'[e] = NotCalled =>
                  creation[e] = NotCalled /\ delivery'[e] = delivery[e]
  <2>1. /\ delivery[d].status \in Statuses \ Terminal /\ courier[c].status # Absent
        /\ delivery[d].courier \in {None, c}
        /\ delivery'[d] = Assigned(delivery[d], c) /\ creation' = creation
        /\ \A e \in Deliveries \ {d} : delivery'[e] = delivery[e]
        /\ \A x \in Couriers \ {c} : courier'[x] = courier[x]
    BY <1>3, <1>a DEF AssignCourier, CanAssign, TypeOK
  <2>2. /\ delivery'[d].courier = c
        /\ delivery[d].status \in UnderWay => delivery'[d].status = delivery[d].status
    BY <1>a, <2>1 DEF Assigned, DeliveryRow, UnderWay
  <2>3. delivery[d].status # Absent
    BY <2>1 DEF Statuses, Absent
  <2>4. creation[d] # NotCalled
    BY <2>3 DEF NothingEdited, NoDelivery
  <2> QED
    BY <2>1, <2>2, <2>3, <2>4 DEF GoesOn, NoneRevived
<1>4. ASSUME NEW d \in Deliveries, NEW s \in Statuses, TransitionDelivery(d, s)
      PROVE  /\ \A e \in Deliveries : GoesOn(e)
             /\ NoneRevived
             /\ \A e \in Deliveries : creation'[e] = NotCalled =>
                  creation[e] = NotCalled /\ delivery'[e] = delivery[e]
  <2>1. /\ delivery[d].status \in Statuses /\ s \in VALID_TRANSITIONS[delivery[d].status]
        /\ delivery'[d] = Moved(delivery[d], s) /\ creation' = creation /\ courier' = courier
        /\ \A e \in Deliveries \ {d} : delivery'[e] = delivery[e]
    BY <1>4, <1>a DEF TransitionDelivery, Allowed, TypeOK, DeliveryRow
  <2>2. delivery'[d].courier = delivery[d].courier /\ delivery'[d].status = s
    BY <1>a, <2>1 DEF Moved, DeliveryRow
  <2>3. delivery[d].status # Absent
    BY <2>1 DEF Statuses, Absent
  <2>4. creation[d] # NotCalled
    BY <2>3 DEF NothingEdited, NoDelivery
  <2>5. /\ delivery[d].status \notin Terminal
        /\ delivery[d].status \in UnderWay => s \in UnderWay \cup Terminal
    BY <2>1, TransitionsListed DEF UnderWay, Terminal
  <2> QED
    BY <2>1, <2>2, <2>3, <2>4, <2>5 DEF GoesOn, NoneRevived
<1>5. CASE UNCHANGED vars
  BY <1>5 DEF vars, GoesOn, NoneRevived
<1> QED
  BY <1>1, <1>2, <1>3, <1>4, <1>5 DEF Next

\* Requests that begin no edit, and deletions.
LEMMA ApiGoesOn ==
  ASSUME ApiTypes, NothingEdited, edits' = 0, [ApiNext]_allVars
  PROVE  /\ edits = 0
         /\ \A d \in Deliveries : GoesOn(d)
         /\ NoneRevived
         /\ \A d \in Deliveries : creation'[d] = NotCalled => delivery'[d] = NoDelivery
<1> DEFINE Blank == \A d \in Deliveries : creation'[d] = NotCalled => delivery'[d] = NoDelivery
<1> DEFINE Goal == (\A d \in Deliveries : GoesOn(d)) /\ NoneRevived /\ Blank
<1> SUFFICES edits = 0 /\ Goal
  OBVIOUS
<1> USE DEF Handling
<1>a. TypeOK /\ \A w \in Workers : request[w] \in ApiRequests
  BY DEF ApiTypes
<1>b. edits = 0
  <2>1. edits' = edits \/ edits' = edits + 1
    BY DEF ApiNext, ServiceCall, apiVars, allVars, DeliveryRequests, CourierRequests,
       BeginEditDelivery, SaveDelivery, DeleteDelivery, BeginOwnTransition, OwnTransition,
       BeginSetStatus, CheckSetStatus, SaveSetStatus, WriteStatus, BeginLogin, SaveLogin,
       BeginProfile, SaveProfile, BeginEditCourier, SaveCourier, DeleteCourier
  <2> QED
    BY <2>1 DEF ApiTypes
<1>c. /\ \A w \in Workers : request[w].kind \notin {"edit_delivery", "edit_courier"}
      /\ \A d \in Deliveries : creation[d] = NotCalled => delivery[d] = NoDelivery
  BY <1>b DEF NothingEdited
<1>d. [Next]_vars => Goal
  BY <1>b, <1>c, ServiceGoesOn
<1>1. CASE ServiceCall \/ UNCHANGED allVars
  <2>1. [Next]_vars
    BY <1>1 DEF ServiceCall, allVars
  <2> QED
    BY <1>b, <1>d, <2>1
<1>2. ASSUME NEW w \in Workers, OwnTransition(w) PROVE Goal
  <2>1. request[w].d \in Deliveries /\ request[w].to \in Statuses
    BY <1>2, <1>a DEF OwnTransition, ApiRequests
  <2> QED
    BY <1>2, <1>d, <2>1 DEF OwnTransition, Next
<1>3. ASSUME NEW w \in Workers, NEW d \in Deliveries, BeginEditDelivery(w, d) PROVE FALSE
  BY <1>3, <1>b DEF BeginEditDelivery
<1>4. ASSUME NEW w \in Workers, NEW c \in Couriers, BeginEditCourier(w, c) PROVE FALSE
  BY <1>4, <1>b DEF BeginEditCourier
<1>5. ASSUME NEW w \in Workers, SaveDelivery(w) \/ SaveCourier(w) PROVE FALSE
  BY <1>5, <1>c DEF SaveDelivery, SaveCourier
<1>6. ASSUME NEW d \in Deliveries, DeleteDelivery(d) PROVE Goal
  <2>1. /\ delivery'[d] = NoDelivery /\ NoDelivery.status = Absent
        /\ \A e \in Deliveries \ {d} : delivery'[e] = delivery[e]
        /\ courier' = courier /\ creation' = creation /\ deletes' # 0
    BY <1>6, <1>a DEF DeleteDelivery, TypeOK, NoDelivery, ApiTypes
  <2>2. Absent \notin Terminal \cup UnderWay
    BY DEF Absent, Terminal, UnderWay
  <2> QED
    BY <1>c, <2>1, <2>2 DEF GoesOn, NoneRevived
<1>7. ASSUME NEW c \in Couriers, DeleteCourier(c) PROVE Goal
  <2>1. /\ courier'[c].status = Absent /\ creation' = creation /\ deletes' # 0
        /\ \A x \in Couriers \ {c} : courier'[x] = courier[x]
        /\ \A d \in Deliveries :
             delivery'[d] = IF delivery[d].courier = c
                            THEN [delivery[d] EXCEPT !.courier = None] ELSE delivery[d]
    BY <1>7, <1>a DEF DeleteCourier, TypeOK, NoCourier, ApiTypes
  <2>2. \A d \in Deliveries : /\ delivery'[d].status = delivery[d].status
                              /\ delivery[d].courier # c => delivery'[d] = delivery[d]
    BY <1>a, <2>1 DEF TypeOK, DeliveryRow
  <2>3. \A d \in Deliveries : creation[d] = NotCalled => delivery[d].courier # c
    BY <1>c, ServiceAssumption DEF NoDelivery
  <2> QED
    BY <1>c, <2>1, <2>2, <2>3 DEF GoesOn, NoneRevived
<1>8. CASE \/ \E w \in Workers, c \in Couriers, d \in Deliveries, s \in Statuses :
                BeginOwnTransition(w, c, d, s)
           \/ CourierRequests /\ ~ \E c \in Couriers : DeleteCourier(c)
  <2>1. UNCHANGED <<delivery, creation>>
    BY <1>8, CourierSteps
  <2>2. NoneRevived
    <3>1. ASSUME NEW c, NEW s, WriteStatus(c, s)
          PROVE  \A x \in Couriers : courier[x].status = Absent => courier'[x].status = Absent
      BY <3>1, <1>a DEF WriteStatus, Exists, TypeOK
    <3>2. courier' = courier \/ \E c, s : WriteStatus(c, s)
      BY <1>4, <1>5, <1>8 DEF CourierRequests, vars, BeginOwnTransition, BeginSetStatus,
         CheckSetStatus, SaveSetStatus, BeginLogin, SaveLogin, BeginProfile, SaveProfile
    <3> QED
      BY <3>1, <3>2 DEF NoneRevived
  <2>3. \A d \in Deliveries : GoesOn(d)
    BY <2>1 DEF GoesOn
  <2> QED
    BY <1>b, <1>c, <2>1, <2>2, <2>3
<1>9. Goal
  BY <1>1, <1>2, <1>3, <1>5, <1>6, <1>7, <1>8 DEF ApiNext, DeliveryRequests
<1> QED
  BY <1>b, <1>9

LEMMA NothingEditedKept ==
  ASSUME ApiTypes, NothingEdited, [ApiNext]_allVars
  PROVE  NothingEdited'
<1> SUFFICES ASSUME edits' = 0
             PROVE  \A w \in Workers : request'[w].kind \notin {"edit_delivery", "edit_courier"}
  BY ApiGoesOn DEF NothingEdited
<1>1. edits = 0 /\ \A w \in Workers : request[w].kind \notin {"edit_delivery", "edit_courier"}
  BY ApiGoesOn DEF NothingEdited
<1> USE DEF Accept, Reply, Handling
<1>a. ASSUME NEW w \in Workers, NEW r, r.kind \notin {"edit_delivery", "edit_courier"},
             request' = [request EXCEPT ![w] = r]
      PROVE  \A v \in Workers : request'[v].kind \notin {"edit_delivery", "edit_courier"}
  BY <1>1, <1>a DEF ApiTypes
<1>b. ASSUME NEW w \in Workers, Reply(w)
      PROVE  \A v \in Workers : request'[v].kind \notin {"edit_delivery", "edit_courier"}
  BY <1>a, <1>b, NoRequestTyped
<1>2. ASSUME NEW w \in Workers, CheckSetStatus(w)
      PROVE  \A v \in Workers : request'[v].kind \notin {"edit_delivery", "edit_courier"}
  <2>1. request[w].kind = "status" => [request[w] EXCEPT !.checked = TRUE].kind = "status"
    BY DEF ApiTypes, ApiRequests
  <2> QED
    BY <1>2, <1>a, <1>b, <2>1 DEF CheckSetStatus, ApiTypes
<1>3. CASE request' = request
  BY <1>1, <1>3
<1>4. CASE \E w \in Workers : Reply(w)
  BY <1>4, <1>b
<1>5. ASSUME NEW w \in Workers, NEW c \in Couriers, NEW d \in Deliveries, NEW s \in Statuses,
             BeginOwnTransition(w, c, d, s)
      PROVE  \A v \in Workers : request'[v].kind \notin {"edit_delivery", "edit_courier"}
  BY <1>5, <1>a DEF BeginOwnTransition
<1>6. ASSUME NEW w \in Workers, NEW c \in Couriers, NEW s \in CourierStatuses,
             BeginSetStatus(w, c, s) \/ BeginProfile(w, c, s)
      PROVE  \A v \in Workers : request'[v].kind \notin {"edit_delivery", "edit_courier"}
  BY <1>6, <1>a DEF BeginSetStatus, BeginProfile
<1>7. ASSUME NEW w \in Workers, NEW c \in Couriers, BeginLogin(w, c)
      PROVE  \A v \in Workers : request'[v].kind \notin {"edit_delivery", "edit_courier"}
  BY <1>7, <1>a DEF BeginLogin
<1>8. edits = 0 /\ edits' = 0 => ~ (\/ \E w \in Workers, d \in Deliveries : BeginEditDelivery(w, d)
                                   \/ \E w \in Workers, c \in Couriers : BeginEditCourier(w, c))
  BY DEF BeginEditDelivery, BeginEditCourier
<1> QED
  BY <1>1, <1>2, <1>3, <1>4, <1>5, <1>6, <1>7, <1>8
     DEF ApiNext, ServiceCall, apiVars, allVars, DeliveryRequests, CourierRequests, SaveDelivery,
         OwnTransition, SaveSetStatus, SaveLogin, SaveProfile, SaveCourier, DeleteDelivery,
         DeleteCourier

\* Who was found to hold a delivery holds it as long as nothing is edited or
\* deleted: an assignment takes it from nobody.
HoldersKept ==
  edits = 0 /\ deletes = 0 =>
    \A w \in Workers : Handling(w, "own_transition") =>
      delivery[request[w].d].courier = request[w].c

LEMMA HoldersStay ==
  ASSUME ApiTypes, NothingEdited, HoldersKept, [ApiNext]_allVars
  PROVE  HoldersKept'
<1> SUFFICES ASSUME edits' = 0, deletes' = 0, NEW w \in Workers, Handling(w, "own_transition")'
             PROVE  delivery'[request'[w].d].courier = request'[w].c
  BY DEF HoldersKept
<1>1. /\ edits = 0
      /\ \A d \in Deliveries : delivery[d].courier # None =>
           delivery'[d].courier = delivery[d].courier
  BY ApiGoesOn DEF GoesOn
<1>2. deletes = 0
  <2>1. deletes' = deletes \/ deletes' = deletes + 1
    BY DEF ApiNext, ServiceCall, apiVars, allVars, DeliveryRequests, CourierRequests,
       BeginEditDelivery, SaveDelivery, DeleteDelivery, BeginOwnTransition, OwnTransition,
       BeginSetStatus, CheckSetStatus, SaveSetStatus, WriteStatus, BeginLogin, SaveLogin,
       BeginProfile, SaveProfile, BeginEditCourier, SaveCourier, DeleteCourier
  <2> QED
    BY <2>1 DEF ApiTypes
<1>3. CASE request'[w] = request[w]
  <2>1. request[w].d \in Deliveries /\ request[w].c \in Couriers /\ Handling(w, "own_transition")
    BY <1>3 DEF Handling, ApiTypes, ApiRequests
  <2>2. delivery[request[w].d].courier = request[w].c
    BY <1>1, <1>2, <2>1 DEF HoldersKept
  <2> QED
    BY <1>1, <1>3, <2>1, <2>2, ServiceAssumption
<1>4. CASE request'[w] # request[w]
  <2>1. \/ \E c \in Couriers, d \in Deliveries, s \in Statuses : BeginOwnTransition(w, c, d, s)
        \/ \E c \in Couriers, s \in CourierStatuses : BeginSetStatus(w, c, s)
        \/ CheckSetStatus(w)
    BY <1>4, CheckedRequests DEF Handling
  <2>2. ASSUME NEW c \in Couriers, NEW s \in CourierStatuses, BeginSetStatus(w, c, s)
        PROVE  FALSE
    BY <2>2 DEF BeginSetStatus, Accept, Handling, ApiTypes
  <2>3. ASSUME CheckSetStatus(w)
        PROVE  FALSE
    <3>1. request'[w] = NoRequest \/ request'[w] = [request[w] EXCEPT !.checked = TRUE]
      BY <2>3 DEF CheckSetStatus, Reply, ApiTypes
    <3>2. request[w].kind = "status" => [request[w] EXCEPT !.checked = TRUE].kind = "status"
      BY DEF ApiTypes, ApiRequests
    <3> QED
      BY <2>3, <3>1, <3>2, NoRequestTyped DEF CheckSetStatus, Handling
  <2>4. PICK c \in Couriers, d \in Deliveries, s \in Statuses : BeginOwnTransition(w, c, d, s)
    BY <2>1, <2>2, <2>3
  <2>5. /\ request'[w] = [kind |-> "own_transition", d |-> d, c |-> c, to |-> s]
        /\ delivery' = delivery /\ delivery[d].courier = c
    BY <2>4 DEF BeginOwnTransition, Accept, vars, ApiTypes
  <2> QED
    BY <2>5
<1> QED
  BY <1>3, <1>4

\* A courier's own request moves only a delivery that is the courier's when the
\* row is locked, unless an edit or a deletion came between.
THEOREM OwnTransitionsByHolder == ApiSpec => OwnTransitionByHolder
<1>1. ApiInit => NothingEdited /\ HoldersKept
  BY NoRequestTyped DEF ApiInit, NothingEdited, HoldersKept, Handling
<1>2. ApiTypes /\ NothingEdited /\ HoldersKept /\ [ApiNext]_allVars
        => NothingEdited' /\ HoldersKept'
  BY NothingEditedKept, HoldersStay
<1>3. ApiTypes /\ HoldersKept /\ [ApiNext]_allVars
        => [\A w \in Workers :
              Handling(w, "own_transition") /\ request'[w] = NoRequest /\ edits + deletes = 0 =>
                LET d == request[w].d IN
                  delivery'[d] # delivery[d] => delivery[d].courier = request[w].c]_allVars
  <2> SUFFICES ASSUME ApiTypes, HoldersKept, NEW w \in Workers, edits + deletes = 0,
                      Handling(w, "own_transition")
               PROVE  delivery[request[w].d].courier = request[w].c
    OBVIOUS
  <2>1. edits = 0 /\ deletes = 0
    BY DEF ApiTypes
  <2> QED
    BY <2>1 DEF HoldersKept
<1>4. QED
  BY <1>1, <1>2, <1>3, ApiTypeCorrect, PTL DEF ApiSpec, OwnTransitionByHolder

-------------------------------------------------------------------------------
(* The lock on a courier's status.                                         *)

\* A delivery that was under way with the courier of a status request is where
\* that leads, and still with that courier if both are there; once the request
\* passed the check, nothing of it is under way.
HeldKept(r) ==
  \A d \in r.held :
    /\ creation[d] # NotCalled
    /\ delivery[d].status \in UnderWay \cup Terminal \cup {Absent}
    /\ \/ delivery[d].courier = r.c
       \/ delivery[d].status = Absent
       \/ courier[r.c].status = Absent
    /\ r.checked /\ r.seen = "delivering" /\ r.to # "delivering" =>
         \/ delivery[d].status \in Terminal \cup {Absent}
         \/ courier[r.c].status = Absent

LockKept == edits = 0 => \A w \in Workers : Handling(w, "status") => HeldKept(request[w])

LEMMA HeldStays ==
  ASSUME ApiTypes, NEW r, r.held \subseteq Deliveries, r.c \in Couriers, HeldKept(r),
         \A d \in Deliveries : GoesOn(d), NoneRevived
  PROVE  HeldKept(r)'
<1> SUFFICES ASSUME NEW d \in r.held
             PROVE  /\ creation'[d] # NotCalled
                    /\ delivery'[d].status \in UnderWay \cup Terminal \cup {Absent}
                    /\ \/ delivery'[d].courier = r.c
                       \/ delivery'[d].status = Absent
                       \/ courier'[r.c].status = Absent
                    /\ r.checked /\ r.seen = "delivering" /\ r.to # "delivering" =>
                         \/ delivery'[d].status \in Terminal \cup {Absent}
                         \/ courier'[r.c].status = Absent
  BY DEF HeldKept
<1>1. r.c # None
  BY ServiceAssumption
<1> QED
  BY <1>1 DEF HeldKept, GoesOn, NoneRevived

LEMMA LockStays ==
  ASSUME ApiTypes, NothingEdited, LockKept, [ApiNext]_allVars
  PROVE  LockKept'
<1> SUFFICES ASSUME edits' = 0, NEW w \in Workers, Handling(w, "status")'
             PROVE  HeldKept(request[w])'
  BY DEF LockKept
<1>a. edits = 0 /\ (\A d \in Deliveries : GoesOn(d)) /\ NoneRevived
  BY ApiGoesOn
<1>b. Handling(w, "status") =>
        HeldKept(request[w]) /\ request[w].held \subseteq Deliveries /\ request[w].c \in Couriers
  BY <1>a DEF LockKept, Handling, ApiTypes, ApiRequests
<1>1. CASE request'[w] = request[w]
  <2>1. PICK r : r = request[w]
    OBVIOUS
  <2>2. HeldKept(r)'
    BY <1>1, <1>a, <1>b, <2>1, HeldStays DEF Handling
  <2> QED
    BY <1>1, <2>1, <2>2 DEF HeldKept
<1>2. CASE request'[w] # request[w]
  <2>1. \/ \E c \in Couriers, d \in Deliveries, s \in Statuses : BeginOwnTransition(w, c, d, s)
        \/ \E c \in Couriers, s \in CourierStatuses : BeginSetStatus(w, c, s)
        \/ CheckSetStatus(w)
    BY <1>2, CheckedRequests DEF Handling
  <2>2. ASSUME NEW c \in Couriers, NEW d \in Deliveries, NEW s \in Statuses,
               BeginOwnTransition(w, c, d, s)
        PROVE  FALSE
    BY <2>2 DEF BeginOwnTransition, Accept, Handling, ApiTypes
  <2>3. ASSUME NEW c \in Couriers, NEW s \in CourierStatuses, BeginSetStatus(w, c, s)
        PROVE  HeldKept(request[w])'
    <3>1. PICK r : r = [kind |-> "status", c |-> c, seen |-> courier[c].status, to |-> s,
                        checked |-> FALSE, held |-> UnderWayWith(c)]
      OBVIOUS
    <3>2. request'[w] = r /\ UNCHANGED vars
      BY <2>3, <3>1 DEF BeginSetStatus, Accept, ApiTypes
    <3>3. HeldKept(r)
      <4>1. \A d \in Deliveries : delivery[d].status \in UnderWay => creation[d] # NotCalled
        BY <1>a DEF NothingEdited, NoDelivery, UnderWay, Absent
      <4> QED
        BY <3>1, <4>1 DEF HeldKept, UnderWayWith
    <3> QED
      BY <3>2, <3>3 DEF HeldKept, vars
  <2>4. ASSUME CheckSetStatus(w)
        PROVE  HeldKept(request[w])'
    <3>1. PICK r : r = [request[w] EXCEPT !.checked = TRUE]
      OBVIOUS
    <3>2. /\ request[w].kind = "status" /\ UNCHANGED vars
          /\ request'[w] = r
          /\ request[w].seen # "delivering" \/ UnderWayWith(request[w].c) = {}
             \/ request[w].to = "delivering"
      BY <2>4, <3>1, NoRequestTyped DEF CheckSetStatus, Reply, Handling, ApiTypes
    <3>3. /\ r.c = request[w].c /\ r.held = request[w].held
          /\ r.seen = request[w].seen /\ r.to = request[w].to
      BY <3>1, <3>2 DEF ApiTypes, ApiRequests
    <3>4. HeldKept(r)
      BY <1>b, <3>2, <3>3 DEF HeldKept, UnderWayWith, Handling
    <3> QED
      BY <3>2, <3>4 DEF HeldKept, vars
  <2> QED
    BY <2>1, <2>2, <2>3, <2>4
<1> QED
  BY <1>1, <1>2

\* As long as nothing is edited, the status action does not change the status
\* of a courier over a delivery it could have seen under way and that is under
\* way with that courier still, whichever commits come between its check and
\* its save.
THEOREM StatusLocksHold == ApiSpec => StatusLockHeld
<1> DEFINE Step == \A w \in Workers :
                     Handling(w, "status") /\ request'[w] = NoRequest /\ edits = 0 =>
                       LET r == request[w] IN
                         r.seen = "delivering" /\ r.held \cap UnderWayWith(r.c) # {}
                           => courier'[r.c].status \in {courier[r.c].status, "delivering"}
<1>1. ApiInit => NothingEdited /\ LockKept
  BY NoRequestTyped DEF ApiInit, NothingEdited, LockKept, Handling
<1>2. ApiTypes /\ NothingEdited /\ LockKept /\ [ApiNext]_allVars => NothingEdited' /\ LockKept'
  BY NothingEditedKept, LockStays
<1>3. ASSUME ApiTypes, LockKept, [ApiNext]_allVars PROVE Step
  <2> SUFFICES ASSUME NEW w \in Workers, Handling(w, "status"), request'[w] = NoRequest, edits = 0,
                      request[w].seen = "delivering",
                      NEW d \in request[w].held \cap UnderWayWith(request[w].c)
               PROVE  courier'[request[w].c].status \in {courier[request[w].c].status, "delivering"}
    OBVIOUS
  <2>1. CheckSetStatus(w) \/ SaveSetStatus(w)
    BY <1>3, CheckedRequests, NoRequestTyped DEF Handling
  <2>2. CASE CheckSetStatus(w)
    BY <2>2 DEF CheckSetStatus, vars
  <2>3. CASE SaveSetStatus(w)
    <3>1. request[w].checked /\ WriteStatus(request[w].c, request[w].to)
      BY <2>3 DEF SaveSetStatus
    <3>2. request[w].c \in Couriers
      BY <1>3 DEF Handling, ApiTypes, ApiRequests
    <3>3. HeldKept(request[w]) /\ delivery[d].status \in UnderWay
      BY <1>3 DEF LockKept, UnderWayWith
    <3>4. request[w].to = "delivering" \/ courier[request[w].c].status = Absent
      BY <3>1, <3>3 DEF HeldKept, UnderWay, Terminal, Absent
    <3>5. courier' = courier \/ courier'[request[w].c].status = "delivering"
      BY <1>3, <3>1, <3>2, <3>4 DEF WriteStatus, Exists, ApiTypes, TypeOK, CourierRow
    <3> QED
      BY <3>5
  <2> QED
    BY <2>1, <2>2, <2>3
<1>4. ApiTypes /\ LockKept /\ [ApiNext]_allVars => [Step]_allVars
  BY <1>3
<1>5. QED
  BY <1>1, <1>2, <1>4, ApiTypeCorrect, PTL DEF ApiSpec, StatusLockHeld

-------------------------------------------------------------------------------
(* What the requests leave of the service's promises.                      *)

\* Without edits and deletions a request calls the service, or writes no more
\* than the status of couriers.
LEMMA ApiStepsMap ==
  ASSUME ApiTypes, NothingEdited, edits' = 0, deletes' = 0, [ApiNext]_allVars
  PROVE  \/ [Next]_vars
         \/ /\ UNCHANGED <<delivery, timeline, creation, outcomes, offered>>
            /\ \A c \in Couriers : courier'[c].branch = courier[c].branch
<1> DEFINE Goal == \/ [Next]_vars
                   \/ /\ UNCHANGED <<delivery, timeline, creation, outcomes, offered>>
                      /\ \A c \in Couriers : courier'[c].branch = courier[c].branch
<1> USE DEF Handling
<1>a. TypeOK /\ \A w \in Workers : request[w] \in ApiRequests
  BY DEF ApiTypes
<1>b. edits = 0 /\ \A w \in Workers : request[w].kind \notin {"edit_delivery", "edit_courier"}
  BY ApiGoesOn DEF NothingEdited
<1>1. CASE ServiceCall \/ UNCHANGED allVars
  BY <1>1 DEF ServiceCall, allVars
<1>2. ASSUME NEW w \in Workers, OwnTransition(w) PROVE Goal
  <2>1. request[w].d \in Deliveries /\ request[w].to \in Statuses
    BY <1>2, <1>a DEF OwnTransition, ApiRequests
  <2> QED
    BY <1>2, <2>1 DEF OwnTransition, Next
<1>3. ASSUME NEW w \in Workers, SaveDelivery(w) \/ SaveCourier(w) PROVE FALSE
  BY <1>3, <1>b DEF SaveDelivery, SaveCourier
<1>4. ASSUME NEW w \in Workers, NEW d \in Deliveries, BeginEditDelivery(w, d) PROVE FALSE
  BY <1>4, <1>b DEF BeginEditDelivery
<1>5. ASSUME NEW d \in Deliveries, DeleteDelivery(d) PROVE FALSE
  BY <1>5 DEF DeleteDelivery, ApiTypes
<1>6. ASSUME NEW c \in Couriers, DeleteCourier(c) PROVE FALSE
  BY <1>6 DEF DeleteCourier, ApiTypes
<1>7. ASSUME NEW c, NEW s, WriteStatus(c, s) PROVE Goal
  <2>1. \A x \in Couriers : courier'[x].branch = courier[x].branch
    BY <1>7, <1>a DEF WriteStatus, TypeOK, CourierRow
  <2> QED
    BY <1>7, <2>1 DEF WriteStatus
<1>8. CASE \/ \E w \in Workers, c \in Couriers, d \in Deliveries, s \in Statuses :
                BeginOwnTransition(w, c, d, s)
           \/ CourierRequests
  <2>1. UNCHANGED vars \/ \E c, s : WriteStatus(c, s)
    BY <1>3, <1>6, <1>8 DEF CourierRequests, BeginOwnTransition, BeginSetStatus, CheckSetStatus,
       SaveSetStatus, BeginLogin, SaveLogin, BeginProfile, SaveProfile, BeginEditCourier
  <2> QED
    BY <1>7, <2>1
<1> QED
  BY <1>1, <1>2, <1>3, <1>4, <1>5, <1>8 DEF ApiNext, DeliveryRequests

LEMMA ApiKeepsInv ==
  ASSUME ApiTypes, NothingEdited, Inv, edits' = 0, deletes' = 0, [ApiNext]_allVars
  PROVE  Inv'
<1>1. CASE [Next]_vars
  BY <1>1, InvKept DEF ApiTypes
<1>2. CASE /\ UNCHANGED <<delivery, timeline, creation, outcomes, offered>>
           /\ \A c \in Couriers : courier'[c].branch = courier[c].branch
  <2>1. \A d \in Deliveries : delivery[d].courier \in Couriers \cup {None}
    BY DEF ApiTypes, TypeOK, DeliveryRow
  <2>2. SameBranch'
    BY <1>2, <2>1 DEF Inv, SameBranch, BranchesAgree
  <2> QED
    BY <1>2, <2>2 DEF Inv, StampsTellStatus, TimelineTellsStatus, OneOutcomeNotice,
       OfferedToItsCourier, UncalledIsBlank
<1> QED
  BY <1>1, <1>2, ApiStepsMap

\* As long as there is no generic edit and no deletion, the requests that read
\* without a lock and write afterwards leave every delivery its lifecycle.
THEOREM RequestsLeaveLifecycle ==
  ApiSpec /\ [](edits = 0 /\ deletes = 0) => ImplementsLifecycle
<1> DEFINE Quiet == edits = 0 /\ deletes = 0
<1>1. ApiInit => NothingEdited /\ Inv /\ Lifecycle!Init
  <2> SUFFICES ASSUME ApiInit PROVE NothingEdited /\ Inv /\ Lifecycle!Init
    OBVIOUS
  <2>1. NothingEdited /\ Lifecycle!Init
    BY NoRequestTyped, EmptyMaps DEF ApiInit, NothingEdited
  <2>2. Inv
    BY DEF ApiInit, Inv, StampsTellStatus, StampsMatch, TimelineTellsStatus, OneOutcomeNotice,
       OfferedToItsCourier, SameBranch, UncalledIsBlank, NoDelivery, Absent, Terminal, UnderWay,
       Outcomes
  <2> QED
    BY <2>1, <2>2
<1>2. ApiTypes /\ NothingEdited /\ Inv /\ Quiet' /\ [ApiNext]_allVars
        => NothingEdited' /\ Inv' /\ [Lifecycle!Next]_(Lifecycle!lifecycle)
  <2> SUFFICES ASSUME ApiTypes, NothingEdited, Inv, Quiet', [ApiNext]_allVars
               PROVE  NothingEdited' /\ Inv' /\ [Lifecycle!Next]_(Lifecycle!lifecycle)
    OBVIOUS
  <2>1. NothingEdited' /\ Inv'
    BY NothingEditedKept, ApiKeepsInv
  <2>2. UNCHANGED <<delivery, outcomes>> => UNCHANGED Lifecycle!lifecycle
    BY DEF Lifecycle!lifecycle, Phase, Carrier, Told
  <2> QED
    BY <2>1, <2>2, ApiStepsMap, CallsMap DEF ApiTypes
<1>3. QED
  BY <1>1, <1>2, ApiTypeCorrect, PTL DEF ApiSpec, ImplementsLifecycle, Lifecycle!Spec
===============================================================================
