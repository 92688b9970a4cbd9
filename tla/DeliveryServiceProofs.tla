------------------------- MODULE DeliveryServiceProofs -------------------------
(***************************************************************************)
(* Proofs about DeliveryService, for any set of deliveries, couriers and   *)
(* branches.                                                               *)
(***************************************************************************)
EXTENDS DeliveryService, TLAPS

\* What the two transactions make of a row is a row.
LEMMA RowsStayTyped ==
  ASSUME NEW row \in DeliveryRow
  PROVE  /\ \A c \in Couriers : Assigned(row, c) \in DeliveryRow
         /\ \A s \in Statuses : Moved(row, s) \in DeliveryRow
BY DEF DeliveryRow, Assigned, Moved, Statuses

-------------------------------------------------------------------------------
(* Type correctness.                                                       *)

\* Every step of the service keeps the types of its tables.
LEMMA TypeKept == TypeOK /\ [Next]_vars => TypeOK'
<1> SUFFICES ASSUME TypeOK, [Next]_vars
             PROVE  TypeOK'
  OBVIOUS
<1>1. ASSUME NEW d \in Deliveries, NEW s \in InitialStatuses,
             NEW b \in Branches \cup {None}, InsertDelivery(d, s, b)
      PROVE  TypeOK'
  BY <1>1 DEF TypeOK, InsertDelivery, Inserted, DeliveryRow, Creation,
              InitialStatuses, Statuses
<1>2. ASSUME NEW d \in Deliveries, LogCreation(d)
      PROVE  TypeOK'
  <2>1. creation[d] \in [step : {"inserted"}, status : InitialStatuses]
    BY <1>2 DEF TypeOK, LogCreation, Creation, NotCalled
  <2>2. creation' \in [Deliveries -> Creation]
    BY <1>2, <2>1 DEF TypeOK, LogCreation, Creation
  <2>3. timeline' \in [Deliveries -> SUBSET Statuses]
    BY <1>2, <2>1 DEF TypeOK, LogCreation, InitialStatuses, Statuses
  <2>4. QED
    BY <1>2, <2>2, <2>3 DEF TypeOK, LogCreation
<1>3. ASSUME NEW d \in Deliveries, AnnounceCreation(d)
      PROVE  TypeOK'
  <2>1. creation[d] \in [step : {"logged"}, status : InitialStatuses]
    BY <1>3 DEF TypeOK, AnnounceCreation, Creation, NotCalled
  <2>2. creation' \in [Deliveries -> Creation]
    BY <1>3, <2>1 DEF TypeOK, AnnounceCreation, Creation
  <2>3. QED
    BY <1>3, <2>2 DEF TypeOK, AnnounceCreation
<1>4. ASSUME NEW d \in Deliveries, NEW c \in Couriers, AssignCourier(d, c)
      PROVE  TypeOK'
  <2>1. delivery' \in [Deliveries -> DeliveryRow]
    BY <1>4, RowsStayTyped DEF TypeOK, AssignCourier
  <2>2. courier' \in [Couriers -> CourierRow]
    BY <1>4 DEF TypeOK, AssignCourier, CourierRow, CourierStatuses
  <2>3. QED
    BY <1>4, <2>1, <2>2 DEF TypeOK, AssignCourier, Statuses
<1>5. ASSUME NEW d \in Deliveries, NEW s \in Statuses, TransitionDelivery(d, s)
      PROVE  TypeOK'
  <2>1. delivery' \in [Deliveries -> DeliveryRow]
    BY <1>5, RowsStayTyped DEF TypeOK, TransitionDelivery
  <2>2. QED
    BY <1>5, <2>1 DEF TypeOK, TransitionDelivery
<1>6. CASE UNCHANGED vars
  BY <1>6 DEF TypeOK, vars
<1>7. QED
  BY <1>1, <1>2, <1>3, <1>4, <1>5, <1>6 DEF Next

\* The tables of the service keep their types: the rows that create_delivery,
\* assign_courier and transition_delivery write are rows of the schema.
THEOREM TypeCorrect == Spec => []TypeOK
<1>1. Init => TypeOK
  BY DEF Init, TypeOK, NoDelivery, DeliveryRow, CourierRow, Creation, CourierStatuses
<1>2. TypeOK /\ [Next]_vars => TypeOK'
  BY TypeKept
<1>3. QED
  BY <1>1, <1>2, PTL DEF Spec

-------------------------------------------------------------------------------
(* The inductive invariant, one action at a time.                          *)

\* VALID_TRANSITIONS, one status at a time.
LEMMA TransitionsListed ==
  ASSUME NEW old \in Statuses, NEW s \in VALID_TRANSITIONS[old]
  PROVE  \/ old = "requested" /\ s \in {"pending", "cancelled"}
         \/ old = "pending" /\ s \in {"assigned", "cancelled"}
         \/ old = "assigned" /\ s \in {"accepted", "picked_up", "cancelled"}
         \/ old = "accepted" /\ s \in {"picked_up", "cancelled"}
         \/ old = "picked_up" /\ s \in {"in_transit", "failed"}
         \/ old = "in_transit" /\ s \in {"delivered", "failed"}
BY DEF Statuses, VALID_TRANSITIONS

\* The stamps of a row still match after assign_courier, which writes none,
\* and after every transition that VALID_TRANSITIONS allows.
LEMMA StampsStayMatched ==
  ASSUME NEW row \in DeliveryRow, row.status \in Statuses, StampsMatch(row)
  PROVE  /\ \A c \in Couriers : StampsMatch(Assigned(row, c))
         /\ \A s \in VALID_TRANSITIONS[row.status] : StampsMatch(Moved(row, s))
<1>1. ASSUME NEW c \in Couriers
      PROVE  StampsMatch(Assigned(row, c))
  BY <1>1 DEF StampsMatch, Assigned, DeliveryRow, Terminal, UnderWay
<1>2. ASSUME NEW s \in VALID_TRANSITIONS[row.status]
      PROVE  StampsMatch(Moved(row, s))
  <2>1. /\ Moved(row, s).status = s
        /\ Moved(row, s).stamps = row.stamps \cup ({s} \cap Stamped)
    BY DEF Moved, DeliveryRow
  <2>2. \/ row.status = "requested" /\ s \in {"pending", "cancelled"}
        \/ row.status = "pending" /\ s \in {"assigned", "cancelled"}
        \/ row.status = "assigned" /\ s \in {"accepted", "picked_up", "cancelled"}
        \/ row.status = "accepted" /\ s \in {"picked_up", "cancelled"}
        \/ row.status = "picked_up" /\ s \in {"in_transit", "failed"}
        \/ row.status = "in_transit" /\ s \in {"delivered", "failed"}
    BY <1>2, TransitionsListed
  <2>3. QED
    BY <2>1, <2>2 DEF StampsMatch, Terminal, UnderWay, Stamped
<1>3. QED
  BY <1>1, <1>2

\* Nothing is there yet.
LEMMA InvInit == Init => Inv
BY DEF Init, Inv, StampsTellStatus, StampsMatch, TimelineTellsStatus, OneOutcomeNotice,
       OfferedToItsCourier, SameBranch, UncalledIsBlank, NoDelivery, NotCalled,
       Terminal, Outcomes, UnderWay, Stamped, Absent

\* create_delivery starts from a blank, so its row has no stamp, no courier and
\* no notice to contradict.
LEMMA InsertKeepsInv ==
  ASSUME TypeOK, Inv, NEW d \in Deliveries, NEW s \in InitialStatuses,
         NEW b \in Branches \cup {None}, InsertDelivery(d, s, b)
  PROVE  Inv'
<1> USE DEF InsertDelivery
<1>1. /\ delivery[d] = NoDelivery /\ timeline[d] = {}
      /\ outcomes[d] = 0 /\ offered[d] = {}
  BY DEF Inv, UncalledIsBlank
<1>2. /\ delivery'[d] = Inserted(s, b)
      /\ \A e \in Deliveries \ {d} : delivery'[e] = delivery[e]
  BY DEF TypeOK
<1>3. /\ delivery'[d].status = s
      /\ delivery'[d].courier = None
      /\ delivery'[d].stamps = {}
  BY <1>2 DEF Inserted
<1>4. /\ creation'[d] = [step |-> "inserted", status |-> s]
      /\ \A e \in Deliveries \ {d} : creation'[e] = creation[e]
  BY DEF TypeOK
<1>5. s \in {"requested", "pending"}
  BY DEF InitialStatuses
<1>6. StampsTellStatus'
  <2>1. StampsMatch(delivery'[d])
    BY <1>3, <1>5 DEF StampsMatch, Terminal, UnderWay
  <2>2. QED
    BY <1>2, <2>1 DEF Inv, StampsTellStatus
<1>7. TimelineTellsStatus'
  BY <1>1, <1>2, <1>3, <1>4 DEF Inv, TimelineTellsStatus
<1>8. OneOutcomeNotice'
  BY <1>1, <1>2, <1>3, <1>5 DEF Inv, OneOutcomeNotice, Outcomes
<1>9. OfferedToItsCourier'
  BY <1>1, <1>2, <1>3 DEF Inv, OfferedToItsCourier
<1>10. SameBranch'
  <2>1. ASSUME NEW e \in Deliveries \ {d}, delivery[e].courier # None
        PROVE  BranchesAgree(e, delivery[e].courier)'
    BY <1>2, <2>1 DEF Inv, SameBranch, BranchesAgree
  <2>2. QED
    BY <1>2, <1>3, <2>1 DEF SameBranch, BranchesAgree
<1>11. UncalledIsBlank'
  BY <1>2, <1>4 DEF Inv, UncalledIsBlank, NotCalled
<1>12. QED
  BY <1>6, <1>7, <1>8, <1>9, <1>10, <1>11 DEF Inv

\* The late event of create_delivery adds an initial status, which has no stamp.
LEMMA LogKeepsInv ==
  ASSUME TypeOK, Inv, NEW d \in Deliveries, LogCreation(d)
  PROVE  Inv'
<1> USE DEF LogCreation
<1>1. creation[d] \in [step : {"inserted"}, status : InitialStatuses]
  BY DEF TypeOK, Creation, NotCalled
<1>2. /\ timeline'[d] = timeline[d] \cup {creation[d].status}
      /\ \A e \in Deliveries \ {d} : timeline'[e] = timeline[e]
  BY DEF TypeOK
<1>3. /\ creation'[d] = [step |-> "logged", status |-> creation[d].status]
      /\ \A e \in Deliveries \ {d} : creation'[e] = creation[e]
  BY <1>1 DEF TypeOK
<1>4. creation[d].status \notin Stamped
  BY <1>1 DEF InitialStatuses, Stamped
<1>5. StampsTellStatus' /\ OneOutcomeNotice' /\ OfferedToItsCourier'
  BY DEF Inv, StampsTellStatus, OneOutcomeNotice, OfferedToItsCourier
<1>6. TimelineTellsStatus'
  BY <1>2, <1>3, <1>4 DEF Inv, TimelineTellsStatus
<1>7. SameBranch'
  BY DEF Inv, SameBranch, BranchesAgree
<1>8. UncalledIsBlank'
  BY <1>2, <1>3 DEF Inv, UncalledIsBlank, NotCalled
<1>9. QED
  BY <1>5, <1>6, <1>7, <1>8 DEF Inv

\* Announcing a creation moves no row.
LEMMA AnnounceKeepsInv ==
  ASSUME TypeOK, Inv, NEW d \in Deliveries, AnnounceCreation(d)
  PROVE  Inv'
<1> USE DEF AnnounceCreation
<1>1. creation[d] \in [step : {"logged"}, status : InitialStatuses]
  BY DEF TypeOK, Creation, NotCalled
<1>2. /\ creation'[d] = [step |-> "announced", status |-> creation[d].status]
      /\ \A e \in Deliveries \ {d} : creation'[e] = creation[e]
  BY <1>1 DEF TypeOK
<1>3. StampsTellStatus' /\ OneOutcomeNotice' /\ OfferedToItsCourier'
  BY DEF Inv, StampsTellStatus, OneOutcomeNotice, OfferedToItsCourier
<1>4. TimelineTellsStatus'
  BY <1>2 DEF Inv, TimelineTellsStatus
<1>5. SameBranch'
  BY DEF Inv, SameBranch, BranchesAgree
<1>6. UncalledIsBlank'
  BY <1>2 DEF Inv, UncalledIsBlank, NotCalled
<1>7. QED
  BY <1>3, <1>4, <1>5, <1>6 DEF Inv

\* assign_courier keeps the courier a delivery has, tells only the courier it
\* sets, writes the event of the status it sets, and moves no courier's branch.
LEMMA AssignKeepsInv ==
  ASSUME TypeOK, Inv, NEW d \in Deliveries, NEW c \in Couriers, AssignCourier(d, c)
  PROVE  Inv'
<1> USE DEF AssignCourier, CanAssign
<1>1. /\ delivery'[d] = Assigned(delivery[d], c)
      /\ \A e \in Deliveries \ {d} : delivery'[e] = delivery[e]
  BY DEF TypeOK
<1>2. /\ delivery'[d].courier = c
      /\ delivery'[d].branch = delivery[d].branch
      /\ delivery'[d].stamps = delivery[d].stamps
      /\ delivery'[d].status = IF delivery[d].status = "pending" THEN "assigned"
                                                                 ELSE delivery[d].status
  BY <1>1 DEF TypeOK, DeliveryRow, Assigned
<1>3. /\ timeline'[d] = timeline[d] \cup {"assigned"}
      /\ offered'[d] = offered[d] \cup {c}
      /\ \A e \in Deliveries \ {d} : timeline'[e] = timeline[e] /\ offered'[e] = offered[e]
  BY DEF TypeOK
<1>4. \A k \in Couriers : courier'[k].branch = courier[k].branch
  BY DEF TypeOK, CourierRow
<1>5. StampsTellStatus'
  <2>1. StampsMatch(delivery'[d])
    BY <1>1, StampsStayMatched DEF TypeOK, Inv, StampsTellStatus
  <2>2. QED
    BY <1>1, <2>1 DEF Inv, StampsTellStatus
<1>6. TimelineTellsStatus'
  BY <1>1, <1>2, <1>3 DEF Inv, TimelineTellsStatus, Stamped, Absent
<1>7. OneOutcomeNotice'
  BY <1>1, <1>2 DEF Inv, OneOutcomeNotice, Outcomes
<1>8. OfferedToItsCourier'
  BY <1>1, <1>2, <1>3, ServiceAssumption DEF Inv, OfferedToItsCourier
<1>9. SameBranch'
  <2>1. BranchesAgree(d, c)'
    BY <1>2, <1>4 DEF BranchesAgree
  <2>2. ASSUME NEW e \in Deliveries \ {d}, delivery[e].courier # None
        PROVE  BranchesAgree(e, delivery[e].courier)'
    <3>1. delivery[e].courier \in Couriers
      BY <2>2 DEF TypeOK, DeliveryRow
    <3>2. BranchesAgree(e, delivery[e].courier)
      BY <2>2 DEF Inv, SameBranch
    <3>3. QED
      BY <1>1, <1>4, <3>1, <3>2 DEF BranchesAgree
  <2>3. QED
    BY <1>1, <1>2, <2>1, <2>2 DEF SameBranch, BranchesAgree
<1>10. UncalledIsBlank'
  <2>1. creation[d] # NotCalled
    BY DEF Inv, UncalledIsBlank, NoDelivery, Statuses, Absent
  <2>2. QED
    BY <1>1, <1>3, <2>1 DEF Inv, UncalledIsBlank
<1>11. QED
  BY <1>5, <1>6, <1>7, <1>8, <1>9, <1>10 DEF Inv

\* transition_delivery writes the stamp, the event and the notice of the one
\* status it sets; that status is an outcome only on the way into it.
LEMMA TransitionKeepsInv ==
  ASSUME TypeOK, Inv, NEW d \in Deliveries, NEW s \in Statuses, TransitionDelivery(d, s)
  PROVE  Inv'
<1> USE DEF TransitionDelivery
<1>1. /\ delivery'[d] = Moved(delivery[d], s)
      /\ \A e \in Deliveries \ {d} : delivery'[e] = delivery[e]
  BY DEF TypeOK
<1>2. /\ delivery'[d].status = s
      /\ delivery'[d].courier = delivery[d].courier
      /\ delivery'[d].branch = delivery[d].branch
      /\ delivery'[d].stamps = delivery[d].stamps \cup ({s} \cap Stamped)
  BY <1>1 DEF TypeOK, DeliveryRow, Moved
<1>3. /\ timeline'[d] = timeline[d] \cup {s}
      /\ outcomes'[d] = IF s \in Outcomes THEN outcomes[d] + 1 ELSE outcomes[d]
      /\ \A e \in Deliveries \ {d} : timeline'[e] = timeline[e] /\ outcomes'[e] = outcomes[e]
  BY DEF TypeOK
<1>4. delivery[d].status \in Statuses /\ s \in VALID_TRANSITIONS[delivery[d].status]
  BY DEF Allowed, TypeOK, DeliveryRow
<1>5. StampsTellStatus'
  <2>1. StampsMatch(delivery'[d])
    BY <1>1, <1>4, StampsStayMatched DEF TypeOK, Inv, StampsTellStatus
  <2>2. QED
    BY <1>1, <2>1 DEF Inv, StampsTellStatus
<1>6. TimelineTellsStatus'
  <2>1. timeline'[d] \cap Stamped = delivery'[d].stamps
    BY <1>2, <1>3 DEF Inv, TimelineTellsStatus
  <2>2. delivery'[d].status \in timeline'[d]
    BY <1>2, <1>3
  <2>3. QED
    BY <1>1, <1>3, <2>1, <2>2 DEF Inv, TimelineTellsStatus
<1>7. OneOutcomeNotice'
  <2>1. delivery[d].status \notin Outcomes
    BY <1>4, TransitionsListed DEF Outcomes
  <2>2. outcomes[d] = 0
    BY <2>1 DEF Inv, OneOutcomeNotice
  <2>3. outcomes'[d] = IF delivery'[d].status \in Outcomes THEN 1 ELSE 0
    BY <1>2, <1>3, <2>2
  <2>4. QED
    BY <1>1, <1>3, <2>3 DEF Inv, OneOutcomeNotice
<1>8. OfferedToItsCourier'
  BY <1>1, <1>2 DEF Inv, OfferedToItsCourier
<1>9. SameBranch'
  BY <1>1, <1>2 DEF Inv, SameBranch, BranchesAgree
<1>10. UncalledIsBlank'
  <2>1. creation[d] # NotCalled
    BY <1>4 DEF Inv, UncalledIsBlank, NoDelivery, Statuses, Absent
  <2>2. QED
    BY <1>1, <1>3, <2>1 DEF Inv, UncalledIsBlank
<1>11. QED
  BY <1>5, <1>6, <1>7, <1>8, <1>9, <1>10 DEF Inv

\* Every step of the service keeps the invariant.
LEMMA InvKept == TypeOK /\ Inv /\ [Next]_vars => Inv'
<1> SUFFICES ASSUME TypeOK, Inv, [Next]_vars
             PROVE  Inv'
  OBVIOUS
<1>1. CASE Next
  BY <1>1, InsertKeepsInv, LogKeepsInv, AnnounceKeepsInv, AssignKeepsInv,
     TransitionKeepsInv DEF Next
<1>2. CASE UNCHANGED vars
  BY <1>2 DEF vars, Inv, StampsTellStatus, TimelineTellsStatus, OneOutcomeNotice,
              OfferedToItsCourier, SameBranch, BranchesAgree, UncalledIsBlank
<1>3. QED
  BY <1>1, <1>2

\* The service keeps its invariant: stamps, timeline, notices, offers and
\* branches agree with the rows after every interleaving of its calls.
THEOREM InvariantHolds == Spec => []Inv
<1>1. Init => Inv
  BY InvInit
<1>2. TypeOK /\ Inv /\ [Next]_vars => Inv'
  BY InvKept
<1>3. QED
  BY <1>1, <1>2, TypeCorrect, PTL DEF Spec

\* picked_up_at, completed_at, failed_at, cancelled_at and accepted_at tell the
\* same story as the status, for any number of deliveries and requests.
THEOREM StampsAlwaysTellStatus == Spec => []StampsTellStatus
<1>1. Inv => StampsTellStatus
  BY DEF Inv
<1>2. QED
  BY <1>1, InvariantHolds, PTL

\* What has a stamp on the row has an event in the timeline, and the reverse.
THEOREM TimelineAlwaysTellsStatus == Spec => []TimelineTellsStatus
<1>1. Inv => TimelineTellsStatus
  BY DEF Inv
<1>2. QED
  BY <1>1, InvariantHolds, PTL

\* No assignment, in whatever order requests are served, binds a delivery to a
\* courier of another branch.
THEOREM BranchesAlwaysAgree == Spec => []SameBranch
<1>1. Inv => SameBranch
  BY DEF Inv
<1>2. QED
  BY <1>1, InvariantHolds, PTL

\* No two requests both report how one delivery ended.
THEOREM OutcomeToldOnce == Spec => []OneOutcomeNotice
<1>1. Inv => OneOutcomeNotice
  BY DEF Inv
<1>2. QED
  BY <1>1, InvariantHolds, PTL

\* No delivery is ever offered to two couriers.
THEOREM OfferedToOneCourier == Spec => []OfferedToItsCourier
<1>1. Inv => OfferedToItsCourier
  BY DEF Inv
<1>2. QED
  BY <1>1, InvariantHolds, PTL

-------------------------------------------------------------------------------
(* Steps.                                                                  *)

\* After a delivery ended, none of the calls touches its row or its notices:
\* assign_courier refuses it, VALID_TRANSITIONS has no way out of it, and an
\* insert takes another key.
THEOREM EndIsFinal == Spec => TerminalIsFinal
<1> DEFINE Kept(e) == /\ delivery'[e] = delivery[e]
                      /\ outcomes'[e] = outcomes[e]
                      /\ offered'[e] = offered[e]
<1>1. ASSUME TypeOK, Inv, [Next]_vars,
             NEW e \in Deliveries, delivery[e].status \in Terminal
      PROVE  Kept(e)
  <2>1. ASSUME NEW d \in Deliveries, NEW s \in InitialStatuses,
               NEW b \in Branches \cup {None}, InsertDelivery(d, s, b)
        PROVE  Kept(e)
    <3>1. delivery[d].status = Absent
      BY <1>1, <2>1 DEF InsertDelivery, Inv, UncalledIsBlank, NoDelivery
    <3>2. d # e
      BY <1>1, <3>1 DEF Terminal, Absent
    <3>3. QED
      BY <2>1, <3>2 DEF InsertDelivery, TypeOK
  <2>2. ASSUME NEW d \in Deliveries, NEW c \in Couriers, AssignCourier(d, c)
        PROVE  Kept(e)
    BY <1>1, <2>2 DEF AssignCourier, CanAssign, TypeOK
  <2>3. ASSUME NEW d \in Deliveries, NEW s \in Statuses, TransitionDelivery(d, s)
        PROVE  Kept(e)
    <3>1. delivery[d].status \in Statuses /\ s \in VALID_TRANSITIONS[delivery[d].status]
      BY <1>1, <2>3 DEF TransitionDelivery, Allowed, TypeOK, DeliveryRow
    <3>2. d # e
      BY <1>1, <3>1, TransitionsListed DEF Terminal
    <3>3. QED
      BY <1>1, <2>3, <3>2 DEF TransitionDelivery, TypeOK
  <2>4. ASSUME NEW d \in Deliveries, LogCreation(d) \/ AnnounceCreation(d)
        PROVE  Kept(e)
    BY <2>4 DEF LogCreation, AnnounceCreation
  <2>5. CASE UNCHANGED vars
    BY <2>5 DEF vars
  <2>6. QED
    BY <1>1, <2>1, <2>2, <2>3, <2>4, <2>5 DEF Next
<1>2. TypeOK /\ Inv /\ [Next]_vars
        => [\A d \in Deliveries : delivery[d].status \in Terminal =>
              /\ delivery'[d] = delivery[d]
              /\ outcomes'[d] = outcomes[d]
              /\ offered'[d] = offered[d]]_vars
  BY <1>1
<1>3. QED
  BY <1>2, TypeCorrect, InvariantHolds, PTL DEF Spec, TerminalIsFinal

-------------------------------------------------------------------------------
(* Refinement.                                                             *)

\* The refinement mapping, one status at a time.
LEMMA PhasesListed ==
  /\ PhaseOf[Absent] = "unborn"
  /\ PhaseOf["requested"] = "waiting" /\ PhaseOf["pending"] = "waiting"
  /\ PhaseOf["assigned"] = "committed" /\ PhaseOf["accepted"] = "committed"
  /\ PhaseOf["picked_up"] = "moving" /\ PhaseOf["in_transit"] = "moving"
  /\ PhaseOf["delivered"] = "delivered"
  /\ PhaseOf["failed"] = "failed"
  /\ PhaseOf["cancelled"] = "cancelled"
BY DEF PhaseOf, Absent

\* Writing one row of the table moves one delivery of the abstract state.
LEMMA RowMaps ==
  ASSUME NEW d \in Deliveries,
         \A e \in Deliveries \ {d} : delivery'[e] = delivery[e]
  PROVE  /\ Phase' = [Phase EXCEPT ![d] = PhaseOf[delivery'[d].status]]
         /\ Carrier' = [Carrier EXCEPT ![d] = delivery'[d].courier]
         /\ Phase[d] = PhaseOf[delivery[d].status]
         /\ Carrier[d] = delivery[d].courier
BY DEF Phase, Carrier

\* Writing what the abstract state has already is a stutter.
LEMMA SameMaps ==
  ASSUME NEW d \in Deliveries
  PROVE  /\ [Phase EXCEPT ![d] = Phase[d]] = Phase
         /\ [Carrier EXCEPT ![d] = Carrier[d]] = Carrier
         /\ [Told EXCEPT ![d] = Told[d]] = Told
BY DEF Phase, Carrier, Told

LEMMA InsertMaps ==
  ASSUME TypeOK, Inv, NEW d \in Deliveries, NEW s \in InitialStatuses,
         NEW b \in Branches \cup {None}, InsertDelivery(d, s, b)
  PROVE  Lifecycle!Open(d)
<1>1. delivery[d].status = Absent /\ delivery[d].courier = None
  BY DEF InsertDelivery, Inv, UncalledIsBlank, NoDelivery
<1>2. /\ delivery'[d] = Inserted(s, b)
      /\ \A e \in Deliveries \ {d} : delivery'[e] = delivery[e]
  BY DEF TypeOK, InsertDelivery
<1>3. delivery'[d].status = s /\ delivery'[d].courier = None
  BY <1>2 DEF Inserted
<1>4. PhaseOf[s] = "waiting"
  BY PhasesListed DEF InitialStatuses
<1>5. Phase[d] = "unborn" /\ Phase' = [Phase EXCEPT ![d] = "waiting"]
  BY <1>1, <1>2, <1>3, <1>4, RowMaps, PhasesListed
<1>6. Carrier' = Carrier
  BY <1>1, <1>2, <1>3, RowMaps, SameMaps
<1>7. Told' = Told
  BY DEF InsertDelivery, Told
<1>8. QED
  BY <1>5, <1>6, <1>7 DEF Lifecycle!Open, Lifecycle!Enter

LEMMA AssignMaps ==
  ASSUME TypeOK, Inv, NEW d \in Deliveries, NEW c \in Couriers, AssignCourier(d, c)
  PROVE  Lifecycle!Bind(d, c) \/ Lifecycle!Commit(d) \/ UNCHANGED Lifecycle!lifecycle
<1>1. /\ delivery'[d] = Assigned(delivery[d], c)
      /\ \A e \in Deliveries \ {d} : delivery'[e] = delivery[e]
  BY DEF TypeOK, AssignCourier
<1>2. /\ delivery'[d].courier = c
      /\ delivery'[d].status = IF delivery[d].status = "pending" THEN "assigned" ELSE delivery[d].status
  BY <1>1 DEF TypeOK, DeliveryRow, Assigned
<1>3. /\ Phase' = [Phase EXCEPT ![d] = PhaseOf[delivery'[d].status]]
      /\ Carrier' = [Carrier EXCEPT ![d] = c]
      /\ Phase[d] = PhaseOf[delivery[d].status]
      /\ Carrier[d] = delivery[d].courier
  BY <1>1, <1>2, RowMaps
<1>4. Told' = Told
  BY DEF AssignCourier, Told
<1>5. \/ /\ Phase[d] = "waiting"
         /\ Phase' = [Phase EXCEPT ![d] = "committed"]
      \/ /\ Phase[d] \in {"waiting", "committed", "moving"}
         /\ Phase' = Phase
  <2>1. CASE delivery[d].status = "pending"
    BY <1>2, <1>3, <2>1, PhasesListed
  <2>2. CASE delivery[d].status # "pending"
    <3>1. delivery[d].status \in {"requested", "assigned", "accepted", "picked_up", "in_transit"}
      BY <2>2 DEF AssignCourier, CanAssign, Statuses, Terminal
    <3>2. Phase' = Phase
      BY <1>2, <1>3, <2>2, SameMaps
    <3>3. QED
      BY <1>3, <3>1, <3>2, PhasesListed
  <2>3. QED
    BY <2>1, <2>2
<1>6. CASE delivery[d].courier = None
  BY <1>3, <1>4, <1>5, <1>6 DEF Lifecycle!Bind
<1>7. CASE delivery[d].courier = c
  <2>1. Carrier' = Carrier
    BY <1>3, <1>7, SameMaps
  <2>2. QED
    BY <1>4, <1>5, <2>1 DEF Lifecycle!Commit, Lifecycle!Enter, Lifecycle!lifecycle
<1>8. QED
  BY <1>6, <1>7 DEF AssignCourier, CanAssign

LEMMA TransitionMaps ==
  ASSUME TypeOK, Inv, NEW d \in Deliveries, NEW s \in Statuses, TransitionDelivery(d, s)
  PROVE  \/ Lifecycle!Commit(d) \/ Lifecycle!Move(d) \/ Lifecycle!Cancel(d)
         \/ \E outcome \in {"delivered", "failed"} : Lifecycle!End(d, outcome)
         \/ UNCHANGED Lifecycle!lifecycle
<1> DEFINE old == delivery[d].status
<1>1. old \in Statuses /\ s \in VALID_TRANSITIONS[old]
  BY DEF TransitionDelivery, Allowed, TypeOK, DeliveryRow
<1>2. /\ delivery'[d] = Moved(delivery[d], s)
      /\ \A e \in Deliveries \ {d} : delivery'[e] = delivery[e]
  BY DEF TypeOK, TransitionDelivery
<1>3. delivery'[d].status = s /\ delivery'[d].courier = delivery[d].courier
  BY <1>2 DEF TypeOK, DeliveryRow, Moved
<1>4. Phase[d] = PhaseOf[old] /\ Phase' = [Phase EXCEPT ![d] = PhaseOf[s]]
  BY <1>2, <1>3, RowMaps
<1>5. Carrier' = Carrier
  BY <1>2, <1>3, RowMaps, SameMaps
<1>6. s \notin Outcomes => Told' = Told
  BY DEF TransitionDelivery, Told
<1>7. s \in Outcomes => Told' = [Told EXCEPT ![d] = TRUE]
  <2> HAVE s \in Outcomes
  <2>1. (outcomes'[d] > 0) = TRUE
    BY DEF TransitionDelivery, TypeOK
  <2>2. \A e \in Deliveries \ {d} : outcomes'[e] = outcomes[e]
    BY DEF TransitionDelivery, TypeOK
  <2>3. QED
    BY <2>1, <2>2, Zenon DEF Told
<1>8. CASE \/ old = "requested" /\ s = "pending"
           \/ old = "assigned" /\ s = "accepted"
           \/ old = "picked_up" /\ s = "in_transit"
  <2>1. Phase' = Phase
    BY <1>4, <1>8, PhasesListed, SameMaps
  <2>2. s \notin Outcomes
    BY <1>8 DEF Outcomes
  <2>3. QED
    BY <1>5, <1>6, <2>1, <2>2 DEF Lifecycle!lifecycle
<1>9. CASE old = "pending" /\ s = "assigned"
  BY <1>4, <1>5, <1>6, <1>9, PhasesListed DEF Lifecycle!Commit, Lifecycle!Enter, Outcomes
<1>10. CASE old \in {"assigned", "accepted"} /\ s = "picked_up"
  BY <1>4, <1>5, <1>6, <1>10, PhasesListed DEF Lifecycle!Move, Lifecycle!Enter, Outcomes
<1>11. CASE old \in {"requested", "pending", "assigned", "accepted"} /\ s = "cancelled"
  BY <1>4, <1>5, <1>6, <1>11, PhasesListed DEF Lifecycle!Cancel, Lifecycle!Enter, Outcomes
<1>12. CASE old \in {"picked_up", "in_transit"} /\ s \in {"delivered", "failed"}
  BY <1>4, <1>5, <1>7, <1>12, PhasesListed DEF Lifecycle!End, Lifecycle!Enter, Outcomes
<1>13. QED
  BY <1>1, <1>8, <1>9, <1>10, <1>11, <1>12, TransitionsListed

\* An empty table is the beginning of the lifecycle.
LEMMA EmptyMaps ==
  ASSUME delivery = [d \in Deliveries |-> NoDelivery], outcomes = [d \in Deliveries |-> 0]
  PROVE  Lifecycle!Init
<1>1. \A d \in Deliveries : /\ delivery[d].status = Absent
                            /\ delivery[d].courier = None
                            /\ outcomes[d] = 0
  BY DEF NoDelivery
<1>2. Phase = [d \in Deliveries |-> "unborn"]
  BY <1>1, PhasesListed DEF Phase
<1>3. Carrier = [d \in Deliveries |-> None]
  BY <1>1 DEF Carrier
<1>4. \A d \in Deliveries : (outcomes[d] > 0) = FALSE
  BY <1>1
<1>5. Told = [d \in Deliveries |-> FALSE]
  BY <1>4, Zenon DEF Told
<1>6. QED
  BY <1>2, <1>3, <1>5, Zenon DEF Lifecycle!Init

\* Every call of the service is a step of the lifecycle or no step.
LEMMA CallsMap ==
  TypeOK /\ Inv /\ [Next]_vars => [Lifecycle!Next]_(Lifecycle!lifecycle)
<1> SUFFICES ASSUME TypeOK, Inv, [Next]_vars
             PROVE  Lifecycle!Next \/ UNCHANGED Lifecycle!lifecycle
  OBVIOUS
<1>1. ASSUME NEW d \in Deliveries, NEW s \in InitialStatuses,
             NEW b \in Branches \cup {None}, InsertDelivery(d, s, b)
      PROVE  Lifecycle!Next
  BY <1>1, InsertMaps DEF Lifecycle!Next
<1>2. ASSUME NEW d \in Deliveries, LogCreation(d) \/ AnnounceCreation(d)
      PROVE  UNCHANGED Lifecycle!lifecycle
  BY <1>2 DEF LogCreation, AnnounceCreation, Lifecycle!lifecycle, Phase, Carrier, Told
<1>3. ASSUME NEW d \in Deliveries, NEW c \in Couriers, AssignCourier(d, c)
      PROVE  Lifecycle!Next \/ UNCHANGED Lifecycle!lifecycle
  BY <1>3, AssignMaps DEF Lifecycle!Next
<1>4. ASSUME NEW d \in Deliveries, NEW s \in Statuses, TransitionDelivery(d, s)
      PROVE  Lifecycle!Next \/ UNCHANGED Lifecycle!lifecycle
  BY <1>4, TransitionMaps DEF Lifecycle!Next
<1>5. CASE UNCHANGED vars
  BY <1>5 DEF vars, Lifecycle!lifecycle, Phase, Carrier, Told
<1>6. QED
  BY <1>1, <1>2, <1>3, <1>4, <1>5 DEF Next

\* The service implements the lifecycle it promises, for any number of
\* deliveries, couriers and branches: every call is a step of it or no step.
THEOREM ServiceImplementsLifecycle == Spec => ImplementsLifecycle
<1>1. Init => Lifecycle!Init
  BY EmptyMaps DEF Init
<1>2. QED
  BY <1>1, CallsMap, TypeCorrect, InvariantHolds, PTL
     DEF Spec, ImplementsLifecycle, Lifecycle!Spec
===============================================================================
