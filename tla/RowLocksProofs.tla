---------------------------- MODULE RowLocksProofs ----------------------------
(***************************************************************************)
(* Proofs about RowLocks, for any number of sessions, deliveries and       *)
(* couriers: the locks make every call of the service atomic.              *)
(***************************************************************************)
EXTENDS RowLocks, DeliveryServiceProofs

\* What a session is doing, told by its call and where it stands.
LEMMA Forms ==
  ASSUME session \in [Sessions -> Transactions], NEW s \in Sessions
  PROVE  /\ In(s, "assign", "row") => session[s] \in AssignBegun
         /\ In(s, "assign", "courier") \/ In(s, "assign", "commit")
              => session[s] \in AssignLocked
         /\ In(s, "transition", "row") => session[s] \in TransitionBegun
         /\ In(s, "transition", "commit") => session[s] \in TransitionLocked
         /\ In(s, "track", "courier") => session[s] \in TrackBegun
         /\ In(s, "track", "commit") => session[s] \in TrackLocked
<1>1. session[s] \in Transactions
  OBVIOUS
<1>2. QED
  BY <1>1 DEF In, Transactions, AssignBegun, AssignLocked, TransitionBegun,
              TransitionLocked, TrackBegun, TrackLocked, Idle

\* A session that takes up another transaction, and the ones it leaves alone.
LEMMA Gone ==
  ASSUME session \in [Sessions -> Transactions], NEW s \in Sessions, NEW t, Go(s, t)
  PROVE  /\ session'[s] = t
         /\ \A x \in Sessions \ {s} : session'[x] = session[x]
         /\ t \in Transactions => session' \in [Sessions -> Transactions]
BY DEF Go

\* Sessions that stay where they are hold the locks they held.
LEMMA SameHolder ==
  ASSUME NEW x \in Sessions, session'[x] = session[x]
  PROVE  /\ \A d \in Deliveries : HoldsDelivery(x, d)' <=> HoldsDelivery(x, d)
         /\ In(x, "assign", "commit")' <=> In(x, "assign", "commit")
         /\ In(x, "transition", "commit")' <=> In(x, "transition", "commit")
BY DEF HoldsDelivery, In

-------------------------------------------------------------------------------
(* Steps of one transaction that change no table of the service.           *)

\* A transaction may go on to t when t agrees with the tables.
LEMMA GoesOn ==
  ASSUME LockInv, NEW s \in Sessions, NEW t \in Transactions, Go(s, t), UNCHANGED vars,
         \A d \in Deliveries : HoldsDelivery(s, d)' =>
           t.row = delivery[d] /\ \A x \in Sessions \ {s} : ~HoldsDelivery(x, d),
         In(s, "assign", "commit")' => Assignable(t.row, t.c),
         In(s, "transition", "commit")' => Allowed(t.d, t.to),
         t # Idle /\ t.call \in {"assign", "transition"} => delivery[t.d].status # Absent
  PROVE  LockInv'
<1> USE DEF LockInv, vars
<1>1. /\ session'[s] = t
      /\ \A x \in Sessions \ {s} : session'[x] = session[x]
      /\ session' \in [Sessions -> Transactions]
  BY Gone
<1>2. CopyIsCurrent'
  <2> SUFFICES ASSUME NEW x \in Sessions, NEW d \in Deliveries, HoldsDelivery(x, d)'
               PROVE  /\ session'[x].row = delivery'[d]
                      /\ \A y \in Sessions \ {x} : ~HoldsDelivery(y, d)'
    BY DEF CopyIsCurrent
  <2>1. CASE x = s
    BY <1>1, <2>1, SameHolder
  <2>2. CASE x # s
    <3>1. HoldsDelivery(x, d) /\ session'[x] = session[x]
      BY <1>1, <2>2, SameHolder
    <3>2. ~HoldsDelivery(s, d)'
      BY <2>2, <3>1
    <3>3. QED
      BY <1>1, <3>1, <3>2, SameHolder DEF CopyIsCurrent
  <2>3. QED
    BY <2>1, <2>2
<1>3. DecisionHolds'
  <2>1. \A row, c : Assignable(row, c)' <=> Assignable(row, c)
    BY DEF Assignable
  <2>2. \A d, st : Allowed(d, st)' <=> Allowed(d, st)
    BY DEF Allowed
  <2>3. QED
    BY <1>1, <2>1, <2>2, SameHolder DEF DecisionHolds
<1>4. NamedExist'
  BY <1>1 DEF NamedExist
<1>5. QED
  BY <1>1, <1>2, <1>3, <1>4

\* A session without a transaction agrees with any tables.
LEMMA IdleHoldsNothing ==
  ASSUME NEW s \in Sessions, session[s] = Idle
  PROVE  /\ \A d \in Deliveries : ~HoldsDelivery(s, d)
         /\ ~In(s, "assign", "commit") /\ ~In(s, "transition", "commit")
BY DEF HoldsDelivery, In

\* A transaction that ends without effect.
LEMMA LeaveKeepsInv ==
  ASSUME LockInv, NEW s \in Sessions, Go(s, Idle), UNCHANGED vars
  PROVE  LockInv'
<1>1. Idle \in Transactions
  BY DEF Transactions
<1>2. session'[s] = Idle
  BY Gone DEF LockInv
<1>3. /\ \A d \in Deliveries : ~HoldsDelivery(s, d)'
      /\ ~In(s, "assign", "commit")' /\ ~In(s, "transition", "commit")'
  BY <1>2 DEF HoldsDelivery, In
<1>4. QED
  BY <1>1, <1>3, GoesOn

\* A transaction that begins holds no lock yet.
LEMMA RequestKeepsInv ==
  ASSUME LockInv, NEW s \in Sessions, Request(s)
  PROVE  LockInv' /\ UNCHANGED vars
<1>1. ASSUME NEW t \in AssignBegun \cup TransitionBegun \cup TrackBegun, Begin(s, t),
             t.call # "track" => delivery[t.d].status # Absent
      PROVE  LockInv' /\ UNCHANGED vars
  <2>1. t \in Transactions
    BY DEF Transactions
  <2>2. session'[s] = t /\ UNCHANGED vars /\ Go(s, t)
    BY <1>1, Gone DEF LockInv, Begin
  <2>3. t.at = "row" \/ t.call = "track"
    BY DEF AssignBegun, TransitionBegun, TrackBegun
  <2>4. /\ \A d \in Deliveries : ~HoldsDelivery(s, d)'
        /\ ~In(s, "assign", "commit")' /\ ~In(s, "transition", "commit")'
    BY <2>2, <2>3 DEF HoldsDelivery, In
  <2>5. QED
    BY <1>1, <2>1, <2>2, <2>4, GoesOn
<1>2. ASSUME NEW d \in Deliveries, NEW c \in Couriers, BeginAssign(s, d, c)
      PROVE  LockInv' /\ UNCHANGED vars
  BY <1>1, <1>2 DEF BeginAssign, AssignBegun
<1>3. ASSUME NEW d \in Deliveries, NEW to \in Targets, BeginTransition(s, d, to)
      PROVE  LockInv' /\ UNCHANGED vars
  BY <1>1, <1>3, LockAssumption DEF BeginTransition, TransitionBegun
<1>4. ASSUME NEW c \in Couriers, NEW d \in Deliveries \cup {None}, BeginTracking(s, c, d)
      PROVE  LockInv' /\ UNCHANGED vars
  BY <1>1, <1>4 DEF BeginTracking, TrackBegun
<1>5. QED
  BY <1>2, <1>3, <1>4 DEF Request

\* The lock on the delivery: nobody else has it, and the copy is the row.
LEMMA LockRowKeepsInv ==
  ASSUME TypeOK, LockInv, NEW s \in Sessions, LockRow(s)
  PROVE  LockInv' /\ UNCHANGED vars
<1> DEFINE t == [call |-> "assign", at |-> "courier", d |-> session[s].d,
                 c |-> session[s].c, row |-> delivery[session[s].d]]
<1>1. session[s] \in AssignBegun
  BY Forms DEF LockRow, LockInv
<1>2. t \in AssignLocked
  BY <1>1 DEF AssignBegun, AssignLocked, TypeOK
<1>3. t \in Transactions
  BY <1>2 DEF Transactions
<1>4. Go(s, t) /\ UNCHANGED vars /\ FreeDelivery(session[s].d)
  BY DEF LockRow
<1>5. session'[s] = t
  BY <1>4, Gone DEF LockInv
<1>6. ~In(s, "assign", "commit")' /\ ~In(s, "transition", "commit")'
  BY <1>5 DEF In
<1>7. \A d \in Deliveries : HoldsDelivery(s, d)' => d = session[s].d
  BY <1>5 DEF HoldsDelivery
<1>8. delivery[session[s].d].status # Absent
  BY <1>1 DEF LockInv, NamedExist, AssignBegun, Idle
<1>9. QED
  BY <1>3, <1>4, <1>6, <1>7, <1>8, GoesOn DEF FreeDelivery

LEMMA LockForTransitionKeepsInv ==
  ASSUME TypeOK, LockInv, NEW s \in Sessions, LockForTransition(s)
  PROVE  LockInv' /\ UNCHANGED vars
<1> DEFINE t == [call |-> "transition", at |-> "commit", d |-> session[s].d,
                 to |-> session[s].to, row |-> delivery[session[s].d]]
<1>1. session[s] \in TransitionBegun
  BY Forms DEF LockForTransition, LockInv
<1>2. UNCHANGED vars /\ FreeDelivery(session[s].d)
  BY DEF LockForTransition
<1>3. CASE ~Allowed(session[s].d, session[s].to)
  BY <1>2, <1>3, LeaveKeepsInv DEF LockForTransition
<1>4. CASE Allowed(session[s].d, session[s].to)
  <2>1. t \in TransitionLocked
    BY <1>1 DEF TransitionBegun, TransitionLocked, TypeOK
  <2>2. t \in Transactions
    BY <2>1 DEF Transactions
  <2>3. Go(s, t)
    BY <1>4 DEF LockForTransition
  <2>4. session'[s] = t
    BY <2>3, Gone DEF LockInv
  <2>5. ~In(s, "assign", "commit")'
    BY <2>4 DEF In
  <2>6. \A d \in Deliveries : HoldsDelivery(s, d)' => d = session[s].d
    BY <2>4 DEF HoldsDelivery
  <2>7. delivery[session[s].d].status # Absent
    BY <1>1 DEF LockInv, NamedExist, TransitionBegun, Idle
  <2>8. QED
    BY <1>2, <1>4, <2>2, <2>3, <2>5, <2>6, <2>7, GoesOn DEF FreeDelivery
<1>5. QED
  BY <1>2, <1>3, <1>4

\* The lock on the courier: the delivery stays locked, and the checks are made.
LEMMA LockCourierKeepsInv ==
  ASSUME LockInv, NEW s \in Sessions, LockCourier(s)
  PROVE  LockInv' /\ UNCHANGED vars
<1> DEFINE t == [session[s] EXCEPT !.at = "commit"]
<1>1. session[s] \in AssignLocked /\ session[s].at = "courier"
  BY Forms DEF LockCourier, LockInv, In
<1>2. UNCHANGED vars
  BY DEF LockCourier
<1>3. CASE ~Assignable(session[s].row, session[s].c)
  BY <1>2, <1>3, LeaveKeepsInv DEF LockCourier
<1>4. CASE Assignable(session[s].row, session[s].c)
  <2>1. /\ t \in AssignLocked
        /\ t.row = session[s].row /\ t.c = session[s].c /\ t.d = session[s].d
    BY <1>1 DEF AssignLocked
  <2>2. t \in Transactions
    BY <2>1 DEF Transactions
  <2>3. Go(s, t)
    BY <1>4 DEF LockCourier
  <2>4. session'[s] = t
    BY <2>3, Gone DEF LockInv
  <2>5. ~In(s, "transition", "commit")'
    BY <2>1, <2>4 DEF In, AssignLocked
  <2>6. \A d \in Deliveries : HoldsDelivery(s, d)' => HoldsDelivery(s, d)
    BY <2>1, <2>4 DEF HoldsDelivery, LockCourier, In
  <2>7. delivery[session[s].d].status # Absent
    BY <1>1 DEF LockInv, NamedExist, AssignLocked, Idle
  <2>8. \A d \in Deliveries : HoldsDelivery(s, d)' =>
          t.row = delivery[d] /\ \A x \in Sessions \ {s} : ~HoldsDelivery(x, d)
    BY <2>1, <2>6 DEF LockInv, CopyIsCurrent
  <2>9. QED
    BY <1>2, <1>4, <2>1, <2>2, <2>3, <2>5, <2>7, <2>8, GoesOn
<1>5. QED
  BY <1>2, <1>3, <1>4

\* A tracking update locks no delivery.
LEMMA TrackingKeepsInv ==
  ASSUME LockInv, NEW s \in Sessions, LockForTracking(s) \/ CommitTracking(s),
         now \in Time
  PROVE  LockInv' /\ UNCHANGED vars
<1> DEFINE t == [call |-> "track", at |-> "commit", c |-> session[s].c,
                 d |-> session[s].d, time |-> now]
<1>1. UNCHANGED vars
  BY DEF LockForTracking, CommitTracking
<1>2. Go(s, Idle) \/ (LockForTracking(s) /\ Go(s, t))
  BY DEF LockForTracking, CommitTracking
<1>3. CASE Go(s, Idle)
  BY <1>1, <1>3, LeaveKeepsInv
<1>4. CASE LockForTracking(s) /\ Go(s, t)
  <2>1. session[s] \in TrackBegun
    BY <1>4, Forms DEF LockForTracking, LockInv
  <2>2. t \in TrackLocked
    BY <2>1 DEF TrackBegun, TrackLocked
  <2>3. t \in Transactions
    BY <2>2 DEF Transactions
  <2>4. session'[s] = t
    BY <1>4, Gone DEF LockInv
  <2>5. /\ \A d \in Deliveries : ~HoldsDelivery(s, d)'
        /\ ~In(s, "assign", "commit")' /\ ~In(s, "transition", "commit")'
    BY <2>4 DEF HoldsDelivery, In
  <2>6. QED
    BY <1>1, <1>4, <2>3, <2>5, GoesOn
<1>5. QED
  BY <1>1, <1>2, <1>3, <1>4

-------------------------------------------------------------------------------
(* Commits.                                                                *)

\* A transaction that commits gives up the one delivery it writes, which no
\* other has locked, and leaves every courier in its branch.
LEMMA CommitKeepsInv ==
  ASSUME LockInv, NEW s \in Sessions, NEW d \in Deliveries, HoldsDelivery(s, d), Go(s, Idle),
         \A e \in Deliveries \ {d} : delivery'[e] = delivery[e],
         \A c \in Couriers : /\ courier'[c].branch = courier[c].branch
                              /\ courier'[c].status # Absent,
         delivery'[d].status # Absent
  PROVE  LockInv'
<1>1. /\ session'[s] = Idle
      /\ \A x \in Sessions \ {s} : session'[x] = session[x]
      /\ session' \in [Sessions -> Transactions]
  BY Gone DEF LockInv, Transactions
<1>2. /\ \A e \in Deliveries : ~HoldsDelivery(s, e)'
      /\ ~In(s, "assign", "commit")' /\ ~In(s, "transition", "commit")'
  BY <1>1 DEF HoldsDelivery, In
<1>3. \A x \in Sessions \ {s} : ~HoldsDelivery(x, d)
  BY DEF LockInv, CopyIsCurrent
<1>4. CopyIsCurrent'
  <2> SUFFICES ASSUME NEW x \in Sessions, NEW e \in Deliveries, HoldsDelivery(x, e)'
               PROVE  /\ session'[x].row = delivery'[e]
                      /\ \A y \in Sessions \ {x} : ~HoldsDelivery(y, e)'
    BY DEF CopyIsCurrent
  <2>1. x # s
    BY <1>2
  <2>2. HoldsDelivery(x, e) /\ session'[x] = session[x] /\ e # d
    BY <1>1, <1>3, <2>1, SameHolder
  <2>3. QED
    BY <1>1, <1>2, <2>2, SameHolder DEF LockInv, CopyIsCurrent
<1>5. DecisionHolds'
  <2> SUFFICES ASSUME NEW x \in Sessions
               PROVE  /\ In(x, "assign", "commit")' =>
                           Assignable(session[x].row, session[x].c)'
                      /\ In(x, "transition", "commit")' =>
                           Allowed(session[x].d, session[x].to)'
    BY DEF DecisionHolds
  <2>1. CASE x = s
    BY <1>2, <2>1
  <2>2. CASE x # s
    <3>1. session'[x] = session[x]
      BY <1>1, <2>2
    <3>2. ASSUME In(x, "assign", "commit")'
          PROVE  Assignable(session[x].row, session[x].c)'
      <4>1. In(x, "assign", "commit") /\ Assignable(session[x].row, session[x].c)
        BY <3>1, <3>2, SameHolder DEF LockInv, DecisionHolds
      <4>2. session[x].c \in Couriers
        BY <4>1, Forms DEF LockInv, AssignLocked
      <4>3. QED
        BY <3>1, <4>1, <4>2 DEF Assignable
    <3>3. ASSUME In(x, "transition", "commit")'
          PROVE  Allowed(session[x].d, session[x].to)'
      <4>1. In(x, "transition", "commit") /\ Allowed(session[x].d, session[x].to)
        BY <3>1, <3>3, SameHolder DEF LockInv, DecisionHolds
      <4>2. session[x].d \in Deliveries
        BY <4>1, Forms DEF LockInv, TransitionLocked
      <4>3. session[x].d # d
        BY <1>3, <2>2, <4>1 DEF HoldsDelivery
      <4>4. delivery'[session[x].d] = delivery[session[x].d]
        BY <4>2, <4>3
      <4>5. QED
        BY <3>1, <4>1, <4>4 DEF Allowed
    <3>4. QED
      BY <3>2, <3>3
  <2>3. QED
    BY <2>1, <2>2
<1>6. NamedExist'
  <2> SUFFICES ASSUME NEW x \in Sessions, session'[x] # Idle,
                      session'[x].call \in {"assign", "transition"}
               PROVE  delivery'[session'[x].d].status # Absent
    BY DEF NamedExist
  <2>1. x # s /\ session'[x] = session[x]
    BY <1>1
  <2>2. session[x].d \in Deliveries
    BY <2>1 DEF LockInv, Transactions, Idle, AssignBegun, AssignLocked, TransitionBegun,
                TransitionLocked, TrackBegun, TrackLocked
  <2>3. delivery[session[x].d].status # Absent
    BY <2>1 DEF LockInv, NamedExist
  <2>4. QED
    BY <2>1, <2>2, <2>3
<1>7. QED
  BY <1>1, <1>4, <1>5, <1>6 DEF LockInv

\* What assign_courier commits is what one step of the service does.
LEMMA CommitAssignIsStep ==
  ASSUME TypeOK, LockInv, NEW s \in Sessions, CommitAssign(s)
  PROVE  LockInv' /\ Next
<1> DEFINE d == session[s].d
           c == session[s].c
<1>1. /\ session[s] \in AssignLocked
      /\ d \in Deliveries /\ c \in Couriers
      /\ HoldsDelivery(s, d)
  BY Forms DEF CommitAssign, LockInv, AssignLocked, HoldsDelivery
<1>2. session[s].row = delivery[d] /\ delivery[d] \in DeliveryRow
  BY <1>1 DEF LockInv, CopyIsCurrent, TypeOK
<1>3. Assignable(delivery[d], c)
  BY <1>2 DEF CommitAssign, LockInv, DecisionHolds
<1>4. CanAssign(d, c)
  <2>1. courier[c].status # Absent
    BY <1>1 DEF LockInv, NamedExist
  <2>2. QED
    BY <1>3, <2>1 DEF Assignable, CanAssign, BranchesAgree
<1>5. delivery' = [delivery EXCEPT ![d] = Assigned(@, c)]
  BY <1>1, <1>2 DEF CommitAssign, Assigned, DeliveryRow, TypeOK
<1>6. AssignCourier(d, c)
  BY <1>4, <1>5 DEF CommitAssign, AssignCourier
<1>7. LockInv'
  <2>1. \A e \in Deliveries \ {d} : delivery'[e] = delivery[e]
    BY <1>5 DEF TypeOK
  <2>2. \A k \in Couriers : /\ courier'[k].branch = courier[k].branch
                             /\ courier'[k].status # Absent
    BY <1>6 DEF AssignCourier, TypeOK, CourierRow, LockInv, NamedExist, Absent
  <2>3. delivery'[d].status # Absent
    BY <1>1, <1>2, <1>3, <1>5 DEF TypeOK, Assigned, DeliveryRow, Assignable, Statuses, Absent
  <2>4. Go(s, Idle)
    BY DEF CommitAssign
  <2>5. QED
    BY <1>1, <2>1, <2>2, <2>3, <2>4, CommitKeepsInv
<1>8. QED
  BY <1>1, <1>6, <1>7 DEF Next

\* What transition_delivery commits is what one step of the service does.
LEMMA CommitTransitionIsStep ==
  ASSUME TypeOK, LockInv, NEW s \in Sessions, CommitTransition(s)
  PROVE  LockInv' /\ Next
<1> DEFINE d == session[s].d
           to == session[s].to
<1>1. /\ session[s] \in TransitionLocked
      /\ d \in Deliveries /\ to \in Statuses
      /\ HoldsDelivery(s, d)
  BY Forms DEF CommitTransition, LockInv, TransitionLocked, HoldsDelivery
<1>2. session[s].row = delivery[d] /\ delivery[d] \in DeliveryRow
  BY <1>1 DEF LockInv, CopyIsCurrent, TypeOK
<1>3. Allowed(d, to)
  BY DEF CommitTransition, LockInv, DecisionHolds
<1>4. delivery' = [delivery EXCEPT ![d] = Moved(@, to)]
  BY <1>1, <1>2 DEF CommitTransition, TypeOK
<1>5. TransitionDelivery(d, to)
  BY <1>3, <1>4 DEF CommitTransition, TransitionDelivery
<1>6. LockInv'
  <2>1. \A e \in Deliveries \ {d} : delivery'[e] = delivery[e]
    BY <1>4 DEF TypeOK
  <2>2. \A k \in Couriers : /\ courier'[k].branch = courier[k].branch
                             /\ courier'[k].status # Absent
    BY DEF CommitTransition, LockInv, NamedExist
  <2>3. delivery'[d].status # Absent
    BY <1>1, <1>2, <1>4 DEF TypeOK, Moved, DeliveryRow, Statuses, Absent
  <2>4. Go(s, Idle)
    BY DEF CommitTransition
  <2>5. QED
    BY <1>1, <2>1, <2>2, <2>3, <2>4, CommitKeepsInv
<1>7. QED
  BY <1>1, <1>5, <1>6 DEF Next

-------------------------------------------------------------------------------
(* create_delivery takes no lock that others wait for.                     *)

\* A transaction has locked none of the rows that are still to be inserted.
LEMMA CreateKeepsInv ==
  ASSUME TypeOK, Inv, LockInv, NEW d \in Deliveries, Create(d)
  PROVE  LockInv' /\ Next
<1>1. Next /\ UNCHANGED <<courier, session>>
  BY DEF Create, Next, lockVars, InsertDelivery, LogCreation, AnnounceCreation
<1>2. \A x \in Sessions, e \in Deliveries : HoldsDelivery(x, e)' <=> HoldsDelivery(x, e)
  BY <1>1 DEF HoldsDelivery, In
<1>3. ASSUME NEW e \in Deliveries, delivery[e].status # Absent
      PROVE  delivery'[e] = delivery[e]
  <2>1. CASE UNCHANGED delivery
    BY <2>1
  <2>2. CASE \E st \in InitialStatuses, b \in Branches \cup {None} : InsertDelivery(d, st, b)
    <3>1. creation[d] = NotCalled
      BY <2>2 DEF InsertDelivery
    <3>2. d # e
      BY <1>3, <3>1 DEF Inv, UncalledIsBlank, NoDelivery
    <3>3. QED
      BY <2>2, <3>2 DEF InsertDelivery, TypeOK
  <2>3. QED
    BY <2>1, <2>2 DEF Create, LogCreation, AnnounceCreation
<1>4. ASSUME NEW x \in Sessions, session[x] # Idle,
             session[x].call \in {"assign", "transition"}
      PROVE  delivery'[session[x].d] = delivery[session[x].d]
  <2>1. session[x].d \in Deliveries
    BY <1>4 DEF LockInv, Transactions, Idle, AssignBegun, AssignLocked, TransitionBegun,
                TransitionLocked, TrackBegun, TrackLocked
  <2>2. delivery[session[x].d].status # Absent
    BY <1>4 DEF LockInv, NamedExist
  <2>3. QED
    BY <1>3, <2>1, <2>2
<1>5. CopyIsCurrent'
  <2>1. ASSUME NEW x \in Sessions, NEW e \in Deliveries, HoldsDelivery(x, e)
        PROVE  delivery'[e] = delivery[e]
    BY <1>4, <2>1 DEF HoldsDelivery, In
  <2>2. QED
    BY <1>1, <1>2, <2>1 DEF LockInv, CopyIsCurrent
<1>6. DecisionHolds'
  <2>1. ASSUME NEW x \in Sessions, In(x, "transition", "commit")
        PROVE  Allowed(session[x].d, session[x].to)'
    <3>1. delivery'[session[x].d] = delivery[session[x].d] /\ session' = session
      BY <1>1, <1>4, <2>1 DEF In
    <3>2. Allowed(session[x].d, session[x].to)
      BY <2>1 DEF LockInv, DecisionHolds
    <3>3. QED
      BY <3>1, <3>2 DEF Allowed
  <2>2. \A x \in Sessions : In(x, "assign", "commit") =>
          Assignable(session[x].row, session[x].c)'
    BY <1>1 DEF LockInv, DecisionHolds, Assignable
  <2>3. QED
    BY <1>1, <2>1, <2>2 DEF DecisionHolds, In
<1>7. NamedExist'
  BY <1>1, <1>4 DEF LockInv, NamedExist
<1>8. QED
  BY <1>1, <1>5, <1>6, <1>7 DEF LockInv

-------------------------------------------------------------------------------
(* Theorems.                                                               *)

\* The invariant of the tables and of the sessions, inductive together.
AllInv == TypeOK /\ Inv /\ LockInv /\ now \in Time

\* Every statement keeps the invariant, and is a step of the service or none.
LEMMA StatementIsStep ==
  AllInv /\ [LockNext]_allVars => AllInv' /\ [Next]_vars
<1> SUFFICES ASSUME AllInv, [LockNext]_allVars
             PROVE  AllInv' /\ [Next]_vars
  OBVIOUS
<1> USE DEF AllInv
<1>1. LockInv' /\ [Next]_vars
  <2>1. ASSUME NEW s \in Sessions, Request(s)
        PROVE  LockInv' /\ [Next]_vars
    BY <2>1, RequestKeepsInv
  <2>2. ASSUME NEW s \in Sessions, Step(s)
        PROVE  LockInv' /\ [Next]_vars
    BY <2>2, LockRowKeepsInv, LockCourierKeepsInv, CommitAssignIsStep,
       LockForTransitionKeepsInv, CommitTransitionIsStep, TrackingKeepsInv DEF Step
  <2>3. ASSUME NEW s \in Sessions, BreakDeadlock(s) \/ Disconnect(s)
        PROVE  LockInv' /\ [Next]_vars
    BY <2>3, LeaveKeepsInv DEF BreakDeadlock, Disconnect, Leave
  <2>4. ASSUME NEW d \in Deliveries, Create(d)
        PROVE  LockInv' /\ [Next]_vars
    BY <2>4, CreateKeepsInv
  <2>5. CASE UNCHANGED <<vars, session>>
    BY <2>5 DEF vars, LockInv, CopyIsCurrent, DecisionHolds, NamedExist, HoldsDelivery, In,
                Assignable, Allowed
  <2>6. QED
    BY <2>1, <2>2, <2>3, <2>4, <2>5 DEF LockNext, Tick, allVars, lockVars
<1>2. TypeOK' /\ Inv'
  BY <1>1, TypeKept, InvKept
<1>3. now' \in Time
  <2>1. CASE Tick
    BY <2>1, LockAssumption DEF Tick, Time
  <2>2. CASE UNCHANGED now
    BY <2>2
  <2>3. QED
    BY <2>1, <2>2 DEF LockNext, Request, Step, BeginAssign, BeginTransition, BeginTracking,
       Begin, LockRow, LockCourier, CommitAssign, LockForTransition, CommitTransition,
       LockForTracking, CommitTracking, BreakDeadlock, Disconnect, Leave, Create,
       allVars, lockVars
<1>4. QED
  BY <1>1, <1>2, <1>3

LEMMA AllInvInit == LockInit => AllInv
<1> SUFFICES ASSUME LockInit PROVE AllInv
  OBVIOUS
<1>1. TypeOK
  BY DEF LockInit, Init, TypeOK, NoDelivery, DeliveryRow, CourierRow, Creation, CourierStatuses
<1>2. Inv
  BY InvInit DEF LockInit
<1>3. LockInv
  BY DEF LockInit, Init, LockInv, Transactions, CopyIsCurrent, DecisionHolds, NamedExist,
         HoldsDelivery, In, Absent
<1>4. now \in Time
  BY LockAssumption DEF LockInit, Time
<1>5. QED
  BY <1>1, <1>2, <1>3, <1>4 DEF AllInv

\* What a transaction read under its lock is the row until it commits, and no
\* other transaction has that row, for any number of sessions.
THEOREM CopiesStayCurrent == LockSpec => []CopyIsCurrent
<1>1. AllInv => CopyIsCurrent
  BY DEF AllInv, LockInv
<1>2. QED
  BY <1>1, AllInvInit, StatementIsStep, PTL DEF LockSpec

\* Statement by statement, the transactions of the three services behave as if
\* each call were one step: what is proved about DeliveryService holds of them.
THEOREM LocksMakeCallsAtomic == LockSpec => CallsAreAtomic
<1>1. LockInit => Init
  BY DEF LockInit
<1>2. QED
  BY <1>1, AllInvInit, StatementIsStep, PTL DEF LockSpec, CallsAreAtomic, Spec

\* Statement by statement, and whatever deadlocks are broken and connections
\* lost, the transactions are a behaviour of the lifecycle the service promises.
THEOREM LocksImplementLifecycle == LockSpec => ImplementsLifecycle
BY LocksMakeCallsAtomic, ServiceImplementsLifecycle, PTL DEF CallsAreAtomic

-------------------------------------------------------------------------------
(* The throttle.                                                           *)

\* A log that is late enough after the last one keeps the log throttled.
LEMMA LateLog ==
  ASSUME NEW log \in Seq(Time), NEW t \in Time,
         \A i \in 1..(Len(log) - 1) : log[i + 1] - log[i] >= Interval,
         log = <<>> \/ t - log[Len(log)] >= Interval
  PROVE  /\ Append(log, t) \in Seq(Time)
         /\ Append(log, t) # <<>>
         /\ Append(log, t)[Len(Append(log, t))] = t
         /\ \A i \in 1..(Len(Append(log, t)) - 1) :
              Append(log, t)[i + 1] - Append(log, t)[i] >= Interval
<1>1. /\ Append(log, t) \in Seq(Time)
      /\ Len(Append(log, t)) = Len(log) + 1
      /\ Append(log, t)[Len(log) + 1] = t
      /\ \A i \in 1..Len(log) : Append(log, t)[i] = log[i]
  OBVIOUS
<1>2. Len(log) \in Nat /\ (log = <<>> <=> Len(log) = 0)
  OBVIOUS
<1>3. ASSUME NEW i \in 1..Len(log)
      PROVE  Append(log, t)[i + 1] - Append(log, t)[i] >= Interval
  <2>1. CASE i = Len(log)
    BY <1>1, <1>2, <1>3, <2>1
  <2>2. CASE i # Len(log)
    <3>1. i \in 1..(Len(log) - 1) /\ i + 1 \in 1..Len(log)
      BY <1>2, <1>3, <2>2
    <3>2. QED
      BY <1>1, <3>1
  <2>3. QED
    BY <2>1, <2>2
<1>4. Append(log, t) # <<>>
  <2>1. Len(<<>>) = 0 /\ Len(Append(log, t)) # 0
    BY <1>1, <1>2
  <2>2. QED
    BY <2>1
<1>5. QED
  BY <1>1, <1>2, <1>3, <1>4

\* The locks on couriers after a step of s: the other sessions keep theirs.
LEMMA OthersHold ==
  ASSUME NEW x \in Sessions, session'[x] = session[x]
  PROVE  /\ \A c \in Couriers : HoldsCourier(x, c)' <=> HoldsCourier(x, c)
         /\ In(x, "track", "commit")' <=> In(x, "track", "commit")
BY DEF HoldsCourier, In

\* A session that goes on, and leaves the logs alone, keeps the throttle when it
\* holds a courier only after finding it free.
LEMMA GoesOnThrottled ==
  ASSUME session \in [Sessions -> Transactions], ThrottleInv,
         NEW s \in Sessions, NEW t, Go(s, t), UNCHANGED <<located, logs>>,
         now' \in Time,
         \A c \in Couriers : HoldsCourier(s, c)' => FreeCourier(c),
         In(s, "track", "commit")' =>
           t.c \in Couriers /\ (located[t.c] = None \/ t.time - located[t.c] >= Interval)
  PROVE  ThrottleInv'
<1>1. session'[s] = t /\ \A x \in Sessions \ {s} : session'[x] = session[x]
  BY Gone
<1>2. ASSUME NEW x \in Sessions, In(x, "track", "commit")'
      PROVE  OnTime(x)' /\ AloneOnCourier(x)'
  <2>1. CASE x = s
    <3>1. t.c \in Couriers /\ HoldsCourier(s, t.c)'
      BY <1>1, <1>2, <2>1 DEF HoldsCourier
    <3>2. OnTime(x)'
      BY <1>1, <1>2, <2>1 DEF OnTime
    <3>3. AloneOnCourier(x)'
      BY <1>1, <2>1, <3>1, OthersHold DEF FreeCourier, AloneOnCourier
    <3>4. QED
      BY <3>2, <3>3
  <2>2. CASE x # s
    <3>1. session'[x] = session[x] /\ In(x, "track", "commit")
      BY <1>1, <1>2, <2>2, OthersHold
    <3>2. session[x].c \in Couriers
      BY <3>1, Forms DEF TrackLocked
    <3>3. ~HoldsCourier(s, session[x].c)'
      BY <2>2, <3>1, <3>2 DEF FreeCourier, HoldsCourier
    <3>4. OnTime(x) /\ AloneOnCourier(x)
      BY <3>1 DEF ThrottleInv
    <3>5. OnTime(x)'
      BY <3>1, <3>4 DEF OnTime
    <3>6. AloneOnCourier(x)'
      BY <1>1, <3>1, <3>2, <3>3, <3>4, OthersHold DEF AloneOnCourier
    <3>7. QED
      BY <3>5, <3>6
  <2>3. QED
    BY <2>1, <2>2
<1>3. QED
  BY <1>2 DEF ThrottleInv, Throttled

\* A tracking update that commits.
LEMMA CommitTrackingThrottled ==
  ASSUME session \in [Sessions -> Transactions], ThrottleInv,
         NEW s \in Sessions, CommitTracking(s)
  PROVE  ThrottleInv'
<1> DEFINE c == session[s].c
           t == session[s].time
<1>1. In(s, "track", "commit") /\ c \in Couriers /\ t \in Time
  BY Forms DEF CommitTracking, TrackLocked
<1>2. /\ located[c] = None \/ t - located[c] >= Interval
      /\ \A x \in Sessions \ {s} : ~HoldsCourier(x, c)
  BY <1>1 DEF ThrottleInv, OnTime, AloneOnCourier
<1>3. /\ session'[s] = Idle
      /\ \A x \in Sessions \ {s} : session'[x] = session[x]
  BY Gone DEF CommitTracking
<1>4. /\ located' = [located EXCEPT ![c] = t]
      /\ logs' = [logs EXCEPT ![c] = Append(logs[c], t)]
      /\ now' = now
  BY DEF CommitTracking
<1>5. /\ Append(logs[c], t) \in Seq(Time)
      /\ Append(logs[c], t) # <<>>
      /\ Append(logs[c], t)[Len(Append(logs[c], t))] = t
      /\ \A i \in 1..(Len(Append(logs[c], t)) - 1) :
           Append(logs[c], t)[i + 1] - Append(logs[c], t)[i] >= Interval
  <2>1. logs[c] \in Seq(Time) /\ located[c] \in Time \cup {None}
    BY <1>1 DEF ThrottleInv
  <2>2. \A i \in 1..(Len(logs[c]) - 1) : logs[c][i + 1] - logs[c][i] >= Interval
    BY <1>1 DEF ThrottleInv, Throttled
  <2>3. logs[c] = <<>> \/ t - logs[c][Len(logs[c])] >= Interval
    <3>1. CASE logs[c] = <<>>
      BY <3>1
    <3>2. CASE logs[c] # <<>>
      <4>1. located[c] = logs[c][Len(logs[c])]
        BY <1>1, <3>2 DEF ThrottleInv
      <4>2. logs[c][Len(logs[c])] \in Time
        BY <2>1, <3>2
      <4>3. located[c] # None
        BY <4>1, <4>2, LockAssumption DEF Time
      <4>4. QED
        BY <1>2, <4>1, <4>3
    <3>3. QED
      BY <3>1, <3>2
  <2>4. QED
    BY <1>1, <2>1, <2>2, <2>3, LateLog
<1>6. /\ located'[c] = t /\ logs'[c] = Append(logs[c], t)
      /\ \A k \in Couriers \ {c} : located'[k] = located[k] /\ logs'[k] = logs[k]
  BY <1>1, <1>4 DEF ThrottleInv
<1>7. /\ located' \in [Couriers -> Time \cup {None}]
      /\ logs' \in [Couriers -> Seq(Time)]
      /\ now' \in Time
  BY <1>1, <1>4, <1>5 DEF ThrottleInv
<1>8. Throttled'
  BY <1>5, <1>6 DEF ThrottleInv, Throttled
<1>9. \A k \in Couriers : IF logs'[k] = <<>> THEN located'[k] = None
                                          ELSE located'[k] = logs'[k][Len(logs'[k])]
  BY <1>5, <1>6 DEF ThrottleInv
<1>10. ASSUME NEW x \in Sessions, In(x, "track", "commit")'
       PROVE  OnTime(x)' /\ AloneOnCourier(x)'
  <2>1. x # s
    BY <1>3, <1>10 DEF In
  <2>2. session'[x] = session[x] /\ In(x, "track", "commit")
    BY <1>3, <1>10, <2>1, OthersHold
  <2>3. session[x].c \in Couriers
    BY <2>2, Forms DEF TrackLocked
  <2>4. session[x].c # c
    BY <1>2, <2>1, <2>2 DEF HoldsCourier
  <2>5. ~HoldsCourier(s, session[x].c)'
    BY <1>3 DEF HoldsCourier, In
  <2>6. OnTime(x) /\ AloneOnCourier(x)
    BY <2>2 DEF ThrottleInv
  <2>7. OnTime(x)'
    BY <1>6, <2>2, <2>3, <2>4, <2>6 DEF OnTime
  <2>8. AloneOnCourier(x)'
    BY <1>3, <2>2, <2>3, <2>5, <2>6, OthersHold DEF AloneOnCourier
  <2>9. QED
    BY <2>7, <2>8
<1>11. QED
  BY <1>7, <1>8, <1>9, <1>10 DEF ThrottleInv

\* A session that goes on to hold no courier.
LEMMA HoldsNoneThrottled ==
  ASSUME session \in [Sessions -> Transactions], ThrottleInv,
         NEW s \in Sessions, NEW t, Go(s, t), UNCHANGED <<located, logs, now>>,
         t = Idle \/ t.at = "row" \/ t.at = "courier" \/ t.call = "transition"
  PROVE  ThrottleInv'
<1>1. session'[s] = t
  BY Gone
<1>2. (\A c \in Couriers : ~HoldsCourier(s, c)') /\ ~In(s, "track", "commit")'
  BY <1>1 DEF HoldsCourier, In
<1>3. now' \in Time
  BY DEF ThrottleInv
<1>4. QED
  BY <1>2, <1>3, GoesOnThrottled

\* A tracking update that gets its courier's lock.
LEMMA LockForTrackingThrottled ==
  ASSUME session \in [Sessions -> Transactions], ThrottleInv,
         NEW s \in Sessions, LockForTracking(s)
  PROVE  ThrottleInv'
<1> DEFINE c == session[s].c
           t == [call |-> "track", at |-> "commit", c |-> c, d |-> session[s].d, time |-> now]
<1>1. UNCHANGED <<located, logs, now>>
  BY DEF LockForTracking
<1>2. CASE Go(s, Idle)
  BY <1>1, <1>2, HoldsNoneThrottled
<1>3. CASE ~Recent(c) /\ Go(s, t)
  <2>1. c \in Couriers
    BY Forms DEF LockForTracking, TrackBegun
  <2>2. located[c] = None \/ now - located[c] >= Interval
    BY <1>3, <2>1, LockAssumption DEF Recent, ThrottleInv, Time
  <2>3. session'[s] = t
    BY <1>3, Gone
  <2>4. \A k \in Couriers : HoldsCourier(s, k)' => k = c
    BY <2>3 DEF HoldsCourier
  <2>5. FreeCourier(c)
    BY DEF LockForTracking, FreeToTrack
  <2>6. now' \in Time
    BY <1>1 DEF ThrottleInv
  <2>7. QED
    BY <1>1, <1>3, <2>1, <2>2, <2>4, <2>5, <2>6, GoesOnThrottled
<1>4. QED
  BY <1>2, <1>3 DEF LockForTracking

\* assign_courier takes the courier's lock only when it is free.
LEMMA LockCourierThrottled ==
  ASSUME session \in [Sessions -> Transactions], ThrottleInv,
         NEW s \in Sessions, LockCourier(s)
  PROVE  ThrottleInv'
<1> DEFINE t == [session[s] EXCEPT !.at = "commit"]
<1>1. UNCHANGED <<located, logs, now>> /\ FreeCourier(session[s].c)
  BY DEF LockCourier
<1>2. CASE Go(s, Idle)
  BY <1>1, <1>2, HoldsNoneThrottled
<1>3. CASE Go(s, t)
  <2>1. t.call = "assign" /\ t.c = session[s].c
    BY Forms DEF LockCourier, AssignLocked
  <2>2. session'[s] = t
    BY <1>3, Gone
  <2>3. ~In(s, "track", "commit")' /\ \A k \in Couriers : HoldsCourier(s, k)' => k = session[s].c
    BY <2>1, <2>2 DEF HoldsCourier, In
  <2>4. now' \in Time
    BY <1>1 DEF ThrottleInv
  <2>5. QED
    BY <1>1, <1>3, <2>3, <2>4, GoesOnThrottled
<1>4. QED
  BY <1>2, <1>3 DEF LockCourier

\* Every statement keeps the throttle.
LEMMA ThrottleKept ==
  AllInv /\ ThrottleInv /\ [LockNext]_allVars => ThrottleInv'
<1> SUFFICES ASSUME session \in [Sessions -> Transactions], ThrottleInv, [LockNext]_allVars
             PROVE  ThrottleInv'
  BY DEF AllInv, LockInv
<1>1. ASSUME NEW s \in Sessions, Request(s)
      PROVE  ThrottleInv'
  <2>1. ASSUME NEW t, Begin(s, t), t.at = "row" \/ t.at = "courier"
        PROVE  ThrottleInv'
    BY <2>1, HoldsNoneThrottled DEF Begin
  <2>2. QED
    BY <1>1, <2>1 DEF Request, BeginAssign, BeginTransition, BeginTracking
<1>2. ASSUME NEW s \in Sessions, LockRow(s)
      PROVE  ThrottleInv'
  BY <1>2, HoldsNoneThrottled DEF LockRow
<1>3. ASSUME NEW s \in Sessions, LockForTransition(s)
      PROVE  ThrottleInv'
  BY <1>3, HoldsNoneThrottled DEF LockForTransition
<1>4. ASSUME NEW s \in Sessions,
             \/ CommitAssign(s) \/ CommitTransition(s) \/ BreakDeadlock(s) \/ Disconnect(s)
      PROVE  ThrottleInv'
  BY <1>4, HoldsNoneThrottled DEF CommitAssign, CommitTransition, BreakDeadlock, Disconnect, Leave
<1>5. CASE Tick \/ (\E d \in Deliveries : Create(d)) \/ UNCHANGED allVars
  <2>1. UNCHANGED <<session, located, logs>>
    BY <1>5 DEF Tick, Create, lockVars, allVars
  <2>2. now' \in Time
    BY <1>5, LockAssumption DEF Tick, Create, lockVars, allVars, ThrottleInv, Time
  <2>3. QED
    BY <2>1, <2>2 DEF ThrottleInv, Throttled, OnTime, AloneOnCourier, HoldsCourier, In
<1>6. QED
  BY <1>1, <1>2, <1>3, <1>4, <1>5, LockForTrackingThrottled, LockCourierThrottled,
     CommitTrackingThrottled DEF LockNext, Step

\* No two positions of a courier are logged within the interval, however many
\* sessions report them at once.
THEOREM ThrottleHolds == LockSpec => []Throttled
<1>1. LockInit => ThrottleInv
  BY LockAssumption DEF LockInit, ThrottleInv, Throttled, Time, In
<1>2. ThrottleInv => Throttled
  BY DEF ThrottleInv
<1>3. QED
  BY <1>1, <1>2, AllInvInit, StatementIsStep, ThrottleKept, PTL DEF LockSpec
===============================================================================
