--------------------------- MODULE DeliveryLifecycle ---------------------------
(***************************************************************************)
(* What the delivery service promises, without its tables: a delivery is   *)
(* opened once, waits, is committed to, moves, and ends in one way; it     *)
(* gets at most one carrier, which it keeps; how it ended is told once, by *)
(* the step that ends it, unless it was cancelled, which it can be only    *)
(* before it moves.                                                        *)
(***************************************************************************)
CONSTANTS Deliveries, Carriers, None

VARIABLES
  phase,     \* how far each delivery is
  carrier,   \* who carries it
  told       \* whether its outcome was told

lifecycle == <<phase, carrier, told>>

Init ==
  /\ phase = [d \in Deliveries |-> "unborn"]
  /\ carrier = [d \in Deliveries |-> None]
  /\ told = [d \in Deliveries |-> FALSE]

Enter(d, from, to) ==
  /\ phase[d] = from
  /\ phase' = [phase EXCEPT ![d] = to]

Open(d) == Enter(d, "unborn", "waiting") /\ UNCHANGED <<carrier, told>>

\* A waiting delivery may be committed to with or without a carrier.
Commit(d) == Enter(d, "waiting", "committed") /\ UNCHANGED <<carrier, told>>

Bind(d, c) ==
  /\ phase[d] \in {"waiting", "committed", "moving"}
  /\ carrier[d] = None
  /\ carrier' = [carrier EXCEPT ![d] = c]
  /\ \/ phase[d] = "waiting" /\ phase' = [phase EXCEPT ![d] = "committed"]
     \/ UNCHANGED phase
  /\ UNCHANGED told

Move(d) == Enter(d, "committed", "moving") /\ UNCHANGED <<carrier, told>>

End(d, outcome) ==
  /\ Enter(d, "moving", outcome)
  /\ told' = [told EXCEPT ![d] = TRUE]
  /\ UNCHANGED carrier

Cancel(d) ==
  /\ Enter(d, "waiting", "cancelled") \/ Enter(d, "committed", "cancelled")
  /\ UNCHANGED <<carrier, told>>

Next ==
  \E d \in Deliveries :
    \/ Open(d)
    \/ Commit(d)
    \/ \E c \in Carriers : Bind(d, c)
    \/ Move(d)
    \/ \E outcome \in {"delivered", "failed"} : End(d, outcome)
    \/ Cancel(d)

Spec == Init /\ [][Next]_lifecycle
===============================================================================
