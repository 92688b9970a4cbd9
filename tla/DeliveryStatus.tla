---------------------------- MODULE DeliveryStatus ----------------------------
(***************************************************************************)
(* The vocabulary every delivery module shares: Delivery.Status, the       *)
(* table VALID_TRANSITIONS of core/services.py and the time stamps that    *)
(* transition_delivery writes.  No state.                                  *)
(***************************************************************************)

Statuses == {"requested", "pending", "assigned", "accepted", "picked_up",
             "in_transit", "delivered", "failed", "cancelled"}

\* The status in place of a row that is not in the table.
Absent == "absent"

VALID_TRANSITIONS ==
  [requested  |-> {"pending", "cancelled"},
   pending    |-> {"assigned", "cancelled"},
   assigned   |-> {"accepted", "picked_up", "cancelled"},
   accepted   |-> {"picked_up", "cancelled"},
   picked_up  |-> {"in_transit", "failed"},
   in_transit |-> {"delivered", "failed"},
   delivered  |-> {},
   failed     |-> {},
   cancelled  |-> {}]

\* Delivery.is_terminal.
Terminal == {"delivered", "failed", "cancelled"}

\* The statuses create_delivery is called with.
InitialStatuses == {"requested", "pending"}

\* A delivery in one of these locks its courier's status (CourierViewSet.status).
UnderWay == {"accepted", "picked_up", "in_transit"}

\* The statuses with a time stamp column of their own: accepted_at,
\* picked_up_at, completed_at, failed_at and cancelled_at.  A row's set of
\* stamps names the columns that are not null by the status that fills them.
Stamped == {"accepted", "picked_up", "delivered", "failed", "cancelled"}

\* The terminal statuses whose notification tells the recipient how it ended.
Outcomes == {"delivered", "failed"}
===============================================================================
