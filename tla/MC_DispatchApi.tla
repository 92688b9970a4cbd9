---------------------------- MODULE MC_DispatchApi ----------------------------
(* Small instances of DispatchApi: two edits of one courier's rows, or one *)
(* transition at a time by two couriers, or one request at a time that     *)
(* concerns the status of one.                                             *)
EXTENDS DispatchApi, TLC

Symmetry == Permutations(Couriers) \cup Permutations(Branches) \cup Permutations(Workers)

EditsAndActions ==
  {[kinds |-> {"edit_delivery", "edit_courier"},
    workers |-> 2, couriers |-> 1, deletes |-> 1],
   [kinds |-> {"own_transition"}, workers |-> 1, couriers |-> 2, deletes |-> 0],
   [kinds |-> {"status", "login", "profile"}, workers |-> 1, couriers |-> 1, deletes |-> 0]}

StatusOnly == {[kinds |-> {"status"}, workers |-> 1, couriers |-> 2, deletes |-> 0]}
===============================================================================
