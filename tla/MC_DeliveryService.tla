-------------------------- MODULE MC_DeliveryService --------------------------
(* Small instances of DeliveryService.                                     *)
EXTENDS DeliveryService, TLC

Symmetry == Permutations(Deliveries) \cup Permutations(Couriers) \cup Permutations(Branches)
===============================================================================
