------------------------------ MODULE MC_Uploads ------------------------------
(* A small instance of Uploads.                                            *)
EXTENDS Uploads

Spec == Init /\ [][Next]_vars
===============================================================================
