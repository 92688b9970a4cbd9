------------------------------ MODULE MC_RowLocks ------------------------------
(* A small instance of RowLocks.                                           *)
EXTENDS RowLocks
===============================================================================
