----------------------------- MODULE MC_Branches ------------------------------
(* A small instance of Branches: two requests that overlap.                *)
EXTENDS Branches
===============================================================================
