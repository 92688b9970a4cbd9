------------------------- MODULE MC_ScheduledRelease --------------------------
(* A small instance of ScheduledRelease: one delivery and one run.         *)
EXTENDS ScheduledRelease
===============================================================================
