-------------------------------- MODULE MC_Jobs --------------------------------
(* Small instances of Scheduler.  A behaviour is one of a single task:     *)
(* part, chosen at the start, says of which.                               *)
EXTENDS Scheduler, TLC

CONSTANT MaxDisturbances  \* bound

VARIABLE part

sessionVars == <<clock, token, rotation, answered, replays, support, closing, cleanup>>
jobVars == <<part, vars, sessionVars>>

JobsInit ==
  /\ part \in {"release", "sessions"}
  /\ Init
  /\ Auth!Init

\* What is done to the deliveries beside the runs: edits, deletions, metadata with
\* a mark and malformed metadata.
Disturbances ==
  edits + deletes + Cardinality(supplied)
    + Cardinality({d \in Deliveries : row[d].mark = "malformed"})

ReleaseDue ==
  /\ part = "release" /\ Next
  /\ Disturbances' <= MaxDisturbances
  /\ UNCHANGED <<part, sessionVars>>

CleanUp == part = "sessions" /\ Auth!Next /\ UNCHANGED <<part, vars>>

JobsFairness ==
  /\ \A j \in Jobs : WF_jobVars(part = "release" /\ JobStep(j) /\ UNCHANGED <<part, sessionVars>>)
  /\ WF_jobVars(part = "sessions" /\ Auth!Cleanup /\ UNCHANGED <<part, vars>>)

JobsSpec == JobsInit /\ [][ReleaseDue \/ CleanUp]_jobVars /\ JobsFairness
===============================================================================
