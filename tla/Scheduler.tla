------------------------------- MODULE Scheduler -------------------------------
(***************************************************************************)
(* What the scheduler starts: the release task, which is ScheduledRelease, *)
(* beside the clean-up task with the rows it cleans, which is Sessions.    *)
(* The two share no rows.                                                  *)
(***************************************************************************)
EXTENDS ScheduledRelease

CONSTANTS
  Tokens,       \* refresh tokens, numbered in the order of their insertion
  Supports,     \* primary keys of impersonation sessions
  Workers,      \* server threads
  Refresh,      \* JWT_REFRESH_TTL
  Retention,    \* refresh_retention_days
  SessionTime   \* bound: the clock of Sessions

ASSUME SchedulerAssumption ==
  /\ Tokens \subseteq Nat
  /\ {Refresh, Retention, SessionTime} \subseteq Nat

VARIABLES clock, token, rotation, answered, replays, support, closing, cleanup

Auth == INSTANCE Sessions WITH now <- clock, MaxTime <- SessionTime

\* No later request exchanges a refresh token whose rotation was answered.
ReplayRefused == Auth!ReplayRefused

\* A support session that has run out is closed in the end.
ExpiredIsClosed == Auth!ExpiredIsClosed
===============================================================================
