-------------------------------- MODULE Sessions --------------------------------
(***************************************************************************)
(* Refresh tokens of one account and support sessions: rotate_refresh_token*)
(* of core/security.py, the views that start and end an impersonation, and *)
(* the task that cleans up after both, cleanup_expired_security_state of   *)
(* core/services.py.  Every statement commits on its own.                  *)
(***************************************************************************)
EXTENDS Naturals

CONSTANTS
  Tokens,       \* refresh tokens, numbered in the order of their insertion
  Supports,     \* primary keys of impersonation sessions
  Workers,      \* server threads
  Refresh,      \* JWT_REFRESH_TTL
  Retention,    \* refresh_retention_days, one at least
  MaxTime       \* bound: the clock

VARIABLES
  now,          \* the clock
  token,        \* the refresh_tokens table
  rotation,     \* what each worker has read and is about to write
  answered,     \* history: tokens whose rotation returned a pair
  replays,      \* history: tokens made from one that had been answered
  support,      \* the impersonation_sessions table
  closing,      \* requests that read a support session to end it
  cleanup       \* the statement the task is at

vars == <<now, token, rotation, answered, replays, support, closing, cleanup>>
tokens == <<token, rotation, answered, replays>>
supports == <<support, closing>>

Absent == [at |-> "absent", expires |-> 0, revoked |-> TRUE]

Deleted == [at |-> "deleted", expires |-> 0, revoked |-> TRUE]

Fresh == [at |-> "stored", expires |-> now + Refresh, revoked |-> FALSE]

Idle == [at |-> "idle"]

NoSupport == [status |-> "none", expires |-> 0, ended |-> FALSE]

Init ==
  /\ now = 0
  /\ token = [t \in Tokens |-> Absent]
  /\ rotation = [w \in Workers |-> Idle]
  /\ answered = {} /\ replays = {}
  /\ support = [s \in Supports |-> NoSupport]
  /\ closing = {}
  /\ cleanup = "idle"

Present == {t \in Tokens : token[t].at = "stored"}

Tick ==
  /\ now < MaxTime
  /\ now' = now + 1
  /\ UNCHANGED <<tokens, supports, cleanup>>

-------------------------------------------------------------------------------
(* Refresh tokens.                                                         *)

Insert(t) ==
  /\ \A u \in Tokens : token[u] = Absent <=> u >= t
  /\ token' = [token EXCEPT ![t] = Fresh]

Login(t) ==
  /\ Insert(t)
  /\ UNCHANGED <<now, rotation, answered, replays, supports, cleanup>>

\* The row is read, and must be active.
BeginRotation(w, t) ==
  /\ rotation[w] = Idle
  /\ t \in Present
  /\ ~token[t].revoked
  /\ token[t].expires > now
  /\ rotation' = [rotation EXCEPT ![w] = [at |-> "create", old |-> t,
                                          replay |-> t \in answered]]
  /\ UNCHANGED <<now, token, answered, replays, supports, cleanup>>

CreateNext(w, n) ==
  /\ rotation[w].at = "create"
  /\ Insert(n)
  /\ rotation' = [rotation EXCEPT ![w] = [at |-> "revoke", old |-> @.old, new |-> n,
                                          replay |-> @.replay]]
  /\ replays' = IF rotation[w].replay THEN replays \cup {n} ELSE replays
  /\ UNCHANGED <<now, answered, supports, cleanup>>

\* Mutant of Revoke: revoked_at is not among the saved columns.
RevokeUnsaved(w) ==
  LET r == rotation[w] IN
    /\ r.at = "revoke"
    /\ answered' = IF {r.old, r.new} \subseteq Present THEN answered \cup {r.old} ELSE answered
    /\ rotation' = [rotation EXCEPT ![w] = Idle]
    /\ UNCHANGED <<now, token, replays, supports, cleanup>>

\* save(update_fields=["revoked_at", "rotated_to", ...]) and the answer; either
\* row may have been cleaned up, and then the save raises.
Revoke(w) ==
  LET r == rotation[w] IN
    /\ r.at = "revoke"
    /\ IF {r.old, r.new} \subseteq Present
       THEN /\ token' = [token EXCEPT ![r.old].revoked = TRUE]
            /\ answered' = answered \cup {r.old}
       ELSE UNCHANGED <<token, answered>>
    /\ rotation' = [rotation EXCEPT ![w] = Idle]
    /\ UNCHANGED <<now, replays, supports, cleanup>>

\* The process dies; a token it inserted stays, and the old one is active still.
Crash(w) ==
  /\ rotation[w] # Idle
  /\ rotation' = [rotation EXCEPT ![w] = Idle]
  /\ UNCHANGED <<now, token, answered, replays, supports, cleanup>>

-------------------------------------------------------------------------------
(* Support sessions.                                                       *)

StartSupport(s, duration) ==
  /\ support[s] = NoSupport
  /\ support' = [support EXCEPT ![s] = [status |-> "active", expires |-> now + duration,
                                        ended |-> FALSE]]
  /\ UNCHANGED <<now, tokens, closing, cleanup>>

BeginEnd(s) ==
  /\ support[s] # NoSupport
  /\ closing' = closing \cup {s}
  /\ UNCHANGED <<now, tokens, support, cleanup>>

\* Status and ended_at are saved whatever they are by now.
SaveEnd(s) ==
  /\ s \in closing
  /\ support' = [support EXCEPT ![s].status = "ended", ![s].ended = TRUE]
  /\ closing' = closing \ {s}
  /\ UNCHANGED <<now, tokens, cleanup>>

-------------------------------------------------------------------------------
(* The task cleanup_expired_sessions_and_tokens: two statements.           *)

\* Mutant of Overdue: sessions that have an end.
OverdueEnded == {s \in Supports : support[s].status = "active" /\ support[s].expires <= now
                                  /\ support[s].ended}

Overdue == {s \in Supports : support[s].status = "active" /\ support[s].expires <= now
                             /\ ~support[s].ended}

ExpireSupports ==
  /\ cleanup = "idle"
  /\ support' = [s \in Supports |->
                   IF s \in Overdue
                   THEN [support[s] EXCEPT !.status = "expired", !.ended = TRUE]
                   ELSE support[s]]
  /\ cleanup' = "tokens"
  /\ UNCHANGED <<now, tokens, closing>>

\* rotated_to of the rows that stay is set to NULL.
DeleteTokens ==
  /\ cleanup = "tokens"
  /\ token' = [t \in Tokens |->
                 IF t \in Present /\ token[t].expires + Retention < now
                 THEN Deleted ELSE token[t]]
  /\ cleanup' = "idle"
  /\ UNCHANGED <<now, rotation, answered, replays, supports>>

\* The worker dies between the two.
CleanupDies ==
  /\ cleanup = "tokens"
  /\ cleanup' = "idle"
  /\ UNCHANGED <<now, tokens, supports>>

Cleanup == ExpireSupports \/ DeleteTokens

Next ==
  \/ Tick
  \/ \E t \in Tokens : Login(t)
  \/ \E w \in Workers :
       \/ \E t \in Tokens : BeginRotation(w, t) \/ CreateNext(w, t)
       \/ Revoke(w) \/ Crash(w)
  \/ \E s \in Supports :
       \/ \E duration \in 1..MaxTime : StartSupport(s, duration)
       \/ BeginEnd(s) \/ SaveEnd(s)
  \/ Cleanup \/ CleanupDies

\* The deployment's scheduler starts the task again and again.
Fairness == WF_vars(Cleanup)

Spec == Init /\ [][Next]_vars /\ Fairness

-------------------------------------------------------------------------------
(* Properties.                                                             *)

\* A refresh token whose rotation was answered is not exchanged by a request
\* that comes later, however other rotations of it overlap, die half-way or run
\* into the clean-up: it forks only among requests that read it before.
ReplayRefused == replays = {}

\* A support session that has run out is closed in the end, though the task
\* dies between its statements and requests end sessions beside it.
ExpiredIsClosed ==
  \A s \in Supports :
    support[s].status = "active" /\ support[s].expires <= now ~> support[s].status # "active"
===============================================================================
