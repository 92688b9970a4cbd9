-------------------------------- MODULE LoginLock --------------------------------
(***************************************************************************)
(* Failed logins and the lock they lead to: is_login_locked and            *)
(* record_login_attempt of core/security.py, called by the login views of  *)
(* organization and platform users.  One identity is modelled: subject     *)
(* type, organization, email and address.  Nothing is locked; the state is *)
(* read, and what was read is saved.  The unique constraint of the table   *)
(* does not bind an identity without an organization: NULLs are distinct.  *)
(***************************************************************************)
EXTENDS Naturals, Sequences

CONSTANTS
  Workers,      \* server threads; each handles one request at a time
  MaxFailures,  \* LOGIN_MAX_FAILED_ATTEMPTS
  Lockout,      \* LOGIN_LOCKOUT_MINUTES
  MaxTime,      \* bound: the clock
  MaxLogins     \* bound: logins begun

VARIABLES
  now,          \* the clock
  tenant,       \* whether the identity has an organization
  states,       \* its rows of login_security_states
  login,        \* the login each worker handles
  logins,       \* logins begun so far
  streak        \* history: failures in a row that met no other login, and the last

vars == <<now, tenant, states, login, logins, streak>>

\* locked_until: 0 is NULL.
Fresh == [count |-> 0, until |-> 0]

Idle == [at |-> "idle", alone |-> TRUE]

NoStreak == [length |-> 0, last |-> 0]

Init ==
  /\ now = 0
  /\ tenant \in BOOLEAN
  /\ states = <<>>
  /\ login = [w \in Workers |-> Idle]
  /\ logins = 0
  /\ streak = NoStreak

Locked(s) == s.until > now

Goto(w, at) == login' = [login EXCEPT ![w].at = at]

Reply(w) == login' = [login EXCEPT ![w] = Idle]

Tick ==
  /\ now < MaxTime
  /\ now' = now + 1
  /\ UNCHANGED <<tenant, states, login, logins, streak>>

-------------------------------------------------------------------------------
(* is_login_locked.                                                        *)

Busy == {v \in Workers : login[v] # Idle}

\* A login that meets another is not alone, and nor is the other.
Arrive(w, at) ==
  /\ login[w] = Idle
  /\ logins < MaxLogins
  /\ logins' = logins + 1
  /\ login' = [v \in Workers |->
                 CASE v = w -> [at |-> at, alone |-> Busy = {}]
                   [] v \in Busy -> [login[v] EXCEPT !.alone = FALSE]
                   [] OTHER -> login[v]]

\* get() of get_or_create finds nothing.
BeginFirst(w) ==
  /\ states = <<>>
  /\ Arrive(w, "create")
  /\ UNCHANGED <<now, tenant, states, streak>>

\* Mutant of Begin: the lock is not looked at.
BeginUnlocked(w) ==
  /\ Len(states) = 1
  /\ Arrive(w, "password")
  /\ UNCHANGED <<now, tenant, states, streak>>

\* A locked identity is answered 429 at once; more than one row raises
\* MultipleObjectsReturned.
Begin(w) ==
  /\ Len(states) = 1
  /\ ~Locked(states[1])
  /\ Arrive(w, "password")
  /\ UNCHANGED <<now, tenant, states, streak>>

\* create() of get_or_create; if the constraint refuses it, get() again.
Create(w) ==
  /\ login[w].at = "create"
  /\ IF tenant /\ states # <<>>
     THEN /\ IF Locked(states[1]) THEN Reply(w) ELSE Goto(w, "password")
          /\ UNCHANGED states
     ELSE /\ states' = Append(states, Fresh)
          /\ Goto(w, "password")
  /\ UNCHANGED <<now, tenant, logins, streak>>

-------------------------------------------------------------------------------
(* The password and the second factor, and record_login_attempt: the       *)
(* attempt is inserted, the state is read again and saved.                 *)

Outcomes == {"failed", "code missing", "passed"}

\* login_lock_state for the outcome; with two rows it raises.
ReadState(w, outcome) ==
  /\ login[w].at = "password"
  /\ IF Len(states) = 1
     THEN login' = [login EXCEPT ![w] =
                      [at |-> "save", alone |-> login[w].alone,
                       outcome |-> outcome, copy |-> states[1]]]
     ELSE Reply(w)
  /\ UNCHANGED <<now, tenant, states, logins, streak>>

\* Mutant of Counted: one failure more is let through.
CountedLate(s) ==
  [count |-> s.count + 1,
   until |-> IF s.count + 1 > MaxFailures THEN now + Lockout ELSE s.until]

Counted(s) ==
  [count |-> s.count + 1,
   until |-> IF s.count + 1 >= MaxFailures THEN now + Lockout ELSE s.until]

SaveFailure(w) ==
  /\ login[w].at = "save"
  /\ login[w].outcome = "failed"
  /\ states' = [states EXCEPT ![1] = Counted(login[w].copy)]
  /\ streak' = IF login[w].alone
               THEN [length |-> streak.length + 1, last |-> now] ELSE NoStreak
  /\ Reply(w)
  /\ UNCHANGED <<now, tenant, logins>>

\* count_for_lockout=False: only updated_at is saved.
SaveCodeMissing(w) ==
  /\ login[w].at = "save"
  /\ login[w].outcome = "code missing"
  /\ Reply(w)
  /\ UNCHANGED <<now, tenant, states, logins, streak>>

SaveSuccess(w) ==
  /\ login[w].at = "save"
  /\ login[w].outcome = "passed"
  /\ states' = [states EXCEPT ![1] = Fresh]
  /\ streak' = NoStreak
  /\ Reply(w)
  /\ UNCHANGED <<now, tenant, logins>>

\* The process dies, the attempt inserted or not.
Crash(w) ==
  /\ login[w] # Idle
  /\ Reply(w)
  /\ UNCHANGED <<now, tenant, states, logins, streak>>

Next ==
  \/ Tick
  \/ \E w \in Workers :
       \/ BeginFirst(w) \/ Begin(w) \/ Create(w)
       \/ \E outcome \in Outcomes : ReadState(w, outcome)
       \/ SaveFailure(w) \/ SaveCodeMissing(w) \/ SaveSuccess(w)
       \/ Crash(w)

Spec == Init /\ [][Next]_vars

-------------------------------------------------------------------------------
(* Properties.                                                             *)

\* MaxFailures failures, one after another, lock the identity for the whole
\* time from the last of them, whatever came before: logins that overlapped and
\* lost counts, older locks that ran out, codes that were missing, crashes.
FailuresLock ==
  streak.length >= MaxFailures => states[1].until = streak.last + Lockout

\* A lock that is in force is only taken off by a login that met another one:
\* it was let in before the lock was set.
LockEndsByTime ==
  [][\A w \in Workers :
       /\ Len(states) = 1 /\ Locked(states[1])
       /\ states'[1].until < states[1].until
       /\ login'[w] # login[w]
       => ~login[w].alone]_vars
===============================================================================
