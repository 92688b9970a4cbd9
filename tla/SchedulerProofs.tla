---------------------------- MODULE SchedulerProofs ----------------------------
(***************************************************************************)
(* Proofs about what the scheduler starts: ReadyOnce and                   *)
(* ReleasedIsAnnounced of ScheduledRelease, for any number of deliveries,  *)
(* runs of the task, edits and deletions, and any limit, and ReplayRefused *)
(* of Sessions, for any number of tokens, workers and support sessions,    *)
(* any lifetimes and any clock.                                            *)
(***************************************************************************)
EXTENDS Scheduler, TLAPS

-------------------------------------------------------------------------------
(* ScheduledRelease.                                                       *)


\* What the proofs need to know of the tables' types; the runs are left out,
\* since the row itself is read again under its lock.
Types ==
  /\ row \in [Deliveries -> Row]
  /\ ready \in [Deliveries -> Nat]
  /\ edits \in Nat
  /\ edit # NoEdit => /\ edit.d \in Deliveries
                      /\ edit.row \in Row
                      /\ edit.supplies \in BOOLEAN

\* An announcement is paid for by the mark on the row, or by an edit that took
\* the mark off; the edit in flight has not taken off any yet.
Paid ==
  \A d \in Deliveries :
    /\ edit # NoEdit /\ edit.d = d => edits > 0
    /\ ready[d] <= (IF row[d].mark = "released" THEN 1 ELSE 0)
                   + (IF edit # NoEdit /\ edit.d = d THEN edits - 1 ELSE edits)

\* The copy an edit has read, if it is marked and the request does not supply
\* the mark, was announced or got its mark from a request before.
CopyIsAnnounced ==
  edit # NoEdit /\ edit.row.mark = "released" /\ ~edit.supplies =>
    ready[edit.d] > 0 \/ edit.d \in supplied

ReleaseInv == Types /\ Paid /\ ReleasedIsAnnounced /\ CopyIsAnnounced

\* Before anything is scheduled nothing is marked or announced.
LEMMA InitReleases == Init => ReleaseInv
  BY ScheduleAssumption DEF Init, ReleaseInv, Types, Row, Times, Statuses, Marks, NotCreated,
     Paid, ReleasedIsAnnounced, CopyIsAnnounced

\* No step of a run, an edit or a deletion breaks the invariant.
LEMMA NextKeepsReleases == ReleaseInv /\ [Next]_vars => ReleaseInv'
<1> SUFFICES ASSUME ReleaseInv, [Next]_vars PROVE ReleaseInv'
  OBVIOUS
<1> USE DEF ReleaseInv, Types, Paid, ReleasedIsAnnounced, CopyIsAnnounced
<1>1. CASE UNCHANGED <<row, ready, supplied, edit, edits>>
  BY <1>1
<1>2. ASSUME NEW d \in Deliveries, NEW t \in Times, NEW m \in Marks, Schedule(d, t, m)
      PROVE  ReleaseInv'
  <2>1. [status |-> "pending", at |-> t, mark |-> m] \in Row
    BY DEF Row, Statuses
  <2> QED
    BY <1>2, <2>1, ScheduleAssumption DEF Schedule, NotCreated
<1>3. ASSUME NEW d \in Deliveries, Advance(d) PROVE ReleaseInv'
  BY <1>3 DEF Advance, Row, Statuses
<1>4. ASSUME NEW d \in Deliveries, BeginEdit(d) PROVE ReleaseInv'
  <2>1. PICK s \in Statuses, t \in Times, m \in Marks :
          edit' = [state |-> "read", d |-> d, row |-> [status |-> s, at |-> t, mark |-> m],
                   supplies |-> m = "released" /\ row[d].mark # "released"]
    BY <1>4 DEF BeginEdit
  <2>2. [status |-> s, at |-> t, mark |-> m] \in Row
    BY DEF Row
  <2>3. edit'.d = d /\ edit'.row \in Row /\ edit'.row.mark = m
    BY <2>1, <2>2
  <2>4. edit'.supplies \in BOOLEAN
    BY <2>1
  <2>5. ~edit'.supplies /\ m = "released" => row[d].mark = "released"
    BY <2>1
  <2>6. /\ edit = NoEdit /\ edits' = edits + 1
        /\ UNCHANGED <<row, ready, supplied>>
    BY <1>4 DEF BeginEdit
  <2>7. Types' /\ ReleasedIsAnnounced'
    BY <2>3, <2>4, <2>6
  <2>8. CopyIsAnnounced'
    BY <2>3, <2>5, <2>6
  <2>9. Paid'
    BY <2>3, <2>6
  <2> QED
    BY <2>7, <2>8, <2>9
<1>5. CASE SaveEdit
  BY <1>5 DEF SaveEdit
<1>6. ASSUME NEW d \in Deliveries, Delete(d) PROVE ReleaseInv'
  BY <1>6 DEF Delete, Row
<1>7. ASSUME NEW j \in Jobs, NEW d \in Deliveries, Release(j, d) PROVE ReleaseInv'
  <2> USE <1>7 DEF Release
  <2>1. Types'
    <3>1. [row[d] EXCEPT !.mark = "released"] \in Row
      BY DEF Row, Marks
    <3>2. row' \in [Deliveries -> Row] /\ ready' \in [Deliveries -> Nat]
      BY <3>1
    <3> QED
      BY <3>2
  <2>2. /\ ready[d] <= (IF edit # NoEdit /\ edit.d = d THEN edits - 1 ELSE edits)
        /\ row'[d].mark = "released" /\ ready'[d] = ready[d] + 1
    BY DEF Row
  <2>3. \A e \in Deliveries \ {d} : row'[e] = row[e] /\ ready'[e] = ready[e]
    OBVIOUS
  <2>4. Paid'
    BY <2>2, <2>3
  <2>5. ReleasedIsAnnounced'
    BY <2>2, <2>3
  <2>6. CopyIsAnnounced'
    BY <2>2, <2>3
  <2> QED
    BY <2>1, <2>4, <2>5, <2>6
<1> QED
  BY <1>1, <1>2, <1>3, <1>4, <1>5, <1>6, <1>7
     DEF Next, vars, Tick, JobStep, StartJob, Skip, Abort, Finish

\* However many runs of the task overlap, a delivery is announced ready once,
\* and once more at most for each generic edit.
THEOREM AnnouncedOnce == Spec => []ReadyOnce
<1>1. ReleaseInv => ReadyOnce
  BY DEF ReleaseInv, Types, Row, Paid, ReadyOnce
<1>2. QED
  BY <1>1, InitReleases, NextKeepsReleases, PTL DEF Spec

\* No run marks a row without announcing it, and no copy that is saved again
\* brings a mark that was neither announced nor supplied by a request.
THEOREM MarkedIsAnnounced == Spec => []ReleasedIsAnnounced
<1>1. ReleaseInv => ReleasedIsAnnounced
  BY DEF ReleaseInv
<1>2. QED
  BY <1>1, InitReleases, NextKeepsReleases, PTL DEF Spec

-------------------------------------------------------------------------------
(* Sessions.                                                               *)

TokenRows == [at : {"absent", "stored", "deleted"}, expires : Nat, revoked : BOOLEAN]

Rotations ==
  [at : {"idle"}]
    \cup [at : {"create"}, old : Tokens, replay : BOOLEAN]
    \cup [at : {"revoke"}, old : Tokens, new : Tokens, replay : BOOLEAN]

TokenTypes ==
  /\ token \in [Tokens -> TokenRows]
  /\ rotation \in [Workers -> Rotations]
  /\ answered \subseteq Tokens
  /\ clock \in Nat

\* A token whose rotation was answered is revoked or deleted, for good.
AnsweredIsRevoked ==
  \A t \in answered : token[t].at # "absent" /\ token[t].revoked

\* No rotation in flight has read a token after its rotation was answered.
NoReplay ==
  \A w \in Workers : rotation[w].at = "create" => ~rotation[w].replay

SessionInv == TokenTypes /\ AnsweredIsRevoked /\ NoReplay /\ ReplayRefused

\* Before the first login no token was exchanged.
LEMMA InitSessions == Auth!Init => SessionInv
  BY DEF Auth!Init, SessionInv, TokenTypes, TokenRows, Rotations, Auth!Absent, Auth!Idle,
         AnsweredIsRevoked, NoReplay, ReplayRefused, Auth!ReplayRefused

\* A token is inserted where none was, so that it was never answered.
LEMMA InsertKeeps ==
  ASSUME NEW t \in Tokens, TokenTypes, AnsweredIsRevoked, Auth!Insert(t),
         answered' = answered
  PROVE  token' \in [Tokens -> TokenRows] /\ AnsweredIsRevoked'
<1> USE DEF Auth!Insert, TokenTypes
<1>1. Auth!Fresh \in TokenRows
  BY SchedulerAssumption DEF Auth!Fresh, TokenRows
<1>2. token[t] = Auth!Absent
  BY SchedulerAssumption
<1>3. t \notin answered
  BY <1>2 DEF AnsweredIsRevoked, Auth!Absent
<1>4. token' \in [Tokens -> TokenRows]
  BY <1>1
<1>5. \A u \in answered : token'[u] = token[u]
  BY <1>3
<1> QED
  BY <1>4, <1>5 DEF AnsweredIsRevoked

\* No login, rotation, death or clean-up breaks the invariant.
LEMMA NextKeepsSessions ==
  ASSUME SessionInv, [Auth!Next]_(Auth!vars)
  PROVE  SessionInv'
<1> USE DEF SessionInv, TokenTypes, Rotations, AnsweredIsRevoked, NoReplay,
           ReplayRefused, Auth!ReplayRefused
<1>1. CASE UNCHANGED <<clock, Auth!tokens>>
  BY <1>1 DEF Auth!tokens
<1>2. CASE Auth!Tick
  BY <1>2 DEF Auth!Tick, Auth!tokens
<1>3. ASSUME NEW t \in Tokens, Auth!Login(t) PROVE SessionInv'
  BY <1>3, InsertKeeps DEF Auth!Login
<1>4. ASSUME NEW w \in Workers, NEW t \in Tokens, Auth!BeginRotation(w, t) PROVE SessionInv'
  <2> USE <1>4 DEF Auth!BeginRotation
  <2>1. t \notin answered
    OBVIOUS
  <2>2. rotation' \in [Workers -> Rotations]
    OBVIOUS
  <2>3. NoReplay'
    BY <2>1
  <2> QED
    BY <2>2, <2>3
<1>5. ASSUME NEW w \in Workers, NEW t \in Tokens, Auth!CreateNext(w, t) PROVE SessionInv'
  <2> USE <1>5 DEF Auth!CreateNext
  <2>1. token' \in [Tokens -> TokenRows] /\ AnsweredIsRevoked'
    BY InsertKeeps
  <2>2. rotation' \in [Workers -> Rotations]
    OBVIOUS
  <2>3. NoReplay' /\ ReplayRefused'
    OBVIOUS
  <2> QED
    BY <2>1, <2>2, <2>3
<1>6. ASSUME NEW w \in Workers, Auth!Revoke(w) PROVE SessionInv'
  <2> USE <1>6 DEF Auth!Revoke
  <2>1. rotation' \in [Workers -> Rotations] /\ NoReplay' /\ ReplayRefused'
    BY DEF Auth!Idle
  <2>2. CASE UNCHANGED <<token, answered>>
    BY <2>1, <2>2
  <2>3. CASE /\ rotation[w].old \in Auth!Present
             /\ token' = [token EXCEPT ![rotation[w].old].revoked = TRUE]
             /\ answered' = answered \cup {rotation[w].old}
    <3> DEFINE t == rotation[w].old
    <3>1. t \in Tokens /\ token[t] \in TokenRows /\ token[t].at = "stored"
      BY <2>3 DEF Auth!Present
    <3>2. /\ [token[t] EXCEPT !.revoked = TRUE] \in TokenRows
          /\ [token[t] EXCEPT !.revoked = TRUE].at = "stored"
          /\ [token[t] EXCEPT !.revoked = TRUE].revoked
      BY <3>1 DEF TokenRows
    <3> HIDE DEF t
    <3>3. token' \in [Tokens -> TokenRows] /\ AnsweredIsRevoked' /\ answered' \subseteq Tokens
      BY <2>3, <3>1, <3>2 DEF t
    <3> QED
      BY <2>1, <3>3
  <2> QED
    BY <2>2, <2>3
<1>7. ASSUME NEW w \in Workers, Auth!Crash(w) PROVE SessionInv'
  BY <1>7 DEF Auth!Crash, Auth!Idle
<1>8. CASE Auth!DeleteTokens
  BY <1>8 DEF Auth!DeleteTokens, Auth!Present, Auth!Deleted, TokenRows
<1> QED
  BY <1>1, <1>2, <1>3, <1>4, <1>5, <1>6, <1>7, <1>8
     DEF Auth!Next, Auth!vars, Auth!tokens, Auth!StartSupport, Auth!BeginEnd, Auth!SaveEnd,
         Auth!Cleanup, Auth!ExpireSupports, Auth!CleanupDies

\* Tokens are numbered as they are inserted, and live a while.  However many
\* rotations overlap, die or meet the clean-up, none that comes after the answer
\* to another makes a token from the same one.
THEOREM NoReplayEver == Auth!Spec => []ReplayRefused
<1>1. SessionInv /\ [Auth!Next]_(Auth!vars) => SessionInv'
  BY NextKeepsSessions
<1>2. SessionInv => ReplayRefused
  BY DEF SessionInv
<1>3. QED
  BY <1>1, <1>2, InitSessions, PTL DEF Auth!Spec
===============================================================================
