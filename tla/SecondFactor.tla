------------------------------ MODULE SecondFactor ------------------------------
(***************************************************************************)
(* The account of an organization user: the second factor (create_mfa_setup,*)
(* confirm_mfa and disable_mfa of core/security.py with their views), the  *)
(* change of the password, and the generic view set of the staff.  Every   *)
(* request works with the copy of the row that authentication read, which  *)
(* saves last_active_at first; nothing locks the row.                      *)
(***************************************************************************)
EXTENDS Naturals

CONSTANTS
  Workers,      \* server threads; each handles one request at a time
  MaxChanges    \* bound: secrets and passwords made

VARIABLES
  row,          \* the row of organization_users
  request,      \* what each worker has read, and is about to do
  made,         \* secrets and passwords made so far, numbered in order
  confirmed,    \* history: secrets of which a code was accepted
  crossed,      \* history: secrets in the row when another one was confirmed
  restored      \* history: an edit brought an older password back

vars == <<row, request, made, confirmed, crossed, restored>>

NoSecret == 0

Row == [password : 0..MaxChanges, secret : 0..MaxChanges, enabled : BOOLEAN]

Deleted == [deleted |-> TRUE]

Idle == [at |-> "idle"]

\* Signed up, or seeded, with a first password and no second factor.
Init ==
  /\ row = [password |-> 0, secret |-> NoSecret, enabled |-> FALSE]
  /\ request = [w \in Workers |-> Idle]
  /\ made = [password |-> 0, secret |-> 0]
  /\ confirmed = {} /\ crossed = {}
  /\ restored = FALSE

Goto(w, r) == request' = [request EXCEPT ![w] = r]

Reply(w) == Goto(w, Idle)

At(w, at) == request[w].at = at /\ row # Deleted

Copy(w) == request[w].copy

-------------------------------------------------------------------------------
(* JWTAuthentication.                                                      *)

Authenticate(w) ==
  /\ request[w] = Idle
  /\ row # Deleted
  /\ Goto(w, [at |-> "authenticated", copy |-> row])
  /\ UNCHANGED <<row, made, confirmed, crossed, restored>>

\* Mutant of Touch: save() of the whole row.
TouchWhole(w) ==
  /\ At(w, "authenticated")
  /\ row' = Copy(w)
  /\ Goto(w, [at |-> "view", copy |-> Copy(w)])
  /\ UNCHANGED <<made, confirmed, crossed, restored>>

\* save(update_fields=["last_active_at", ...]).
Touch(w) ==
  /\ At(w, "authenticated")
  /\ Goto(w, [at |-> "view", copy |-> Copy(w)])
  /\ UNCHANGED <<row, made, confirmed, crossed, restored>>

\* save(update_fields=...) of a row that is gone raises.
Raise(w) ==
  /\ request[w].at \in {"authenticated", "view"}
  /\ row = Deleted
  /\ Reply(w)
  /\ UNCHANGED <<row, made, confirmed, crossed, restored>>

-------------------------------------------------------------------------------
(* MFASetupView, MFAVerifyView, MFADisableView, AccountPasswordView.  Each *)
(* saves its own columns only.                                             *)

\* Mutant of Setup: enabled is left as it was.
SetupEnabled(w) ==
  /\ At(w, "view")
  /\ made.secret < MaxChanges
  /\ made' = [made EXCEPT !.secret = @ + 1]
  /\ row' = [row EXCEPT !.secret = made'.secret]
  /\ Reply(w)
  /\ UNCHANGED <<confirmed, crossed, restored>>

Setup(w) ==
  /\ At(w, "view")
  /\ made.secret < MaxChanges
  /\ made' = [made EXCEPT !.secret = @ + 1]
  /\ row' = [row EXCEPT !.secret = made'.secret, !.enabled = FALSE]
  /\ Reply(w)
  /\ UNCHANGED <<confirmed, crossed, restored>>

\* A code of the copy's secret; what is enabled is the secret of the row.
Verify(w) ==
  /\ At(w, "view")
  /\ Copy(w).secret # NoSecret
  /\ row' = [row EXCEPT !.enabled = TRUE]
  /\ confirmed' = confirmed \cup {Copy(w).secret}
  /\ crossed' = IF row.secret = Copy(w).secret THEN crossed ELSE crossed \cup {row.secret}
  /\ Reply(w)
  /\ UNCHANGED <<made, restored>>

\* With a code, which is not asked for while the copy is not enabled.
Disable(w) ==
  /\ At(w, "view")
  /\ Copy(w).enabled => Copy(w).secret # NoSecret
  /\ row' = [row EXCEPT !.enabled = FALSE, !.secret = NoSecret]
  /\ Reply(w)
  /\ UNCHANGED <<made, confirmed, crossed, restored>>

ChangePassword(w) ==
  /\ At(w, "view")
  /\ made.password < MaxChanges
  /\ made' = [made EXCEPT !.password = @ + 1]
  /\ row' = [row EXCEPT !.password = made'.password]
  /\ restored' = FALSE
  /\ Reply(w)
  /\ UNCHANGED <<confirmed, crossed>>

-------------------------------------------------------------------------------
(* StaffViewSet, used by another member of the staff.                      *)

BeginEdit(w) ==
  /\ request[w] = Idle
  /\ row # Deleted
  /\ Goto(w, [at |-> "edit", copy |-> row])
  /\ UNCHANGED <<row, made, confirmed, crossed, restored>>

\* save() writes every column of the copy, the ones the serializer does not
\* show too; a row that is gone is inserted again.
SaveEdit(w) ==
  /\ request[w].at = "edit"
  /\ row' = Copy(w)
  /\ restored' = (Copy(w).password # made.password)
  /\ Reply(w)
  /\ UNCHANGED <<made, confirmed, crossed>>

Delete ==
  /\ row # Deleted
  /\ row' = Deleted
  /\ UNCHANGED <<request, made, confirmed, crossed, restored>>

Next ==
  \/ Delete
  \/ \E w \in Workers :
       \/ Authenticate(w) \/ Touch(w) \/ Raise(w)
       \/ Setup(w) \/ Verify(w) \/ Disable(w) \/ ChangePassword(w)
       \/ BeginEdit(w) \/ SaveEdit(w)

Spec == Init /\ [][Next]_vars

-------------------------------------------------------------------------------
(* Properties.                                                             *)

\* A second factor is only asked for once its user has shown a code of it,
\* except where the secret was replaced or cleared between the reading and the
\* saving of a confirmation; edits that bring older rows back do not change that.
EnabledIsConfirmed ==
  row # Deleted /\ row.enabled => row.secret \in confirmed \cup crossed

\* The password is the one that was set last, although every request saves
\* something of an older copy; only an edit of the staff brings one back.
PasswordStands ==
  row # Deleted /\ ~restored => row.password = made.password
===============================================================================
