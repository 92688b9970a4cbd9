-------------------------------- MODULE ApiKeys --------------------------------
(***************************************************************************)
(* One API key: APIKeyViewSet, which makes, edits, revokes and deletes it, *)
(* and APIKeyAuthentication with validate_api_key, which saves the time of *)
(* every use into the row.  Statements commit on their own.                *)
(***************************************************************************)
EXTENDS Naturals

CONSTANTS
  Workers,      \* server threads; each handles one request at a time
  MaxEdits      \* bound: edits begun

VARIABLES
  key,          \* its row of api_keys
  request,      \* what each worker has read, and is about to do
  revoked,      \* history: a revocation or a deletion of it was answered
  restored,     \* history: an edit saved a copy older than that
  edits

vars == <<key, request, revoked, restored, edits>>

Rows == {"active", "revoked"}

Absent == "absent"

Deleted == "deleted"

Idle == [at |-> "idle"]

Init ==
  /\ key = Absent
  /\ request = [w \in Workers |-> Idle]
  /\ revoked = FALSE
  /\ restored = FALSE
  /\ edits = 0

Goto(w, r) == request' = [request EXCEPT ![w] = r]

Reply(w) == Goto(w, Idle)

\* The whole row, inserted again if it is gone.
Save(w) ==
  /\ key' = request[w].copy
  /\ restored' = (restored \/ (revoked /\ request[w].copy = "active"))

-------------------------------------------------------------------------------
(* APIKeyAuthentication.                                                   *)

\* A request with the key arrives; late notes whether the key was revoked by then.
Arrive(w) ==
  /\ request[w] = Idle
  /\ key # Absent
  /\ Goto(w, [at |-> "arrived", late |-> revoked])
  /\ UNCHANGED <<key, revoked, restored, edits>>

\* The row of that hash that is not revoked; without one the request is refused.
\* Noted with it: whether an edit has brought the key back.
Find(w) ==
  /\ request[w].at = "arrived"
  /\ IF key = "active"
     THEN Goto(w, [at |-> "found", copy |-> key,
                   late |-> request[w].late, restored |-> restored])
     ELSE Reply(w)
  /\ UNCHANGED <<key, revoked, restored, edits>>

\* The request goes on, authenticated as the key.
Served(w) == [at |-> "served", late |-> request[w].late, restored |-> request[w].restored]

\* Mutant of Touch: save() of the whole row.
TouchWhole(w) ==
  /\ request[w].at = "found"
  /\ key' = request[w].copy
  /\ Goto(w, Served(w))
  /\ UNCHANGED <<revoked, restored, edits>>

\* save(update_fields=["last_used_at", ...]), which raises if the row is gone.
Touch(w) ==
  /\ request[w].at = "found"
  /\ IF key = Deleted THEN Reply(w) ELSE Goto(w, Served(w))
  /\ UNCHANGED <<key, revoked, restored, edits>>

Serve(w) ==
  /\ request[w].at = "served"
  /\ Reply(w)
  /\ UNCHANGED <<key, revoked, restored, edits>>

-------------------------------------------------------------------------------
(* APIKeyViewSet.                                                          *)

Create ==
  /\ key = Absent
  /\ key' = "active"
  /\ UNCHANGED <<request, revoked, restored, edits>>

BeginRevoke(w) ==
  /\ request[w] = Idle
  /\ key \in Rows
  /\ Goto(w, [at |-> "revoke"])
  /\ UNCHANGED <<key, revoked, restored, edits>>

\* save(update_fields=["revoked_at", ...]).
Revoke(w) ==
  /\ request[w].at = "revoke"
  /\ IF key = Deleted THEN UNCHANGED <<key, revoked, restored>>
                      ELSE key' = "revoked" /\ revoked' = TRUE /\ restored' = FALSE
  /\ Reply(w)
  /\ UNCHANGED edits

\* PATCH and PUT: name and scopes.
BeginEdit(w) ==
  /\ request[w] = Idle
  /\ key \in Rows
  /\ edits < MaxEdits
  /\ Goto(w, [at |-> "edit", copy |-> key])
  /\ edits' = edits + 1
  /\ UNCHANGED <<key, revoked, restored>>

SaveEdit(w) ==
  /\ request[w].at = "edit"
  /\ Save(w)
  /\ Reply(w)
  /\ UNCHANGED <<revoked, edits>>

Delete ==
  /\ key \in Rows
  /\ key' = Deleted
  /\ revoked' = TRUE /\ restored' = FALSE
  /\ UNCHANGED <<request, edits>>

Next ==
  \/ Create \/ Delete
  \/ \E w \in Workers :
       \/ Arrive(w) \/ Find(w) \/ Touch(w) \/ Serve(w)
       \/ BeginRevoke(w) \/ Revoke(w) \/ BeginEdit(w) \/ SaveEdit(w)

Spec == Init /\ [][Next]_vars

-------------------------------------------------------------------------------
(* Properties.                                                             *)

\* A request that arrives after the key was revoked or deleted is refused,
\* although requests that overlap the revocation still save into the row;
\* only an edit that had read it before brings it back.
RevokedIsRefused ==
  \A w \in Workers :
    request[w].at \in {"found", "served"} /\ request[w].late => request[w].restored
===============================================================================
