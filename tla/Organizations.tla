----------------------------- MODULE Organizations -----------------------------
(***************************************************************************)
(* An organization and its staff: BusinessSignupView, which makes it in    *)
(* one transaction, OrganizationViewSet and PlatformOrganizationViewSet,   *)
(* which edit and suspend it, and StaffViewSet with the permission its     *)
(* users need.  After the sign-up every statement commits on its own, and  *)
(* an edit saves the whole row as it was read.                             *)
(***************************************************************************)
EXTENDS Naturals

CONSTANTS
  Members,      \* primary keys of organization_users rows
  Workers,      \* server threads; each handles one request at a time
  MaxEdits,     \* bound: edits, suspensions and deletions begun
  MaxCrashes    \* bound: server processes that die during a sign-up

VARIABLES
  organization, \* the row of organizations with the subdomain in question
  roles,        \* keys of its organization_roles rows that have manage_staff
  member,       \* the organization_users table
  request,      \* what each worker has read, and is about to do
  abandoned,    \* history: the last manager left in a way the views allow
  edits, crashes

vars == <<organization, roles, member, request, abandoned, edits, crashes>>

Absent == [role |-> "none", status |-> "absent"]

\* Of ROLE_BLUEPRINTS, only the owner's role has manage_staff.
Roles == {"owner", "analyst"}

Statuses == {"active", "invited", "suspended"}

Idle == [at |-> "idle"]

Init ==
  /\ organization = "none"
  /\ roles = {}
  /\ member = [u \in Members |-> Absent]
  /\ request = [w \in Workers |-> Idle]
  /\ abandoned = FALSE
  /\ edits = 0 /\ crashes = 0

Present == {u \in Members : member[u] # Absent}

Exists == organization \in {"active", "suspended"}

\* Who may use StaffViewSet: OrganizationScopedPermission.
Managers == {u \in Present : member[u].status = "active" /\ member[u].role \in roles}

Goto(w, r) == request' = [request EXCEPT ![w] = r]

Reply(w) == Goto(w, Idle)

-------------------------------------------------------------------------------
(* BusinessSignupView.                                                     *)

\* What the open transactions have inserted.
Signing == {"inserted", "provisioned", "owned", "complete"}

\* BusinessSignupSerializer.validate: the subdomain is free.
CheckSubdomain(w) ==
  /\ request[w] = Idle
  /\ ~Exists
  /\ Goto(w, [at |-> "checked"])
  /\ UNCHANGED <<organization, roles, member, abandoned, edits, crashes>>

\* Mutant of InsertOrganization: the insert commits on its own.
InsertOrganizationAtOnce(w) ==
  /\ request[w].at = "checked"
  /\ \A v \in Workers : request[v].at \notin Signing
  /\ organization' = "active"
  /\ IF Exists THEN Reply(w) ELSE Goto(w, [at |-> "inserted"])
  /\ UNCHANGED <<roles, member, abandoned, edits, crashes>>

\* The unique subdomain: an insert waits for the transaction that has inserted
\* it, and fails if that one commits.
InsertOrganization(w) ==
  /\ request[w].at = "checked"
  /\ \A v \in Workers : request[v].at \notin Signing
  /\ IF Exists THEN Reply(w) ELSE Goto(w, [at |-> "inserted"])
  /\ UNCHANGED <<organization, roles, member, abandoned, edits, crashes>>

\* ensure_default_roles: the permissions, and the roles that have them.
ProvisionRoles(w) ==
  /\ request[w].at = "inserted"
  /\ Goto(w, [at |-> "provisioned", roles |-> {"owner"}])
  /\ UNCHANGED <<organization, roles, member, abandoned, edits, crashes>>

InsertOwner(w) ==
  /\ request[w].at = "provisioned"
  /\ \E u \in Members \ Present :
       Goto(w, [at |-> "owned", roles |-> request[w].roles, owner |-> u,
                row |-> [role |-> "owner", status |-> "active"]])
  /\ UNCHANGED <<organization, roles, member, abandoned, edits, crashes>>

\* get_or_create_public_site and the save of it.
InsertSite(w) ==
  /\ request[w].at = "owned"
  /\ Goto(w, [request[w] EXCEPT !.at = "complete"])
  /\ UNCHANGED <<organization, roles, member, abandoned, edits, crashes>>

CommitSignup(w) ==
  /\ request[w].at = "complete"
  /\ organization' = "active"
  /\ roles' = request[w].roles
  /\ member' = [member EXCEPT ![request[w].owner] = request[w].row]
  /\ Reply(w)
  /\ UNCHANGED <<abandoned, edits, crashes>>

\* Its transaction is rolled back.
Die(w) ==
  /\ request[w].at \in Signing
  /\ crashes < MaxCrashes
  /\ crashes' = crashes + 1
  /\ Reply(w)
  /\ UNCHANGED <<organization, roles, member, abandoned, edits>>

-------------------------------------------------------------------------------
(* StaffViewSet.                                                           *)

\* An API key, or platform staff with a support session.
Outsider == "outsider"

\* JWTAuthentication and OrganizationScopedPermission.
Authenticate(w) ==
  /\ request[w] = Idle
  /\ Exists
  /\ \E a \in Managers \cup {Outsider} : Goto(w, [at |-> "staff", actor |-> a])
  /\ UNCHANGED <<organization, roles, member, abandoned, edits, crashes>>

Actor(w) == request[w].actor

\* After a request: is nobody left, in a way that its checks do not prevent?
\* The actor is no manager (any more), or changed his own row.
Leaves(w, changesItself) ==
  abandoned' = (/\ Managers' = {}
                /\ abandoned \/ Actor(w) \notin Managers \/ changesItself)

\* POST, with a role of the organization.
AddMember(w) ==
  /\ request[w].at = "staff"
  /\ roles # {}
  /\ \E u \in Members \ Present, r \in Roles, s \in Statuses :
       member' = [member EXCEPT ![u] = [role |-> r, status |-> s]]
  /\ Reply(w)
  /\ UNCHANGED <<organization, roles, edits, crashes>>
  /\ Leaves(w, FALSE)

\* PATCH refuses that its actor suspends himself.
BeginPatch(w) ==
  /\ request[w].at = "staff"
  /\ edits < MaxEdits
  /\ \E u \in Present, r \in Roles, s \in Statuses :
       /\ u = Actor(w) => s # "suspended"
       /\ Goto(w, [at |-> "edit", actor |-> Actor(w), u |-> u,
                   row |-> [role |-> r, status |-> s]])
  /\ edits' = edits + 1
  /\ UNCHANGED <<organization, roles, member, abandoned, crashes>>

\* PUT has no check of its own.
BeginPut(w) ==
  /\ request[w].at = "staff"
  /\ edits < MaxEdits
  /\ \E u \in Present, r \in Roles, s \in Statuses :
       Goto(w, [at |-> "edit", actor |-> Actor(w), u |-> u,
                row |-> [role |-> r, status |-> s]])
  /\ edits' = edits + 1
  /\ UNCHANGED <<organization, roles, member, abandoned, crashes>>

\* Every column of the row; a row that is gone is inserted again.
SaveMember(w) ==
  /\ request[w].at = "edit"
  /\ member' = [member EXCEPT ![request[w].u] = request[w].row]
  /\ Reply(w)
  /\ UNCHANGED <<organization, roles, edits, crashes>>
  /\ Leaves(w, request[w].u = Actor(w))

\* Mutant of Remove: nobody is kept from removing himself.
RemoveAnyone(w) ==
  /\ request[w].at = "staff"
  /\ edits < MaxEdits
  /\ \E u \in Present : member' = [member EXCEPT ![u] = Absent]
  /\ edits' = edits + 1
  /\ Reply(w)
  /\ UNCHANGED <<organization, roles, crashes>>
  /\ Leaves(w, FALSE)

\* destroy: not oneself.
Remove(w) ==
  /\ request[w].at = "staff"
  /\ edits < MaxEdits
  /\ \E u \in Present \ {Actor(w)} : member' = [member EXCEPT ![u] = Absent]
  /\ edits' = edits + 1
  /\ Reply(w)
  /\ UNCHANGED <<organization, roles, crashes>>
  /\ Leaves(w, FALSE)

-------------------------------------------------------------------------------
(* OrganizationViewSet and PlatformOrganizationViewSet.                    *)

\* POST of platform staff: a row and nothing else, so no manager either.
PlatformCreate ==
  /\ organization = "none"
  /\ \A v \in Workers : request[v].at \notin Signing
  /\ organization' = "active"
  /\ abandoned' = TRUE
  /\ UNCHANGED <<roles, member, request, edits, crashes>>

\* update_fields=["status"].
Suspend ==
  /\ Exists
  /\ edits < MaxEdits
  /\ organization' = "suspended"
  /\ edits' = edits + 1
  /\ UNCHANGED <<roles, member, request, abandoned, crashes>>

Activate ==
  /\ Exists
  /\ organization' = "active"
  /\ UNCHANGED <<roles, member, request, abandoned, edits, crashes>>

\* The row as it was read, which is what a PATCH of the settings saves back.
ReadOrganization(w, by, statuses) ==
  /\ edits < MaxEdits
  /\ \E s \in statuses :
       Goto(w, [at |-> "settings", by |-> by, seen |-> organization, status |-> s])
  /\ edits' = edits + 1
  /\ UNCHANGED <<organization, roles, member, abandoned, crashes>>

\* Mutant of BeginSettings: get_queryset does not leave out what is suspended.
BeginSettingsOfAny(w) ==
  /\ request[w].at = "staff"
  /\ ReadOrganization(w, "member", {"active", "suspended"})

\* get_queryset finds active organizations only; PATCH lets the status be, PUT
\* takes one from the request.
BeginSettings(w) ==
  /\ request[w].at = "staff"
  /\ organization = "active"
  /\ ReadOrganization(w, "member", {"active", "suspended"})

\* PUT and PATCH of platform staff.
BeginPlatformEdit(w) ==
  /\ request[w] = Idle
  /\ Exists
  /\ ReadOrganization(w, "platform", {"active", "suspended"})

\* Every column of the row.
SaveOrganization(w) ==
  /\ request[w].at = "settings"
  /\ organization' = request[w].status
  /\ Reply(w)
  /\ UNCHANGED <<roles, member, abandoned, edits, crashes>>

Next ==
  \/ PlatformCreate \/ Suspend \/ Activate
  \/ \E w \in Workers :
       \/ CheckSubdomain(w) \/ InsertOrganization(w) \/ ProvisionRoles(w)
       \/ InsertOwner(w) \/ InsertSite(w) \/ CommitSignup(w) \/ Die(w)
       \/ Authenticate(w) \/ AddMember(w) \/ BeginPatch(w) \/ BeginPut(w)
       \/ SaveMember(w) \/ Remove(w)
       \/ BeginSettings(w) \/ BeginPlatformEdit(w) \/ SaveOrganization(w)

Spec == Init /\ [][Next]_vars

-------------------------------------------------------------------------------
(* Properties.                                                             *)

\* An organization has an active member who may manage its staff from the
\* moment it is there, since it is made in one transaction and nobody may
\* remove himself, unless platform staff made it, or its last manager changed
\* his own row, or was taken by a request whose actor is no manager: an API
\* key, a support session or a member who lost his role meanwhile.
StaffedUnlessAbandoned ==
  Exists => Managers # {} \/ abandoned

\* What platform staff suspend stays so until platform staff activate it: its
\* own members bring it back with a request only that had read it before.
SuspensionStands ==
  [][organization = "suspended" /\ organization' = "active" =>
       \/ request' = request
       \/ \E w \in Workers : /\ request[w].at = "settings" /\ request'[w] = Idle
                             /\ request[w].by = "platform" \/ request[w].seen = "active"
    ]_vars
===============================================================================
