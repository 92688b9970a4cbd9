-------------------------------- MODULE Workspace --------------------------------
(***************************************************************************)
(* The components of an organization's workspace and of its accounts, side *)
(* by side: Customers, Branches, PublicSite, Chat, Tenancy, LoginLock,     *)
(* SecondFactor, Organizations and ApiKeys.  They share no rows.           *)
(***************************************************************************)
EXTENDS Customers

CONSTANTS
  Branches,          \* primary keys of branch rows
  Names,             \* names of service areas
  Orgs,              \* organizations of a connection's requests
  Members,           \* primary keys of organization_users rows
  Messages,          \* primary keys of messages of a thread, in order
  PageSize,          \* how many messages the courier's list returns
  MaxFailures,       \* LOGIN_MAX_FAILED_ATTEMPTS
  Lockout,           \* LOGIN_LOCKOUT_MINUTES
  MaxUpdates,        \* bound: updates of the public site
  MaxPageDeletes,    \* bound: pages of the public site deleted
  MaxMessageEdits,   \* bound: edits and deletions of messages
  MaxCrashes,        \* bound: processes that die while they send or list messages
  MaxDepth,          \* bound: contexts and transactions inside each other
  MaxTime,           \* bound: the clock of LoginLock
  MaxLogins,         \* bound: logins
  MaxChanges,        \* bound: secrets and passwords made
  MaxStaffEdits,     \* bound: edits of the organization and its staff
  MaxSignupCrashes,  \* bound: processes that die during a sign-up
  MaxKeyEdits        \* bound: edits of an API key

ASSUME WorkspaceAssumption ==
  /\ Messages \subseteq Nat /\ IsFiniteSet(Messages)
  /\ PageSize \in Nat \ {0}
  /\ MaxFailures \in Nat \ {0}
  /\ Lockout \in Nat
  /\ MaxChanges \in Nat

VARIABLES
  branch, branchRequest, company,
  site, page, blocks, areas, siteRequest, updates, pages,
  listener, message, posting, unsent, reading, messageEdit, socket, view,
  shown, unseen, messageEdits, crashes,
  setting, attribute, served, scopes,
  now, tenant, states, login, logins, streak,
  row, accountRequest, made, confirmed, crossed, restored,
  organization, roles, member, staffRequest, abandoned, staffEdits, signupCrashes,
  key, keyRequest, revoked, keyRestored, keyEdits

Directory == INSTANCE Branches WITH request <- branchRequest

Site ==
  INSTANCE PublicSite
    WITH MaxDeletes <- MaxPageDeletes, request <- siteRequest

Thread ==
  INSTANCE Chat
    WITH MaxEdits <- MaxMessageEdits, edit <- messageEdit, edits <- messageEdits

Conn == INSTANCE Tenancy WITH request <- served

Lock == INSTANCE LoginLock

Account == INSTANCE SecondFactor WITH request <- accountRequest

Staff ==
  INSTANCE Organizations
    WITH MaxEdits <- MaxStaffEdits, MaxCrashes <- MaxSignupCrashes,
         request <- staffRequest, edits <- staffEdits, crashes <- signupCrashes

Keys ==
  INSTANCE ApiKeys
    WITH MaxEdits <- MaxKeyEdits, request <- keyRequest, restored <- keyRestored,
         edits <- keyEdits

-------------------------------------------------------------------------------
(* The properties of the modules, by the names they have there.            *)

\* Two defaults were created in overlapping transactions.
OneDefault == Directory!OneDefault

\* The service areas are the list of one update.
AreasOfOneUpdate == Site!AreasOfOneUpdate

\* A read message was shown to its reader.
ReadWasShown == Thread!ReadWasShown

\* A courier's app that connects and lists misses no message.
NothingMissed == Thread!NothingMissed

\* A connection is handed on without an organization.
IdleIsClean == Conn!IdleIsClean

\* A member's statements run under his organization.
MemberKeepsOrg == Conn!MemberKeepsOrg

\* Failures one after another lock the identity.
FailuresLock == Lock!FailuresLock

\* A lock is taken off early only by a login that met another one.
LockEndsByTime == Lock!LockEndsByTime

\* A second factor in force was confirmed with a code.
EnabledIsConfirmed == Account!EnabledIsConfirmed

\* The password is the one that was set last.
PasswordStands == Account!PasswordStands

\* An organization keeps a manager of its staff, but for what the views allow.
StaffedUnlessAbandoned == Staff!StaffedUnlessAbandoned

\* Only platform staff take a suspension back.
SuspensionStands == Staff!SuspensionStands

\* A revoked key opens no later request.
RevokedIsRefused == Keys!RevokedIsRefused
===============================================================================
