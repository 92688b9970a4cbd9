-------------------------------- MODULE Tenancy --------------------------------
(***************************************************************************)
(* The organization a database connection works for: the setting           *)
(* app.current_org that the row-level policies compare with, and the       *)
(* attribute _current_organization_id that organization_context restores   *)
(* it from.  core/tenant.py, the middleware and core/authentication.py.    *)
(*                                                                         *)
(* The policies are enabled and forced.  This module is about a database   *)
(* role that they bind, the only one for which the setting matters;        *)
(* Notifications and ScheduledRelease have the case as PoliciesBind.       *)
(* A connection outlives its requests (CONN_MAX_AGE), which follow each    *)
(* other on it.  Authentication writes the setting without the             *)
(* attribute, and a rollback takes back what was set in the transaction.   *)
(***************************************************************************)
EXTENDS Naturals, Sequences

CONSTANTS
  Orgs,         \* organizations
  MaxDepth      \* bound: contexts and transactions inside each other

VARIABLES
  setting,      \* app.current_org of the connection
  attribute,    \* connection._current_organization_id
  request,      \* the request that is served on the connection
  scopes        \* contexts and transactions it is in, the innermost last

vars == <<setting, attribute, request, scopes>>

NoOrg == "none"

Idle == [at |-> "idle"]

Context(previous) == [kind |-> "context", previous |-> previous]

Transaction(before, failed) == [kind |-> "transaction", before |-> before, failed |-> failed]

Init ==
  /\ setting = NoOrg
  /\ attribute = NoOrg
  /\ request = Idle
  /\ scopes = <<>>

Failed == \E i \in 1..Len(scopes) : scopes[i].kind = "transaction" /\ scopes[i].failed

Innermost == scopes[Len(scopes)]

Leave == scopes' = SubSeq(scopes, 1, Len(scopes) - 1)

\* The policies of migration 0002: a row of o is there for o's setting only.
\* Its mutant shows the rows of everybody while nothing is set.
VisibleUnset(o) == setting \in {o, NoOrg}

Visible(o) == setting = o

-------------------------------------------------------------------------------

\* __enter__ of organization_context.
Enter(o) ==
  /\ scopes' = Append(scopes, Context(attribute))
  /\ attribute' = o
  /\ setting' = o

\* Mutant of Exit: restores only an organization.
ExitKeeping ==
  /\ attribute' = Innermost.previous
  /\ setting' = IF Failed \/ Innermost.previous = NoOrg THEN setting ELSE Innermost.previous
  /\ Leave

\* Its finally: the attribute first.  A transaction that has failed takes no
\* further statement, set_config included.
Exit ==
  /\ attribute' = Innermost.previous
  /\ setting' = IF Failed THEN setting ELSE Innermost.previous
  /\ Leave

\* TenantResolutionMiddleware: the organization of the headers or the host.
Receive(o) ==
  /\ request = Idle
  /\ request' = [at |-> "authenticate"]
  /\ Enter(o)

\* Users, couriers and API keys are rows of an organization.  JWTAuthentication
\* enters a context for a user and leaves it, and sets the organization again.
Authenticate(o) ==
  /\ request.at = "authenticate"
  /\ Visible(o)
  /\ request' = [at |-> "view", org |-> o, by |-> "member"]
  /\ setting' = o
  /\ UNCHANGED <<attribute, scopes>>

\* Impersonation sessions are under no policy.
Impersonate(o) ==
  /\ request.at = "authenticate"
  /\ request' = [at |-> "view", org |-> o, by |-> "support"]
  /\ setting' = o
  /\ UNCHANGED <<attribute, scopes>>

\* A platform account, or a view without authentication: no organization is set
\* beyond that of the headers.
Proceed ==
  /\ request.at = "authenticate"
  /\ request' = [at |-> "view", org |-> NoOrg, by |-> "platform"]
  /\ UNCHANGED <<setting, attribute, scopes>>

\* Service functions of a view: with organization_context(organization).
EnterContext ==
  /\ request.at = "view"
  /\ request.org # NoOrg
  /\ ~Failed
  /\ Len(scopes) <= MaxDepth
  /\ Enter(request.org)
  /\ UNCHANGED request

ExitContext ==
  /\ request.at = "view"
  /\ Len(scopes) > 1
  /\ Innermost.kind = "context"
  /\ Exit
  /\ UNCHANGED request

Begin ==
  /\ request.at = "view"
  /\ ~Failed
  /\ Len(scopes) <= MaxDepth
  /\ scopes' = Append(scopes, Transaction(setting, FALSE))
  /\ UNCHANGED <<setting, attribute, request>>

\* A statement is refused by the database.
Fail ==
  /\ \E i \in 1..Len(scopes) :
       /\ scopes[i].kind = "transaction"
       /\ \A j \in i+1..Len(scopes) : scopes[j].kind = "context"
       /\ scopes' = [scopes EXCEPT ![i] = Transaction(@.before, TRUE)]
  /\ UNCHANGED <<setting, attribute, request>>

Commit ==
  /\ request.at = "view"
  /\ Innermost.kind = "transaction"
  /\ ~Innermost.failed
  /\ Leave
  /\ UNCHANGED <<setting, attribute, request>>

\* After a failure, or for an exception of the view's own.
Rollback ==
  /\ request.at = "view"
  /\ Innermost.kind = "transaction"
  /\ setting' = Innermost.before
  /\ Leave
  /\ UNCHANGED <<attribute, request>>

\* The response, or an exception: the middleware leaves its context.
Respond ==
  /\ request.at \in {"authenticate", "view"}
  /\ Len(scopes) = 1
  /\ Exit
  /\ request' = Idle

\* The connection breaks: every finally runs and finds it closed; the next
\* request is given a new one.
ConnectionLost ==
  /\ request # Idle
  /\ attribute' = scopes[1].previous
  /\ setting' = NoOrg
  /\ scopes' = <<>>
  /\ request' = Idle

Next ==
  \/ \E o \in Orgs \cup {NoOrg} : Receive(o)
  \/ \E o \in Orgs : Authenticate(o) \/ Impersonate(o)
  \/ Proceed \/ EnterContext \/ ExitContext
  \/ Begin \/ Fail \/ Commit \/ Rollback
  \/ Respond \/ ConnectionLost

Spec == Init /\ [][Next]_vars

-------------------------------------------------------------------------------
(* Properties.                                                             *)

\* However a request ends, with contexts left inside failed transactions, with
\* rollbacks and with settings made past the attribute, its connection is
\* handed on without an organization.
IdleIsClean ==
  request = Idle => setting = NoOrg /\ attribute = NoOrg

\* Wherever a view of a member of an organization has got to, its statements
\* run under that organization: leaving a context does not drop it, although
\* the attribute that is restored was never told by authentication.
MemberKeepsOrg ==
  request.at = "view" /\ request.by = "member" => setting = request.org
===============================================================================
