-------------------------------- MODULE Branches --------------------------------
(***************************************************************************)
(* The branches of an organization and which of them is the default:       *)
(* BranchViewSet of core/views.py.  A branch is saved, and the other       *)
(* branches lose the mark of the default, in one transaction; what is to   *)
(* be saved is a copy that was read before it.  Nothing locks the table:   *)
(* the UPDATE of the others sees the rows committed when it starts, waits  *)
(* for those another transaction has changed, and never sees a row that is *)
(* inserted meanwhile.                                                     *)
(***************************************************************************)
EXTENDS FiniteSets

CONSTANTS
  Branches,     \* primary keys of branch rows
  Workers       \* server threads; each handles one request at a time

VARIABLES
  branch,       \* the branches table: committed rows
  request,      \* what each worker has read, or its open transaction
  company       \* history: the defaults whose creation was open when b was inserted

vars == <<branch, request, company>>

Row == [default : BOOLEAN, active : BOOLEAN]

Absent == [default |-> FALSE, active |-> FALSE, absent |-> TRUE]

NoRequest == [at |-> "none"]

\* An organization signs up without any branch.
Init ==
  /\ branch = [b \in Branches |-> Absent]
  /\ request = [w \in Workers |-> NoRequest]
  /\ company = [b \in Branches |-> {}]

Present == {b \in Branches : branch[b] # Absent}

Reply(w) == request' = [request EXCEPT ![w] = NoRequest]

\* The branches that open transactions are creating, and whether another
\* worker's transaction has changed b.
Creating == {request[w].b : w \in {v \in Workers : request[v].at \in {"opened", "clear"}
                                                   /\ request[v].new}}

Held(w, b) ==
  \E v \in Workers \ {w} :
    request[v].at \in {"opened", "clear"} /\ request[v].b = b

-------------------------------------------------------------------------------

Create(w, b, row) ==
  /\ request[w] = NoRequest
  /\ b \notin Present \cup Creating
  /\ IF row.default
     THEN /\ request' = [request EXCEPT ![w] =
                           [at |-> "opened", b |-> b, row |-> row, new |-> TRUE]]
          /\ UNCHANGED branch
     ELSE /\ branch' = [branch EXCEPT ![b] = row]
          /\ UNCHANGED request
  /\ company' = [company EXCEPT ![b] = Creating]

\* partial_update: get_object finds active branches only; the check reads the
\* copy and what the request gives.
BeginUpdate(w, b, row) ==
  /\ request[w] = NoRequest
  /\ b \in Present
  /\ branch[b].active
  /\ ~(branch[b].default /\ ~row.active)
  /\ request' = [request EXCEPT ![w] = [at |-> "save", b |-> b, row |-> row]]
  /\ UNCHANGED <<branch, company>>

\* Mutant of SaveUpdate: the other branches are left alone.
SaveUpdateAlone(w) ==
  /\ request[w].at = "save"
  /\ ~Held(w, request[w].b)
  /\ branch' = [branch EXCEPT ![request[w].b] = request[w].row]
  /\ Reply(w)
  /\ UNCHANGED company

\* save() writes every column.
SaveUpdate(w) ==
  LET r == request[w] IN
    /\ r.at = "save"
    /\ ~Held(w, r.b)
    /\ IF r.row.default
       THEN /\ request' = [request EXCEPT ![w] =
                             [at |-> "opened", b |-> r.b, row |-> r.row, new |-> FALSE]]
            /\ UNCHANGED branch
       ELSE /\ branch' = [branch EXCEPT ![r.b] = r.row]
            /\ Reply(w)
    /\ UNCHANGED company

\* exclude(id=branch.id).update(is_default=False): what the statement sees ...
StartClear(w) ==
  LET r == request[w] IN
    /\ r.at = "opened"
    /\ request' = [request EXCEPT ![w] =
                     [at |-> "clear", b |-> r.b, row |-> r.row, new |-> r.new,
                      others |-> Present \ {r.b}]]
    /\ UNCHANGED <<branch, company>>

\* ... and its end, with the COMMIT, once it has the rows it saw.
Commit(w) ==
  LET r == request[w] IN
    /\ r.at = "clear"
    /\ \A b \in r.others : ~Held(w, b)
    /\ branch' = [b \in Branches |->
                    CASE b = r.b -> r.row
                      [] b \in r.others -> [branch[b] EXCEPT !.default = FALSE]
                      [] OTHER -> branch[b]]
    /\ Reply(w)
    /\ UNCHANGED company

\* Two updates of a default each have the row that the other waits for:
\* PostgreSQL aborts one.
BreakDeadlock(w) ==
  /\ request[w].at = "clear"
  /\ \E v \in Workers \ {w} :
       /\ request[v].at = "clear"
       /\ request[v].b \in request[w].others
       /\ request[w].b \in request[v].others
  /\ Reply(w)
  /\ UNCHANGED <<branch, company>>

\* destroy: a check of the copy, then save(update_fields=["status", ...]).
BeginDeactivate(w, b) ==
  /\ request[w] = NoRequest
  /\ b \in Present
  /\ branch[b].active
  /\ ~branch[b].default
  /\ request' = [request EXCEPT ![w] = [at |-> "deactivate", b |-> b]]
  /\ UNCHANGED <<branch, company>>

SaveDeactivate(w) ==
  /\ request[w].at = "deactivate"
  /\ ~Held(w, request[w].b)
  /\ branch' = [branch EXCEPT ![request[w].b].active = FALSE]
  /\ Reply(w)
  /\ UNCHANGED company

Next ==
  \E w \in Workers :
    \/ \E b \in Branches, row \in Row : Create(w, b, row) \/ BeginUpdate(w, b, row)
    \/ SaveUpdate(w) \/ StartClear(w) \/ Commit(w) \/ BreakDeadlock(w)
    \/ \E b \in Branches : BeginDeactivate(w, b)
    \/ SaveDeactivate(w)

Spec == Init /\ [][Next]_vars

-------------------------------------------------------------------------------
(* Properties.                                                             *)

Default(b) == b \in Present /\ branch[b].default

\* Two branches are the default at once only if one was inserted while the
\* transaction that created the other as the default was open: saving an older
\* copy of a default, or overlapping changes of the default, never leave two,
\* although no request locks the table.
OneDefault ==
  \A a, b \in Branches :
    Default(a) /\ Default(b) /\ a # b => a \in company[b] \/ b \in company[a]

\* "The default branch cannot be deactivated." (views.py:1058, 1071): an active
\* branch that is the default and stays it does not become inactive.
DefaultStaysActive ==
  [][\A b \in Branches :
       Default(b) /\ branch[b].active /\ branch'[b].default => branch'[b].active]_vars
===============================================================================
