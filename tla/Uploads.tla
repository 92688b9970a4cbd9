-------------------------------- MODULE Uploads --------------------------------
(***************************************************************************)
(* Upload intents and their completion: create_upload_intent and           *)
(* complete_upload of core/services.py, called by the views in autocommit. *)
(* complete_upload selects its row FOR UPDATE.  Django refuses that        *)
(* outside a transaction on a database that has the clause, and leaves the *)
(* clause out on SQLite, the database of local development.                *)
(***************************************************************************)

CONSTANTS
  Uploads,      \* primary keys of upload rows
  Workers       \* server threads

VARIABLES
  database,     \* "postgresql" or "sqlite"
  upload,       \* the uploads table: the status of each row
  request,      \* the completion each worker has checked and will save
  answered      \* history: statuses of which a completion was told

vars == <<database, upload, request, answered>>

NoRequest == [status |-> "none"]

Init ==
  /\ database \in {"postgresql", "sqlite"}
  /\ upload = [u \in Uploads |-> "absent"]
  /\ request = [w \in Workers |-> NoRequest]
  /\ answered = [u \in Uploads |-> {}]

Intent(u) ==
  /\ upload[u] = "absent"
  /\ upload' = [upload EXCEPT ![u] = "pending"]
  /\ UNCHANGED <<database, request, answered>>

\* TransactionManagementError: the request ends in a server error.
CompleteRaises(u) ==
  /\ database = "postgresql"
  /\ upload[u] # "absent"
  /\ answered' = [answered EXCEPT ![u] = @ \cup {"error"}]
  /\ UNCHANGED <<database, upload, request>>

\* The row is read and must be pending; the reported size decides.  A checksum
\* that is no digest refuses the request and leaves the row.
BeginComplete(w, u, sizeAgrees) ==
  /\ database = "sqlite"
  /\ request[w] = NoRequest
  /\ upload[u] = "pending"
  /\ request' = [request EXCEPT ![w] =
                   [u |-> u, status |-> IF sizeAgrees THEN "uploaded" ELSE "rejected"]]
  /\ UNCHANGED <<database, upload, answered>>

SaveComplete(w) ==
  /\ request[w] # NoRequest
  /\ upload' = [upload EXCEPT ![request[w].u] = request[w].status]
  /\ answered' = [answered EXCEPT ![request[w].u] = @ \cup {request[w].status}]
  /\ request' = [request EXCEPT ![w] = NoRequest]
  /\ UNCHANGED database

Next ==
  \/ \E u \in Uploads : Intent(u) \/ CompleteRaises(u)
  \/ \E w \in Workers, u \in Uploads, sizeAgrees \in BOOLEAN :
       BeginComplete(w, u, sizeAgrees)
  \/ \E w \in Workers : SaveComplete(w)

-------------------------------------------------------------------------------
(* Properties.                                                             *)

\* "Upload completion validates declared size/checksum, records object state"
\* (README.md:104): a completion that was answered left its row decided.
CompletionRecorded ==
  \A u \in Uploads : answered[u] # {} => upload[u] \in {"uploaded", "rejected"}
===============================================================================
