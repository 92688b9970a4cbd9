------------------------------- MODULE PublicSite -------------------------------
(***************************************************************************)
(* The public site of an organization: get_or_create_public_site,          *)
(* ensure_default_public_site_page and update_public_site of               *)
(* core/services.py, and the requests that call them.  A GET commits each  *)
(* insert on its own.  A PATCH is a transaction; it takes no explicit      *)
(* lock, but saves the site row first and so has that row's lock while it  *)
(* replaces the service areas.                                             *)
(***************************************************************************)
EXTENDS Naturals

CONSTANTS
  Names,        \* names of service areas
  Workers,      \* server threads; each handles one request at a time
  MaxUpdates,   \* bound: updates begun
  MaxDeletes    \* bound: pages deleted

VARIABLES
  site,         \* whether the site row exists
  page,         \* the row of the page "/": its key, 0 if there is none
  blocks,       \* keys of the pages that have their default blocks
  areas,        \* the service areas: rows with a name and the update that made them
  request,      \* what each worker is doing
  updates,      \* updates begun so far
  pages         \* pages inserted so far

vars == <<site, page, blocks, areas, request, updates, pages>>

Idle == [at |-> "idle"]

\* Organizations that did not sign up through the API have no site yet.
Init ==
  /\ site = FALSE
  /\ page = 0
  /\ blocks = {}
  /\ areas = {}
  /\ request = [w \in Workers |-> Idle]
  /\ updates = 0
  /\ pages = 0

\* Steps of an update inside its transaction.
Open == {"begun", "locked", "deleted"}

Goto(w, r) == request' = [request EXCEPT ![w] = r]

-------------------------------------------------------------------------------
(* get_or_create_public_site of a GET, on the way to its answer.           *)

\* An open transaction has inserted what is missing; others that would insert
\* it too wait for the end of that transaction.
Making == \E w \in Workers : request[w].at \in Open /\ request[w].makes

\* get_or_create of the site: of two that insert, the unique constraint lets
\* one; the other reads its row.
Get(w) ==
  /\ request[w] = Idle
  /\ site \/ ~Making
  /\ site' = TRUE
  /\ Goto(w, [at |-> "page"])
  /\ UNCHANGED <<page, blocks, areas, updates, pages>>

GetPage(w) ==
  /\ request[w].at = "page"
  /\ IF page # 0
     THEN Goto(w, Idle) /\ UNCHANGED <<page, pages>>
     ELSE /\ ~Making
          /\ pages' = pages + 1
          /\ page' = pages'
          /\ Goto(w, [at |-> "blocks", page |-> pages'])
  /\ UNCHANGED <<site, blocks, areas, updates>>

\* bulk_create of the default blocks; their page may be gone.
CreateBlocks(w) ==
  /\ request[w].at = "blocks"
  /\ blocks' = IF page = request[w].page THEN blocks \cup {page} ELSE blocks
  /\ Goto(w, Idle)
  /\ UNCHANGED <<site, page, areas, updates, pages>>

\* DELETE of the page, its blocks with it; the next request makes a new one.
DeletePage ==
  /\ page # 0
  /\ pages <= MaxDeletes
  /\ page' = 0
  /\ blocks' = {}
  /\ UNCHANGED <<site, areas, request, updates, pages>>

-------------------------------------------------------------------------------
(* update_public_site: one transaction per request.                        *)

Locked == \E w \in Workers : request[w].at \in {"locked", "deleted"}

\* get_or_create_public_site inside the transaction.
BeginUpdate(w, names) ==
  /\ request[w] = Idle
  /\ updates < MaxUpdates
  /\ updates' = updates + 1
  /\ LET makes == ~site \/ page = 0 IN
       /\ makes => ~Making
       /\ Goto(w, [at |-> "begun", by |-> updates', names |-> names, makes |-> makes])
  /\ UNCHANGED <<site, page, blocks, areas, pages>>

\* Mutant of SaveSite: no UPDATE when no column of the site is given.
SaveSiteIfGiven(w) ==
  /\ request[w].at = "begun"
  /\ Goto(w, [request[w] EXCEPT !.at = "locked"])
  /\ UNCHANGED <<site, page, blocks, areas, updates, pages>>

\* site.save(): updated_at is always among the columns, so this is always an
\* UPDATE, and waits for the transaction that has the row.
SaveSite(w) ==
  /\ request[w].at = "begun"
  /\ ~Locked
  /\ Goto(w, [request[w] EXCEPT !.at = "locked"])
  /\ UNCHANGED <<site, page, blocks, areas, updates, pages>>

\* The DELETE takes the committed rows it sees.
DeleteAreas(w) ==
  /\ request[w].at = "locked"
  /\ Goto(w, [at |-> "deleted", by |-> request[w].by, names |-> request[w].names,
              makes |-> request[w].makes, gone |-> areas])
  /\ UNCHANGED <<site, page, blocks, areas, updates, pages>>

\* bulk_create and COMMIT; a name that is still there is an IntegrityError.
Commit(w) ==
  LET r == request[w]
      left == areas \ r.gone
      rows == [name : r.names, by : {r.by}]
  IN
    /\ r.at = "deleted"
    /\ IF \E a \in left : a.name \in r.names
       THEN UNCHANGED <<site, page, blocks, areas, pages>>
       ELSE /\ areas' = left \cup rows
            /\ site' = TRUE
            /\ IF r.makes /\ page = 0
               THEN pages' = pages + 1 /\ page' = pages' /\ blocks' = {page'}
               ELSE UNCHANGED <<page, blocks, pages>>
    /\ Goto(w, Idle)
    /\ UNCHANGED updates

\* The process dies: what is not committed is rolled back.
Crash(w) ==
  /\ request[w] # Idle
  /\ Goto(w, Idle)
  /\ UNCHANGED <<site, page, blocks, areas, updates, pages>>

Next ==
  \/ DeletePage
  \/ \E w \in Workers :
       \/ Get(w) \/ GetPage(w) \/ CreateBlocks(w)
       \/ \E names \in SUBSET Names : BeginUpdate(w, names)
       \/ SaveSite(w) \/ DeleteAreas(w) \/ Commit(w)
       \/ Crash(w)

Spec == Init /\ [][Next]_vars

-------------------------------------------------------------------------------
(* Properties.                                                             *)

\* The service areas of a site are the list of one request, never a mixture of
\* two that overlapped, although update_public_site locks nothing by name.
AreasOfOneUpdate ==
  \A a, b \in areas : a # b => a.by = b.by /\ a.name # b.name
===============================================================================
