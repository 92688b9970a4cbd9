----------------------------- MODULE WorkspaceProofs -----------------------------
(***************************************************************************)
(* Proofs about the records of a workspace: Branches, Chat, PublicSite and *)
(* Customers, for any number of rows, workers and messages, any length of  *)
(* a page and whatever bound the runs set.                                 *)
(***************************************************************************)
EXTENDS Workspace, FiniteSetTheorems, WellFoundedInduction, TLAPS

-------------------------------------------------------------------------------
(* Branches: which of them is the default.                                 *)

BranchRows == Directory!Row \cup {Directory!Absent}

\* What a worker has read, or its open transaction.
BranchRequests ==
  [at : {"none"}]
    \cup [at : {"save"}, b : Branches, row : Directory!Row]
    \cup [at : {"deactivate"}, b : Branches]
    \cup [at : {"opened"}, b : Branches, row : Directory!Row, new : BOOLEAN]
    \cup [at : {"clear"}, b : Branches, row : Directory!Row, new : BOOLEAN,
          others : SUBSET Branches]

BranchTypes ==
  /\ branch \in [Branches -> BranchRows]
  /\ branchRequest \in [Workers -> BranchRequests]
  /\ company \in [Branches -> SUBSET Branches]

\* The creation of one of the two as a default was open when the other came.
Met(a, b) == a \in company[b] \/ b \in company[a]

Opened(w) == branchRequest[w].at \in {"opened", "clear"}

\* A transaction has a row that is there, or inserts one; the rows that an
\* UPDATE saw stay.
OwnsOrInserts ==
  \A w \in Workers :
    /\ Opened(w) => (branchRequest[w].new <=> branchRequest[w].b \notin Directory!Present)
    /\ branchRequest[w].at \in {"save", "deactivate"} =>
         branchRequest[w].b \in Directory!Present
    /\ branchRequest[w].at = "clear" =>
         branchRequest[w].others \subseteq Directory!Present \ {branchRequest[w].b}

\* Two transactions have two branches, and if both insert theirs, they met.
OwnBranches ==
  \A v, w \in Workers :
    v # w /\ Opened(v) /\ Opened(w) =>
      /\ branchRequest[v].b # branchRequest[w].b
      /\ branchRequest[v].new /\ branchRequest[w].new =>
           Met(branchRequest[v].b, branchRequest[w].b)

\* A branch that came after the UPDATE had started met it, if the UPDATE is part
\* of a creation; else it is no default.
UnseenMet ==
  \A w \in Workers : branchRequest[w].at = "clear" =>
    \A a \in Directory!Present \ ({branchRequest[w].b} \cup branchRequest[w].others) :
      branchRequest[w].new \/ branch[a].default => Met(a, branchRequest[w].b)

\* Of two UPDATEs one waits for the other, unless they are of two creations
\* that met.
OneWaits ==
  \A v, w \in Workers :
    v # w /\ branchRequest[v].at = "clear" /\ branchRequest[w].at = "clear" =>
      \/ branchRequest[v].b \in branchRequest[w].others
      \/ branchRequest[w].b \in branchRequest[v].others
      \/ Met(branchRequest[v].b, branchRequest[w].b)

BranchInv ==
  /\ BranchTypes /\ OwnsOrInserts /\ OwnBranches
  /\ UnseenMet /\ OneWaits /\ OneDefault

LEMMA RowIsPresent == \A r \in Directory!Row : r # Directory!Absent
BY DEF Directory!Row, Directory!Absent

\* A new organization has no branch.
LEMMA InitBranches == Directory!Init => BranchInv
<1> SUFFICES ASSUME Directory!Init PROVE BranchInv
  OBVIOUS
<1> USE DEF Directory!Init, Directory!NoRequest
<1>1. BranchTypes
  BY DEF BranchTypes, BranchRows, BranchRequests
<1>2. Directory!Present = {}
  BY DEF Directory!Present
<1> QED
  BY <1>1, <1>2 DEF BranchInv, OwnsOrInserts, OwnBranches, UnseenMet, OneWaits, Opened,
     OneDefault, Directory!OneDefault, Directory!Default

\* A step that leaves its worker without a transaction, inserts nothing and makes
\* no branch a default breaks nothing.
LEMMA QuietStep ==
  ASSUME BranchInv, NEW w \in Workers, NEW r \in BranchRequests,
         branchRequest' = [branchRequest EXCEPT ![w] = r],
         r.at \notin {"opened", "clear"},
         r.at \in {"save", "deactivate"} => r.b \in Directory!Present,
         branch' \in [Branches -> BranchRows], UNCHANGED company,
         Directory!Present' = Directory!Present,
         \A b \in Branches : branch'[b].default => branch[b].default
  PROVE  BranchInv'
<1>a. BranchTypes /\ OwnsOrInserts /\ OwnBranches /\ UnseenMet /\ OneWaits /\ OneDefault
  BY DEF BranchInv
<1>1. /\ branchRequest'[w] = r
      /\ \A v \in Workers \ {w} : branchRequest'[v] = branchRequest[v]
      /\ BranchTypes'
  BY <1>a DEF BranchTypes
<1>2. OwnsOrInserts'
  BY <1>a, <1>1 DEF OwnsOrInserts, Opened
<1>3. OwnBranches' /\ OneWaits'
  BY <1>a, <1>1 DEF OwnBranches, OneWaits, Opened, Met
<1>4. UnseenMet'
  <2> SUFFICES ASSUME NEW v \in Workers, branchRequest'[v].at = "clear",
                      NEW a \in Directory!Present',
                      a \notin {branchRequest'[v].b} \cup branchRequest'[v].others,
                      branchRequest'[v].new \/ branch'[a].default
               PROVE  Met(a, branchRequest[v].b)'
    BY DEF UnseenMet
  <2>1. v # w /\ branchRequest'[v] = branchRequest[v] /\ a \in Directory!Present
    BY <1>1
  <2>2. branchRequest[v].new \/ branch[a].default
    BY <2>1 DEF Directory!Present
  <2>3. Met(a, branchRequest[v].b)
    BY <1>a, <2>1, <2>2 DEF UnseenMet
  <2> QED
    BY <2>1, <2>3 DEF Met
<1>5. OneDefault'
  BY <1>a DEF OneDefault, Directory!OneDefault, Directory!Default, Directory!Present
<1> QED
  BY <1>1, <1>2, <1>3, <1>4, <1>5 DEF BranchInv

\* The branch of a creation is none that is there or that a transaction has, and
\* meets those that are being created.
LEMMA NewIsApart ==
  ASSUME BranchInv, NEW w \in Workers, NEW b \in Branches, NEW r \in Directory!Row,
         Directory!Create(w, b, r)
  PROVE  /\ b \notin Directory!Present /\ branchRequest[w] = Directory!NoRequest
         /\ \A v \in Workers :
              Opened(v) => /\ branchRequest[v].b # b
                           /\ branchRequest[v].new => branchRequest[v].b \in company'[b]
         /\ company' \in [Branches -> SUBSET Branches]
         /\ \A a \in Branches \ {b} : company'[a] = company[a]
<1>1. BranchTypes /\ OwnsOrInserts
  BY DEF BranchInv
<1>2. /\ b \notin Directory!Present \cup Directory!Creating
      /\ branchRequest[w] = Directory!NoRequest
      /\ company' = [company EXCEPT ![b] = Directory!Creating]
  BY DEF Directory!Create
<1>3. \A v \in Workers : Opened(v) /\ branchRequest[v].new =>
        branchRequest[v].b \in Directory!Creating
  BY DEF Opened, Directory!Creating
<1>4. Directory!Creating \subseteq Branches
  BY <1>1 DEF Directory!Creating, BranchTypes, BranchRequests
<1>5. \A v \in Workers : Opened(v) => branchRequest[v].b # b
  BY <1>1, <1>2, <1>3 DEF OwnsOrInserts
<1> QED
  BY <1>1, <1>2, <1>3, <1>4, <1>5 DEF BranchTypes

\* No step of a request breaks the invariant.
LEMMA NextKeepsBranches == BranchInv /\ [Directory!Next]_(Directory!vars) => BranchInv'
<1> SUFFICES ASSUME BranchInv, [Directory!Next]_(Directory!vars) PROVE BranchInv'
  OBVIOUS
<1>a. BranchTypes /\ OwnsOrInserts /\ OwnBranches /\ UnseenMet /\ OneWaits /\ OneDefault
  BY DEF BranchInv
<1>1. ASSUME NEW w \in Workers, NEW b \in Branches, NEW r \in Directory!Row,
             Directory!Create(w, b, r), ~r.default
      PROVE BranchInv'
  <2>1. branch' = [branch EXCEPT ![b] = r] /\ UNCHANGED branchRequest
    BY <1>1 DEF Directory!Create
  <2>2. /\ b \notin Directory!Present
        /\ \A v \in Workers :
             Opened(v) => /\ branchRequest[v].b # b
                          /\ branchRequest[v].new => branchRequest[v].b \in company'[b]
        /\ company' \in [Branches -> SUBSET Branches]
        /\ \A a \in Branches \ {b} : company'[a] = company[a]
    BY <1>1, NewIsApart
  <2>3. BranchTypes'
    BY <1>a, <2>1, <2>2 DEF BranchTypes, BranchRows
  <2>4. /\ Directory!Present' = Directory!Present \cup {b}
        /\ \A a \in Branches \ {b} : branch'[a] = branch[a]
        /\ ~branch'[b].default
    BY <1>a, <1>1, <2>1, RowIsPresent DEF Directory!Present, BranchTypes
  <2>5. OwnsOrInserts'
    BY <1>a, <2>1, <2>2, <2>4 DEF OwnsOrInserts, Opened
  <2>6. \A v \in Workers : Opened(v) => branchRequest[v].b \in Branches \ {b}
    BY <1>a, <2>2 DEF BranchTypes, BranchRequests, Opened
  <2>7. OwnBranches' /\ OneWaits'
    BY <1>a, <2>1, <2>2, <2>6 DEF OwnBranches, OneWaits, Opened, Met
  <2>8. UnseenMet'
    <3> SUFFICES ASSUME NEW v \in Workers, branchRequest[v].at = "clear",
                        NEW a \in Directory!Present',
                        a \notin {branchRequest[v].b} \cup branchRequest[v].others,
                        branchRequest[v].new \/ branch'[a].default
                 PROVE  Met(a, branchRequest[v].b)'
      BY <2>1 DEF UnseenMet
    <3>1. CASE a = b
      BY <2>1, <2>2, <2>4, <3>1 DEF Met, Opened
    <3>2. CASE a # b
      <4>1. a \in Branches \ {b} /\ a \in Directory!Present
        BY <2>4, <3>2 DEF Directory!Present
      <4>2. Met(a, branchRequest[v].b)
        BY <1>a, <2>4, <4>1 DEF UnseenMet
      <4>3. branchRequest[v].b \in Branches \ {b}
        BY <2>6 DEF Opened
      <4> QED
        BY <2>1, <2>2, <4>1, <4>2, <4>3 DEF Met
    <3> QED
      BY <3>1, <3>2
  <2>9. OneDefault'
    BY <1>a, <2>2, <2>4 DEF OneDefault, Directory!OneDefault, Directory!Default
  <2> QED
    BY <2>3, <2>5, <2>7, <2>8, <2>9 DEF BranchInv
<1>2. ASSUME NEW w \in Workers, NEW b \in Branches, NEW r \in Directory!Row,
             Directory!Create(w, b, r), r.default
      PROVE BranchInv'
  <2>1. /\ branchRequest' = [branchRequest EXCEPT ![w] =
                               [at |-> "opened", b |-> b, row |-> r, new |-> TRUE]]
        /\ UNCHANGED branch
    BY <1>2 DEF Directory!Create
  <2>2. /\ b \notin Directory!Present
        /\ \A v \in Workers :
             Opened(v) => /\ branchRequest[v].b # b
                          /\ branchRequest[v].new => branchRequest[v].b \in company'[b]
        /\ company' \in [Branches -> SUBSET Branches]
        /\ \A a \in Branches \ {b} : company'[a] = company[a]
    BY <1>2, NewIsApart
  <2>3. BranchTypes'
    BY <1>a, <2>1, <2>2 DEF BranchTypes, BranchRequests
  <2>4. /\ branchRequest'[w] = [at |-> "opened", b |-> b, row |-> r, new |-> TRUE]
        /\ \A v \in Workers \ {w} : branchRequest'[v] = branchRequest[v]
        /\ Directory!Present' = Directory!Present
    BY <1>a, <2>1 DEF BranchTypes, Directory!Present
  <2>5. OwnsOrInserts'
    BY <1>a, <2>2, <2>4 DEF OwnsOrInserts, Opened
  <2>6. \A v \in Workers : Opened(v) => branchRequest[v].b \in Branches \ {b}
    BY <1>a, <2>2 DEF BranchTypes, BranchRequests, Opened
  <2>7. OwnBranches' /\ OneWaits'
    BY <1>a, <2>2, <2>4, <2>6 DEF OwnBranches, OneWaits, Opened, Met
  <2>8. UnseenMet'
    <3>1. \A a \in Directory!Present : a \in Branches \ {b}
      BY <2>2 DEF Directory!Present
    <3> QED
      BY <1>a, <2>1, <2>2, <2>4, <2>6, <3>1 DEF UnseenMet, Opened, Met
  <2>9. OneDefault'
    BY <1>a, <2>1, <2>2 DEF OneDefault, Directory!OneDefault, Directory!Default,
       Directory!Present
  <2> QED
    BY <2>3, <2>5, <2>7, <2>8, <2>9 DEF BranchInv
<1>3. ASSUME NEW w \in Workers, NEW b \in Branches, NEW r \in Directory!Row,
             Directory!BeginUpdate(w, b, r) \/ Directory!BeginDeactivate(w, b)
      PROVE BranchInv'
  <2>1. PICK q \in BranchRequests :
          /\ branchRequest' = [branchRequest EXCEPT ![w] = q]
          /\ q.at \in {"save", "deactivate"} /\ q.b \in Directory!Present
          /\ UNCHANGED <<branch, company>>
    <3>1. CASE Directory!BeginUpdate(w, b, r)
      <4>1. [at |-> "save", b |-> b, row |-> r] \in BranchRequests
        BY DEF BranchRequests
      <4> QED
        BY <3>1, <4>1 DEF Directory!BeginUpdate
    <3>2. CASE Directory!BeginDeactivate(w, b)
      <4>1. [at |-> "deactivate", b |-> b] \in BranchRequests
        BY DEF BranchRequests
      <4> QED
        BY <3>2, <4>1 DEF Directory!BeginDeactivate
    <3> QED
      BY <1>3, <3>1, <3>2
  <2> QED
    BY <1>a, <2>1, QuietStep DEF BranchTypes, Directory!Present
<1>4. ASSUME NEW w \in Workers,
             \/ Directory!SaveUpdate(w) /\ ~branchRequest[w].row.default
             \/ Directory!SaveDeactivate(w) \/ Directory!BreakDeadlock(w)
      PROVE BranchInv'
  <2>1. /\ branchRequest' = [branchRequest EXCEPT ![w] = Directory!NoRequest]
        /\ UNCHANGED company
    BY <1>4 DEF Directory!SaveUpdate, Directory!SaveDeactivate, Directory!BreakDeadlock,
       Directory!Reply
  <2>2. \/ UNCHANGED branch
        \/ \E b \in Directory!Present, r \in Directory!Row :
             /\ branch' = [branch EXCEPT ![b] = r]
             /\ r.default => branch[b].default
    <3>1. CASE Directory!SaveUpdate(w) /\ ~branchRequest[w].row.default
      <4>1. branchRequest[w].b \in Directory!Present /\ branchRequest[w].row \in Directory!Row
        BY <1>a, <3>1 DEF Directory!SaveUpdate, OwnsOrInserts, BranchTypes, BranchRequests
      <4> QED
        BY <3>1, <4>1 DEF Directory!SaveUpdate
    <3>2. CASE Directory!SaveDeactivate(w)
      <4> DEFINE b == branchRequest[w].b
      <4>1. b \in Directory!Present
        BY <1>a, <3>2 DEF Directory!SaveDeactivate, OwnsOrInserts
      <4>2. branch[b] \in Directory!Row
        BY <1>a, <4>1 DEF Directory!Present, BranchTypes, BranchRows
      <4>3. /\ [branch[b] EXCEPT !.active = FALSE] \in Directory!Row
            /\ [branch[b] EXCEPT !.active = FALSE].default = branch[b].default
        BY <4>2 DEF Directory!Row
      <4>4. branch' = [branch EXCEPT ![b] = [branch[b] EXCEPT !.active = FALSE]]
        BY <3>2 DEF Directory!SaveDeactivate
      <4> QED
        BY <4>1, <4>3, <4>4
    <3>3. CASE Directory!BreakDeadlock(w)
      BY <3>3 DEF Directory!BreakDeadlock
    <3> QED
      BY <1>4, <3>1, <3>2, <3>3
  <2>3. /\ branch' \in [Branches -> BranchRows]
        /\ Directory!Present' = Directory!Present
        /\ \A b \in Branches : branch'[b].default => branch[b].default
    <3>1. CASE UNCHANGED branch
      BY <1>a, <3>1 DEF BranchTypes, Directory!Present
    <3>2. ASSUME NEW b \in Directory!Present, NEW r \in Directory!Row,
                 branch' = [branch EXCEPT ![b] = r], r.default => branch[b].default
          PROVE  <2>3!1 /\ <2>3!2 /\ <2>3!3
      <4>1. b \in Branches /\ branch[b] # Directory!Absent /\ r # Directory!Absent
        BY RowIsPresent DEF Directory!Present
      <4>2. /\ branch' \in [Branches -> BranchRows] /\ branch'[b] = r
            /\ \A a \in Branches \ {b} : branch'[a] = branch[a]
        BY <1>a, <3>2, <4>1 DEF BranchTypes, BranchRows
      <4> QED
        BY <3>2, <4>1, <4>2 DEF Directory!Present
    <3> QED
      BY <2>2, <3>1, <3>2
  <2>4. Directory!NoRequest \in BranchRequests /\ Directory!NoRequest.at = "none"
    BY DEF Directory!NoRequest, BranchRequests
  <2> QED
    BY <2>1, <2>3, <2>4, QuietStep
<1>5. ASSUME NEW w \in Workers, Directory!SaveUpdate(w), branchRequest[w].row.default
      PROVE BranchInv'
  <2> DEFINE r == branchRequest[w]
             q == [at |-> "opened", b |-> r.b, row |-> r.row, new |-> FALSE]
  <2>1. /\ branchRequest' = [branchRequest EXCEPT ![w] = q] /\ UNCHANGED <<branch, company>>
        /\ r.at = "save" /\ ~Directory!Held(w, r.b)
    BY <1>5 DEF Directory!SaveUpdate
  <2>2. r.b \in Branches /\ r.row \in Directory!Row /\ r.b \in Directory!Present
    BY <1>a, <2>1 DEF BranchTypes, BranchRequests, OwnsOrInserts
  <2>3. q \in BranchRequests /\ q.at = "opened" /\ q.b = r.b /\ ~q.new
    BY <2>2 DEF BranchRequests
  <2>4. \A v \in Workers \ {w} : Opened(v) => branchRequest[v].b # r.b
    BY <2>1 DEF Directory!Held, Opened
  <2> HIDE DEF q
  <2>5. /\ branchRequest'[w] = q /\ Directory!Present' = Directory!Present
        /\ \A v \in Workers \ {w} : branchRequest'[v] = branchRequest[v]
    BY <1>a, <2>1 DEF BranchTypes, Directory!Present
  <2>6. BranchTypes'
    BY <1>a, <2>1, <2>3 DEF BranchTypes
  <2>7. OwnsOrInserts'
    BY <1>a, <2>2, <2>3, <2>5 DEF OwnsOrInserts, Opened
  <2>8. OwnBranches'
    BY <1>a, <2>1, <2>3, <2>4, <2>5 DEF OwnBranches, Opened, Met
  <2>9. UnseenMet' /\ OneWaits' /\ OneDefault'
    BY <1>a, <2>1, <2>3, <2>5 DEF UnseenMet, OneWaits, Met, OneDefault,
       Directory!OneDefault, Directory!Default
  <2> QED
    BY <2>6, <2>7, <2>8, <2>9 DEF BranchInv
<1>6. ASSUME NEW w \in Workers, Directory!StartClear(w) PROVE BranchInv'
  <2> DEFINE r == branchRequest[w]
             q == [at |-> "clear", b |-> r.b, row |-> r.row, new |-> r.new,
                   others |-> Directory!Present \ {r.b}]
  <2>1. /\ branchRequest' = [branchRequest EXCEPT ![w] = q] /\ UNCHANGED <<branch, company>>
        /\ r.at = "opened"
    BY <1>6 DEF Directory!StartClear
  <2>2. r.b \in Branches /\ r.row \in Directory!Row /\ r.new \in BOOLEAN
    BY <1>a, <2>1 DEF BranchTypes, BranchRequests
  <2>3. /\ q \in BranchRequests /\ q.at = "clear" /\ q.b = r.b /\ q.new = r.new
        /\ q.others = Directory!Present \ {r.b}
    BY <2>2 DEF BranchRequests, Directory!Present
  <2> HIDE DEF q
  <2>4. /\ branchRequest'[w] = q /\ Directory!Present' = Directory!Present
        /\ \A v \in Workers \ {w} : branchRequest'[v] = branchRequest[v]
    BY <1>a, <2>1 DEF BranchTypes, Directory!Present
  <2>5. BranchTypes'
    BY <1>a, <2>1, <2>3 DEF BranchTypes
  <2>6. OwnsOrInserts' /\ OwnBranches'
    BY <1>a, <2>1, <2>3, <2>4 DEF OwnsOrInserts, OwnBranches, Opened, Met
  <2>7. UnseenMet' /\ OneDefault'
    BY <1>a, <2>1, <2>3, <2>4 DEF UnseenMet, Met, OneDefault, Directory!OneDefault,
       Directory!Default
  <2>8. OneWaits'
    <3>1. ASSUME NEW v \in Workers \ {w}, branchRequest[v].at = "clear"
          PROVE  \/ branchRequest[v].b \in Directory!Present \ {r.b}
                 \/ r.b \in branchRequest[v].others
                 \/ Met(branchRequest[v].b, r.b)
      <4>1. branchRequest[v].b # r.b /\ (branchRequest[v].new /\ r.new => Met(branchRequest[v].b, r.b))
        BY <1>a, <2>1, <3>1 DEF OwnBranches, Opened
      <4>2. CASE branchRequest[v].b \in Directory!Present
        BY <4>1, <4>2
      <4>3. CASE branchRequest[v].b \notin Directory!Present
        <5>1. branchRequest[v].new
          BY <1>a, <3>1, <4>3 DEF OwnsOrInserts, Opened
        <5>2. ~r.new => r.b \in Directory!Present
          BY <1>a, <2>1 DEF OwnsOrInserts, Opened
        <5>3. r.b \in Directory!Present =>
                r.b \in branchRequest[v].others \/ Met(r.b, branchRequest[v].b)
          BY <1>a, <3>1, <4>1, <5>1 DEF UnseenMet
        <5> QED
          BY <4>1, <5>1, <5>2, <5>3 DEF Met
      <4> QED
        BY <4>2, <4>3
    <3> QED
      BY <1>a, <2>1, <2>3, <2>4, <3>1 DEF OneWaits, Met
  <2> QED
    BY <2>5, <2>6, <2>7, <2>8 DEF BranchInv
<1>7. ASSUME NEW w \in Workers, Directory!Commit(w) PROVE BranchInv'
  <2> DEFINE r == branchRequest[w]
  <2>1. /\ r.at = "clear" /\ UNCHANGED company
        /\ \A b \in r.others : ~Directory!Held(w, b)
        /\ branchRequest' = [branchRequest EXCEPT ![w] = Directory!NoRequest]
        /\ branch' = [b \in Branches |->
                        CASE b = r.b -> r.row
                          [] b \in r.others -> [branch[b] EXCEPT !.default = FALSE]
                          [] OTHER -> branch[b]]
    BY <1>7 DEF Directory!Commit, Directory!Reply
  <2>2. /\ r.b \in Branches /\ r.row \in Directory!Row /\ r.others \subseteq Directory!Present
        /\ r.b \notin r.others /\ (r.b \in Directory!Present \/ r.new)
    BY <1>a, <2>1 DEF BranchTypes, BranchRequests, OwnsOrInserts, Opened
  <2>3. \A b \in Directory!Present :
          /\ branch[b] \in Directory!Row
          /\ [branch[b] EXCEPT !.default = FALSE] \in Directory!Row
          /\ [branch[b] EXCEPT !.default = FALSE].default = FALSE
    <3>1. \A b \in Directory!Present : branch[b] \in Directory!Row
      BY <1>a DEF BranchTypes, BranchRows, Directory!Present
    <3>2. \A x \in Directory!Row : /\ [x EXCEPT !.default = FALSE] \in Directory!Row
                                   /\ [x EXCEPT !.default = FALSE].default = FALSE
      BY DEF Directory!Row
    <3> QED
      BY <3>1, <3>2
  <2>4. /\ branch'[r.b] = r.row
        /\ \A b \in r.others \ {r.b} : branch'[b] \in Directory!Row /\ ~branch'[b].default
        /\ \A b \in Branches \ ({r.b} \cup r.others) : branch'[b] = branch[b]
    <3>1. branch'[r.b] = r.row
      <4>1. \A b \in Branches : b = r.b => branch'[b] = r.row
        BY <2>1, <2>2
      <4> QED
        BY <2>2, <4>1
    <3>2. ASSUME NEW b \in r.others \ {r.b}
          PROVE  branch'[b] \in Directory!Row /\ ~branch'[b].default
      <4>1. b \in Branches /\ b \in Directory!Present
        BY <2>2 DEF Directory!Present
      <4>2. branch'[b] = [branch[b] EXCEPT !.default = FALSE]
        BY <2>1, <4>1
      <4> QED
        BY <2>3, <4>1, <4>2
    <3>3. \A b \in Branches \ ({r.b} \cup r.others) : branch'[b] = branch[b]
      BY <2>1
    <3> QED
      BY <3>1, <3>2, <3>3
  <2>5. branch' \in [Branches -> BranchRows]
    <3>1. \A b \in Branches : branch'[b] \in BranchRows
      BY <1>a, <2>2, <2>4 DEF BranchTypes, BranchRows
    <3> QED
      BY <2>1, <3>1
  <2>6. Directory!Present' = Directory!Present \cup {r.b}
    <3>1. \A b \in Branches : b \in Directory!Present' <=> b \in Directory!Present \cup {r.b}
      BY <2>2, <2>4, RowIsPresent DEF Directory!Present
    <3> QED
      BY <2>2, <3>1 DEF Directory!Present
  <2>7. /\ branchRequest'[w] = Directory!NoRequest
        /\ \A v \in Workers \ {w} : branchRequest'[v] = branchRequest[v]
        /\ BranchTypes'
    BY <1>a, <2>1, <2>5 DEF BranchTypes, BranchRequests, Directory!NoRequest
  <2>8. \A v \in Workers \ {w} : Opened(v) => branchRequest[v].b # r.b
    BY <1>a, <2>1 DEF OwnBranches, Opened
  <2>9. OwnsOrInserts'
    BY <1>a, <2>6, <2>7, <2>8 DEF OwnsOrInserts, Opened, Directory!NoRequest
  <2>10. OwnBranches' /\ OneWaits'
    BY <1>a, <2>1, <2>7 DEF OwnBranches, OneWaits, Opened, Met, Directory!NoRequest
  <2>11. \A a \in Directory!Present' \ {r.b} :
           branch'[a].default => a \notin r.others /\ branch[a].default /\ a \in Directory!Present
    BY <2>4, <2>6 DEF Directory!Present
  <2>12. UnseenMet'
    <3> SUFFICES ASSUME NEW v \in Workers \ {w}, branchRequest[v].at = "clear",
                        NEW a \in Directory!Present',
                        a \notin {branchRequest[v].b} \cup branchRequest[v].others,
                        branchRequest[v].new \/ branch'[a].default
                 PROVE  Met(a, branchRequest[v].b)
      BY <2>1, <2>7 DEF UnseenMet, Met, Directory!NoRequest
    <3>1. CASE a # r.b
      BY <1>a, <2>6, <2>11, <3>1 DEF UnseenMet
    <3>2. CASE a = r.b
      <4>1. branchRequest[v].b \notin r.others
        BY <2>1 DEF Directory!Held
      <4> QED
        BY <1>a, <2>1, <3>2, <4>1 DEF OneWaits, Met
    <3> QED
      BY <3>1, <3>2
  <2>13. OneDefault'
    <3> SUFFICES ASSUME NEW a \in Branches, NEW b \in Branches, a # b, a # r.b,
                        Directory!Default(a)', Directory!Default(b)'
                 PROVE  Met(a, b)
      BY <2>1 DEF OneDefault, Directory!OneDefault, Met
    <3>1. a \notin r.others /\ Directory!Default(a)
      BY <2>11 DEF Directory!Default
    <3>2. CASE b = r.b
      BY <1>a, <2>1, <3>1, <3>2 DEF UnseenMet, Directory!Default
    <3>3. CASE b # r.b
      BY <1>a, <2>11, <3>1, <3>3 DEF OneDefault, Directory!OneDefault, Directory!Default, Met
    <3> QED
      BY <3>2, <3>3
  <2> QED
    BY <2>7, <2>9, <2>10, <2>12, <2>13 DEF BranchInv
<1>8. CASE UNCHANGED Directory!vars
  BY <1>8 DEF Directory!vars, BranchInv, BranchTypes, OwnsOrInserts, OwnBranches, UnseenMet,
     OneWaits, Opened, Met, OneDefault, Directory!OneDefault, Directory!Default,
     Directory!Present
<1>9. ASSUME NEW w \in Workers, Directory!SaveUpdate(w) PROVE BranchInv'
  BY <1>4, <1>5, <1>9
<1>10. ASSUME NEW w \in Workers, NEW b \in Branches, NEW r \in Directory!Row,
              Directory!Create(w, b, r)
       PROVE BranchInv'
  BY <1>1, <1>2, <1>10
<1>11. ASSUME NEW w \in Workers, NEW b \in Branches, Directory!BeginDeactivate(w, b)
       PROVE BranchInv'
  <2>1. [default |-> FALSE, active |-> FALSE] \in Directory!Row
    BY DEF Directory!Row
  <2> QED
    BY <1>3, <1>11, <2>1
<1> QED
  BY <1>3, <1>4, <1>6, <1>7, <1>8, <1>9, <1>10, <1>11 DEF Directory!Next

\* However requests make branches and change which is the default, with copies
\* read long before and without a lock: two are the default only if one was
\* inserted while the creation of the other as the default was open.
THEOREM DefaultsMet == Directory!Spec => []OneDefault
<1>1. BranchInv => OneDefault
  BY DEF BranchInv
<1>2. QED
  BY <1>1, InitBranches, NextKeepsBranches, PTL DEF Directory!Spec

-------------------------------------------------------------------------------
(* Chat: a thread, its lists and the socket of one of its sides.           *)

Readings ==
  [at : {"none"}]
    \cup [at : {"responded"}, page : SUBSET Messages, live : BOOLEAN]
    \cup [at : {"listed", "marked"}, ids : SUBSET Messages, page : SUBSET Messages,
          live : BOOLEAN]

MessageEdits == [m : Messages, row : Thread!Row]

ThreadTypes ==
  /\ listener \in Thread!Sides
  /\ message \in [Messages -> Thread!Row \cup {Thread!Absent, Thread!Deleted}]
  /\ posting \subseteq Messages /\ unsent \subseteq Messages /\ unseen \subseteq Messages
  /\ shown \in [Thread!Sides -> SUBSET Messages]
  /\ reading \in [Thread!Sides -> Readings]
  /\ messageEdit \in MessageEdits \cup {Thread!NoEdit}
  /\ socket \in [joined : BOOLEAN, accepted : BOOLEAN, got : SUBSET Messages]
  /\ view \in [at : {"none"}] \cup [at : {"listed"}, page : SUBSET Messages]

\* Where a message that side has marked as read went.
Accounted(m, side) == m \in shown[side] \cup Thread!Returning(side) \cup unseen

\* A message keeps its sender, also in the copy that an edit has, until it is
\* deleted; the copy, if it is read, is accounted for as well.
EditKeepsSender ==
  messageEdit \in MessageEdits =>
    /\ message[messageEdit.m].sender \in {messageEdit.row.sender, "deleted"}
    /\ messageEdit.row.read =>
         \A s \in Thread!Sides \ {messageEdit.row.sender} : Accounted(messageEdit.m, s)

\* What a list will mark it returns, or has put down as unseen.
MarksItsPage ==
  \A s \in Thread!Sides :
    reading[s].at = "listed" => reading[s].ids \subseteq reading[s].page \cup unseen

\* What a list will mark the other side sent.
MarksTheOthers ==
  \A s \in Thread!Sides : reading[s].at = "listed" =>
    \A m \in reading[s].ids :
      /\ message[m].sender \notin {s, "nobody"}
      /\ messageEdit \in MessageEdits /\ messageEdit.m = m => messageEdit.row.sender # s

ReadInv ==
  ThreadTypes /\ EditKeepsSender /\ MarksItsPage /\ MarksTheOthers /\ ReadWasShown

\* The property by the name it has in this proof.
LEMMA ReadIsAccounted ==
  ReadWasShown <=>
    \A m \in Messages, s \in Thread!Sides :
      message[m] \in Thread!Row /\ message[m].read /\ message[m].sender # s => Accounted(m, s)
BY DEF ReadWasShown, Thread!ReadWasShown, Thread!Present, Accounted

\* The rows of the table and the edit that is none.
LEMMA MessageKinds ==
  /\ \A x \in Thread!Row : x.sender \in {"dispatch", "courier"} /\ x.read \in BOOLEAN
  /\ Thread!Absent \notin Thread!Row /\ Thread!Absent.sender = "nobody"
  /\ Thread!Deleted \notin Thread!Row /\ Thread!Deleted.sender = "deleted"
  /\ Thread!NoEdit \notin MessageEdits
<1>1. Thread!NoEdit \notin MessageEdits
  BY DEF Thread!NoEdit, MessageEdits
<1> QED
  BY <1>1 DEF Thread!Row, Thread!Sides, Thread!Absent, Thread!Deleted

\* A socket stays one while it is connected, and when something arrives on it.
LEMMA SocketStays ==
  ASSUME NEW s \in [joined : BOOLEAN, accepted : BOOLEAN, got : SUBSET Messages],
         NEW m \in Messages
  PROVE  [s EXCEPT !.got = @ \cup {m}]
           \in [joined : BOOLEAN, accepted : BOOLEAN, got : SUBSET Messages]
OBVIOUS

\* A list that has not been answered stays one, marked or not live any more.
LEMMA ReadingStays ==
  ASSUME NEW x \in Readings, x.at # "none"
  PROVE  /\ [x EXCEPT !.live = FALSE] \in Readings
         /\ [x EXCEPT !.live = FALSE].at = x.at
         /\ [x EXCEPT !.live = FALSE].live = FALSE
         /\ x.at \in {"listed", "marked"} => /\ [x EXCEPT !.live = FALSE].ids = x.ids
                                             /\ [x EXCEPT !.live = FALSE].page = x.page
         /\ x.at = "listed" => /\ [x EXCEPT !.at = "marked"] \in Readings
                               /\ [x EXCEPT !.at = "marked"].at = "marked"
                               /\ [x EXCEPT !.at = "marked"].live = x.live
                               /\ [x EXCEPT !.at = "marked"].ids = x.ids
                               /\ [x EXCEPT !.at = "marked"].page = x.page
BY DEF Readings

\* A step after which every message is as it was, or deleted, or new and unread,
\* or accounted for, and which loses no account, keeps what is said of accounts.
LEMMA AccountsStay ==
  ASSUME ReadInv, UNCHANGED messageEdit,
         \A m \in Messages :
           \/ message'[m] = message[m]
           \/ message'[m] = Thread!Deleted
           \/ message[m].sender = "nobody" /\ message'[m].read = FALSE
           \/ /\ message'[m].sender = message[m].sender
              /\ \A s \in Thread!Sides \ {message[m].sender} : Accounted(m, s)',
         \A m \in Messages, s \in Thread!Sides :
           Accounted(m, s) /\ message[m].sender # s => Accounted(m, s)'
  PROVE  EditKeepsSender' /\ ReadWasShown'
<1>1. EditKeepsSender /\ ReadWasShown /\ ThreadTypes
  BY DEF ReadInv
<1>2. EditKeepsSender'
  <2> SUFFICES ASSUME messageEdit' \in MessageEdits' PROVE EditKeepsSender'
    BY DEF EditKeepsSender
  <2> DEFINE m == messageEdit.m
  <2>1. messageEdit \in MessageEdits /\ messageEdit' = messageEdit
    BY DEF MessageEdits, Thread!Row
  <2>2. m \in Messages /\ messageEdit.row.sender \in {"dispatch", "courier"}
    BY <2>1, MessageKinds DEF MessageEdits
  <2>3. message[m].sender \in {messageEdit.row.sender, "deleted"}
    BY <1>1, <2>1 DEF EditKeepsSender
  <2>4. message'[m].sender \in {messageEdit.row.sender, "deleted"}
    BY <2>2, <2>3, MessageKinds
  <2>5. \A s \in Thread!Sides \ {messageEdit.row.sender} : message[m].sender # s
    BY <2>3 DEF Thread!Sides
  <2>6. messageEdit.row.read =>
          \A s \in Thread!Sides \ {messageEdit.row.sender} : Accounted(m, s)'
    BY <1>1, <2>1, <2>2, <2>5 DEF EditKeepsSender
  <2> QED
    BY <2>1, <2>4, <2>6 DEF EditKeepsSender, Thread!Sides, Accounted
<1>3. \A m \in Messages, s \in Thread!Sides :
        message'[m] \in Thread!Row /\ message'[m].read /\ message'[m].sender # s =>
          Accounted(m, s)'
  BY <1>1, ReadIsAccounted, MessageKinds
<1>4. ReadWasShown'
  BY <1>3 DEF ReadWasShown, Thread!ReadWasShown, Thread!Present, Accounted, Thread!Row
<1> QED
  BY <1>2, <1>4

\* A step that finds nothing unread, and after which every message still is of its
\* sender, unless it was deleted, keeps what is said of the lists.
LEMMA ListsStay ==
  ASSUME ReadInv, UNCHANGED messageEdit, unseen \subseteq unseen',
         \A s \in Thread!Sides : reading'[s].at = "listed" =>
           /\ reading[s].at = "listed"
           /\ reading'[s].ids = reading[s].ids /\ reading'[s].page = reading[s].page,
         \A m \in Messages :
           message[m].sender = "nobody" \/ message'[m].sender \in {message[m].sender, "deleted"}
  PROVE  MarksItsPage' /\ MarksTheOthers'
<1>1. MarksItsPage /\ MarksTheOthers /\ ThreadTypes
  BY DEF ReadInv
<1>2. MarksItsPage'
  BY <1>1 DEF MarksItsPage, Thread!Sides
<1>3. \A s \in Thread!Sides : reading[s].at = "listed" => reading[s].ids \subseteq Messages
  BY <1>1 DEF ThreadTypes, Readings
<1>4. MarksTheOthers'
  BY <1>1, <1>3 DEF MarksTheOthers, Thread!Sides, MessageEdits, Thread!Row
<1> QED
  BY <1>2, <1>4

\* An empty thread.
LEMMA InitThread == Thread!Init => ReadInv
<1> SUFFICES ASSUME Thread!Init PROVE ReadInv
  OBVIOUS
<1> USE DEF Thread!Init, Thread!NotReading, Thread!NoEdit, Thread!NoView, Thread!Closed,
            Thread!Absent, Thread!Sides
<1>1. ThreadTypes
  BY DEF ThreadTypes, Readings
<1>2. EditKeepsSender
  BY MessageKinds DEF EditKeepsSender, Thread!NoEdit
<1>3. MarksItsPage /\ MarksTheOthers /\ ReadWasShown
  BY DEF MarksItsPage, MarksTheOthers, ReadWasShown, Thread!ReadWasShown, Thread!Present
<1> QED
  BY <1>1, <1>2, <1>3 DEF ReadInv

\* No step of a sender, a list, an edit or the socket breaks the invariant.
LEMMA NextKeepsThread == ReadInv /\ [Thread!Next]_(Thread!vars) => ReadInv'
<1> SUFFICES ASSUME ReadInv, [Thread!Next]_(Thread!vars) PROVE ReadInv'
  OBVIOUS
<1>a. ThreadTypes /\ EditKeepsSender /\ MarksItsPage /\ MarksTheOthers /\ ReadWasShown
  BY DEF ReadInv
<1>1. ASSUME NEW s \in Thread!Sides, Thread!Insert(s) PROVE ReadInv'
  <2>1. PICK m \in Messages :
          /\ message[m] = Thread!Absent
          /\ message' = [message EXCEPT ![m] = [sender |-> s, read |-> FALSE]]
          /\ posting' = posting \cup {m}
    <3>1. PICK m \in Messages :
            /\ \A k \in Messages : message[k] = Thread!Absent <=> k >= m
            /\ message' = [message EXCEPT ![m] = [sender |-> s, read |-> FALSE]]
            /\ posting' = posting \cup {m}
      BY <1>1 DEF Thread!Insert
    <3>2. m >= m
      BY WorkspaceAssumption
    <3> QED
      BY <3>1, <3>2
  <2>2. UNCHANGED <<listener, unsent, reading, messageEdit, socket, view, shown, unseen>>
    BY <1>1 DEF Thread!Insert, Thread!history
  <2>3. [sender |-> s, read |-> FALSE] \in Thread!Row
    BY DEF Thread!Row
  <2>4. ThreadTypes'
    BY <1>a, <2>1, <2>2, <2>3 DEF ThreadTypes
  <2>5. \A k \in Messages :
          \/ message'[k] = message[k]
          \/ message[k].sender = "nobody" /\ message'[k].read = FALSE
    <3>1. message'[m] = [sender |-> s, read |-> FALSE] /\ message[m].sender = "nobody"
      BY <1>a, <2>1, MessageKinds DEF ThreadTypes
    <3>2. \A k \in Messages \ {m} : message'[k] = message[k]
      BY <1>a, <2>1 DEF ThreadTypes
    <3> QED
      BY <3>1, <3>2
  <2>6. EditKeepsSender' /\ ReadWasShown'
    BY <2>2, <2>5, AccountsStay DEF Accounted, Thread!Returning
  <2>7. MarksItsPage' /\ MarksTheOthers'
    BY <2>2, <2>5, ListsStay
  <2> QED
    BY <2>4, <2>6, <2>7 DEF ReadInv
<1>2. CASE \/ \E m \in Messages : Thread!Broadcast(m) \/ Thread!SenderDies(m)
           \/ Thread!Connect
  <2>1. UNCHANGED <<listener, message, reading, messageEdit, view, shown, unseen>>
    BY <1>2 DEF Thread!Broadcast, Thread!SenderDies, Thread!Connect, Thread!history
  <2>2. ThreadTypes'
    <3>1. posting' \subseteq Messages /\ unsent' \subseteq Messages
      BY <1>a, <1>2 DEF Thread!Broadcast, Thread!SenderDies, Thread!Connect, ThreadTypes
    <3>2. socket' \in [joined : BOOLEAN, accepted : BOOLEAN, got : SUBSET Messages]
      <4> DEFINE Sockets == [joined : BOOLEAN, accepted : BOOLEAN, got : SUBSET Messages]
      <4>1. socket \in Sockets
        BY <1>a DEF ThreadTypes
      <4>2. ASSUME NEW m \in Messages, Thread!Broadcast(m) PROVE socket' \in Sockets
        BY <4>1, <4>2, SocketStays DEF Thread!Broadcast
      <4>3. CASE Thread!Connect
        BY <4>1, <4>3 DEF Thread!Connect, Thread!Connected
      <4>4. ASSUME NEW m \in Messages, Thread!SenderDies(m) PROVE socket' \in Sockets
        BY <4>1, <4>4 DEF Thread!SenderDies
      <4> QED
        BY <1>2, <4>2, <4>3, <4>4
    <3> QED
      BY <1>a, <2>1, <3>1, <3>2 DEF ThreadTypes
  <2>3. EditKeepsSender' /\ ReadWasShown'
    BY <2>1, AccountsStay DEF Accounted, Thread!Returning
  <2>4. MarksItsPage' /\ MarksTheOthers'
    BY <2>1, ListsStay
  <2> QED
    BY <2>2, <2>3, <2>4 DEF ReadInv
<1>3. CASE Thread!Disconnect
  <2>1. UNCHANGED <<listener, message, posting, unsent, messageEdit, shown, unseen>>
    BY <1>3 DEF Thread!Disconnect, Thread!history
  <2>2. \A s \in Thread!Sides :
          \/ reading'[s] = reading[s]
          \/ reading[s].at # "none" /\ reading'[s] = [reading[s] EXCEPT !.live = FALSE]
    BY <1>a, <1>3 DEF Thread!Disconnect, Thread!NotReading, ThreadTypes, Readings
  <2>3. ThreadTypes'
    <3>1. reading' \in [Thread!Sides -> Readings]
      <4>1. \A s \in Thread!Sides : reading'[s] \in Readings
        <5> SUFFICES ASSUME NEW s \in Thread!Sides PROVE reading'[s] \in Readings
          OBVIOUS
        <5>1. reading[s] \in Readings
          BY <1>a DEF ThreadTypes
        <5>2. CASE reading[s].at # "none"
          BY <2>2, <5>1, <5>2, ReadingStays
        <5> QED
          BY <2>2, <5>1, <5>2
      <4>2. reading' = [s \in Thread!Sides |-> reading'[s]]
        BY <1>a, <1>3 DEF Thread!Disconnect, ThreadTypes
      <4> QED
        BY <4>1, <4>2
    <3>2. /\ socket' \in [joined : BOOLEAN, accepted : BOOLEAN, got : SUBSET Messages]
          /\ view' \in [at : {"none"}]
      BY <1>3 DEF Thread!Disconnect, Thread!Closed, Thread!NoView
    <3> QED
      BY <1>a, <2>1, <3>1, <3>2 DEF ThreadTypes
  <2>4. \A s \in Thread!Sides :
          /\ reading'[s].at = reading[s].at
          /\ reading[s].at \in {"listed", "marked"} =>
               reading'[s].ids = reading[s].ids /\ reading'[s].page = reading[s].page
    <3> SUFFICES ASSUME NEW s \in Thread!Sides
                 PROVE  /\ reading'[s].at = reading[s].at
                        /\ reading[s].at \in {"listed", "marked"} =>
                             /\ reading'[s].ids = reading[s].ids
                             /\ reading'[s].page = reading[s].page
      OBVIOUS
    <3>1. reading[s] \in Readings
      BY <1>a DEF ThreadTypes
    <3>2. CASE reading[s].at # "none"
      BY <2>2, <3>1, <3>2, ReadingStays
    <3> QED
      BY <2>2, <3>2
  <2>5. EditKeepsSender' /\ ReadWasShown'
    BY <2>1, <2>4, AccountsStay DEF Accounted, Thread!Returning
  <2>6. MarksItsPage' /\ MarksTheOthers'
    BY <2>1, <2>4, ListsStay
  <2> QED
    BY <2>3, <2>5, <2>6 DEF ReadInv
<1>4. CASE Thread!CourierList \/ Thread!DispatchList \/ Thread!DispatchUnread
  <2>1. /\ UNCHANGED <<listener, message, posting, unsent, messageEdit, socket, view, shown>>
        /\ unseen \subseteq unseen' /\ unseen' \subseteq Messages
    BY <1>4, <1>a DEF Thread!CourierList, Thread!DispatchList, Thread!DispatchUnread,
       Thread!history, Thread!Unread, Thread!Present, ThreadTypes
  <2>2. Thread!Present \subseteq Messages /\ \A s \in Thread!Sides : Thread!Live(s) \in BOOLEAN
    BY <1>a DEF Thread!Present, Thread!Live, ThreadTypes
  <2>3. \A s \in Thread!Sides, P \in SUBSET Messages : Thread!Returned(s, P) \subseteq P
    BY DEF Thread!Returned
  <2>4. \A ids, returned \in SUBSET Messages, live \in BOOLEAN :
          /\ Thread!Found(ids, returned, live) \in Readings
          /\ Thread!Found(ids, returned, live).ids = ids
          /\ Thread!Found(ids, returned, live).page = returned
    BY DEF Thread!Found, Readings
  <2>5. PICK s \in Thread!Sides, x \in Readings :
          /\ reading' = [reading EXCEPT ![s] = x]
          /\ reading[s].at \in {"none", "responded"}
          /\ x.at = "listed" =>
               /\ x.ids \subseteq x.page \cup unseen'
               /\ \E t \in Thread!Sides \ {s} : x.ids \subseteq Thread!Unread(t)
    <3> USE DEF Thread!Sides
    <3>1. CASE Thread!CourierList
      <4> DEFINE ids == Thread!Page \cap Thread!Unread("dispatch")
                 returned == Thread!Returned("courier", Thread!Page)
                 x == Thread!Found(ids, returned, Thread!Live("courier"))
      <4>1. Thread!Page \in SUBSET Messages
        BY <2>2 DEF Thread!Page
      <4>2. returned \in SUBSET Messages /\ ids \in SUBSET Messages
        BY <2>3, <4>1
      <4>3. x \in Readings /\ x.ids = ids /\ x.page = returned
        BY <2>2, <2>4, <4>2
      <4>4. reading' = [reading EXCEPT !["courier"] = x] /\ reading["courier"].at = "none"
        BY <3>1 DEF Thread!CourierList, Thread!NotReading
      <4>5. ids \subseteq returned
        BY DEF Thread!Returned, Thread!Unread
      <4>6. ids \subseteq Thread!Unread("dispatch")
        OBVIOUS
      <4> HIDE DEF x, ids, returned
      <4> QED
        BY <4>3, <4>4, <4>5, <4>6
    <3>2. CASE Thread!DispatchList
      <4> DEFINE x == [at |-> "responded", page |-> Thread!Returned("dispatch", Thread!Present),
                       live |-> Thread!Live("dispatch")]
      <4>1. x \in Readings /\ x.at # "listed"
        BY <2>2, <2>3 DEF Readings
      <4>2. reading' = [reading EXCEPT !["dispatch"] = x] /\ reading["dispatch"].at = "none"
        BY <3>2 DEF Thread!DispatchList, Thread!NotReading
      <4> HIDE DEF x
      <4> QED
        BY <4>1, <4>2
    <3>3. CASE Thread!DispatchUnread
      <4> DEFINE ids == Thread!Unread("courier")
                 returned == reading["dispatch"].page
                 x == Thread!Found(ids, returned, reading["dispatch"].live)
      <4>1. returned \in SUBSET Messages /\ reading["dispatch"].live \in BOOLEAN
        BY <1>a, <3>3 DEF Thread!DispatchUnread, ThreadTypes, Readings
      <4>2. ids \in SUBSET Messages
        BY <2>2 DEF Thread!Unread
      <4>3. x \in Readings /\ x.ids = ids /\ x.page = returned
        BY <2>4, <4>1, <4>2
      <4>4. /\ reading' = [reading EXCEPT !["dispatch"] = x]
            /\ reading["dispatch"].at = "responded"
            /\ unseen' = unseen \cup (ids \ returned)
        BY <1>a, <3>3 DEF Thread!DispatchUnread, ThreadTypes
      <4> HIDE DEF x
      <4> QED
        BY <4>3, <4>4
    <3> QED
      BY <1>4, <3>1, <3>2, <3>3
  <2>6. /\ reading'[s] = x
        /\ \A t \in Thread!Sides \ {s} : reading'[t] = reading[t]
    BY <1>a, <2>5 DEF ThreadTypes
  <2>7. ThreadTypes'
    BY <1>a, <2>1, <2>5 DEF ThreadTypes
  <2>8. EditKeepsSender' /\ ReadWasShown'
    <3>1. \A t \in Thread!Sides : Thread!Returning(t) \subseteq Thread!Returning(t)'
      BY <2>5, <2>6 DEF Thread!Returning
    <3> QED
      BY <2>1, <3>1, AccountsStay DEF Accounted
  <2>9. MarksItsPage'
    BY <1>a, <2>1, <2>5, <2>6 DEF MarksItsPage, Thread!Sides
  <2>10. MarksTheOthers'
    <3>1. \A t \in Thread!Sides : \A m \in Thread!Unread(t) : message[m].sender = t
      BY DEF Thread!Unread
    <3>2. \A t \in Thread!Sides : \A m \in Thread!Unread(t) :
            messageEdit \in MessageEdits /\ messageEdit.m = m => messageEdit.row.sender = t
      BY <1>a, <3>1 DEF EditKeepsSender, Thread!Sides
    <3>3. reading'[s].at = "listed" => \A m \in reading'[s].ids :
            /\ message[m].sender \notin {s, "nobody"}
            /\ messageEdit \in MessageEdits /\ messageEdit.m = m => messageEdit.row.sender # s
      BY <2>5, <2>6, <3>1, <3>2 DEF Thread!Sides
    <3> QED
      BY <1>a, <2>1, <2>6, <3>3 DEF MarksTheOthers, Thread!Sides, MessageEdits, Thread!Row
  <2> QED
    BY <2>7, <2>8, <2>9, <2>10 DEF ReadInv
<1>5. ASSUME NEW s \in Thread!Sides, Thread!MarkRead(s) PROVE ReadInv'
  <2> DEFINE r == reading[s]
  <2>1. /\ r.at = "listed"
        /\ UNCHANGED <<listener, posting, unsent, messageEdit, socket, view, shown, unseen>>
        /\ message' = [m \in Messages |->
                         IF m \in r.ids \cap Thread!Present
                         THEN [message[m] EXCEPT !.read = TRUE] ELSE message[m]]
        /\ reading' = [reading EXCEPT ![s].at = "marked"]
    BY <1>5 DEF Thread!MarkRead, Thread!history
  <2>2. r \in Readings
    BY <1>a DEF ThreadTypes
  <2>3. /\ reading'[s] \in Readings /\ reading'[s].at = "marked"
        /\ reading'[s].ids = r.ids /\ reading'[s].page = r.page
        /\ \A t \in Thread!Sides \ {s} : reading'[t] = reading[t]
    BY <1>a, <2>1, <2>2, ReadingStays DEF ThreadTypes
  <2>4. \A m \in Messages :
          /\ message'[m].sender = message[m].sender
          /\ message'[m] = message[m] \/ m \in r.ids \cap Thread!Present
          /\ message'[m] \in Thread!Row \cup {Thread!Absent, Thread!Deleted}
    <3>1. \A m \in Thread!Present :
            /\ [message[m] EXCEPT !.read = TRUE] \in Thread!Row
            /\ [message[m] EXCEPT !.read = TRUE].sender = message[m].sender
      BY DEF Thread!Present, Thread!Row
    <3> QED
      BY <1>a, <2>1, <3>1 DEF ThreadTypes
  <2>5. ThreadTypes'
    <3>1. message' \in [Messages -> Thread!Row \cup {Thread!Absent, Thread!Deleted}]
      BY <2>1, <2>4
    <3>2. reading' \in [Thread!Sides -> Readings]
      BY <1>a, <2>1, <2>3 DEF ThreadTypes
    <3> QED
      BY <1>a, <2>1, <3>1, <3>2 DEF ThreadTypes
  <2>6. \A m \in r.ids \cap Thread!Present :
          \A t \in Thread!Sides \ {message[m].sender} : Accounted(m, t)'
    <3> SUFFICES ASSUME NEW m \in r.ids \cap Thread!Present,
                        NEW t \in Thread!Sides \ {message[m].sender}
                 PROVE  Accounted(m, t)'
      BY DEF Thread!Sides, Accounted
    <3>1. message[m].sender \in Thread!Sides \ {s}
      BY <1>a, <2>1 DEF MarksTheOthers, Thread!Present, Thread!Row
    <3>2. t = s
      BY <3>1 DEF Thread!Sides
    <3>3. m \in r.page \cup unseen
      BY <1>a, <2>1 DEF MarksItsPage
    <3> QED
      BY <2>1, <2>3, <3>2, <3>3 DEF Accounted, Thread!Returning
  <2>7. \A t \in Thread!Sides : Thread!Returning(t) \subseteq Thread!Returning(t)'
    BY <2>1, <2>3 DEF Thread!Returning
  <2>8. EditKeepsSender' /\ ReadWasShown'
    BY <2>1, <2>4, <2>6, <2>7, AccountsStay DEF Accounted
  <2>9. MarksItsPage' /\ MarksTheOthers'
    BY <2>1, <2>3, <2>4, ListsStay
  <2> QED
    BY <2>5, <2>8, <2>9 DEF ReadInv
<1>6. ASSUME NEW s \in Thread!Sides, Thread!Answer(s) \/ Thread!AnswerLost(s) PROVE ReadInv'
  <2> DEFINE r == reading[s]
  <2>1. /\ UNCHANGED <<listener, message, posting, unsent, messageEdit, socket>>
        /\ reading' = [reading EXCEPT ![s] = Thread!NotReading]
    BY <1>6 DEF Thread!Answer, Thread!AnswerLost
  <2>2. reading'[s].at = "none" /\ \A t \in Thread!Sides \ {s} : reading'[t] = reading[t]
    BY <1>a, <2>1 DEF ThreadTypes, Thread!NotReading
  <2>3. r \in Readings
    BY <1>a DEF ThreadTypes
  <2>4. /\ shown' \in [Thread!Sides -> SUBSET Messages]
        /\ unseen' \subseteq Messages /\ unseen \subseteq unseen'
        /\ \A t \in Thread!Sides : shown[t] \subseteq shown'[t]
        /\ \A m \in Thread!Returning(s) : message[m].sender # s => m \in shown'[s] \cup unseen'
        /\ view' \in [at : {"none"}] \cup [at : {"listed"}, page : SUBSET Messages]
    <3>1. CASE Thread!Answer(s)
      <4>1. /\ r.at = "marked" /\ unseen' = unseen
            /\ shown' = [shown EXCEPT ![s] = @ \cup {m \in r.page : message[m].sender # s}]
            /\ view' = IF r.live THEN [at |-> "listed", page |-> r.page] ELSE view
        BY <3>1 DEF Thread!Answer
      <4>2. r.page \subseteq Messages /\ Thread!Returning(s) \subseteq r.page
        BY <2>3, <4>1 DEF Readings, Thread!Returning
      <4> QED
        BY <1>a, <4>1, <4>2 DEF ThreadTypes
    <3>2. CASE Thread!AnswerLost(s)
      <4>1. UNCHANGED <<shown, view>> /\ unseen' = unseen \cup Thread!Returning(s)
        BY <3>2 DEF Thread!AnswerLost
      <4>2. Thread!Returning(s) \subseteq Messages
        BY <2>3 DEF Readings, Thread!Returning
      <4> QED
        BY <1>a, <4>1, <4>2 DEF ThreadTypes
    <3> QED
      BY <1>6, <3>1, <3>2
  <2>5. ThreadTypes'
    <3>1. reading' \in [Thread!Sides -> Readings]
      BY <1>a, <2>1 DEF ThreadTypes, Readings, Thread!NotReading
    <3> QED
      BY <1>a, <2>1, <2>4, <3>1 DEF ThreadTypes
  <2>6. \A m \in Messages, t \in Thread!Sides :
          Accounted(m, t) /\ message[m].sender # t => Accounted(m, t)'
    <3>1. \A t \in Thread!Sides \ {s} : Thread!Returning(t)' = Thread!Returning(t)
      BY <2>2 DEF Thread!Returning
    <3> QED
      BY <2>4, <3>1 DEF Accounted
  <2>7. EditKeepsSender' /\ ReadWasShown'
    BY <2>1, <2>6, AccountsStay
  <2>8. MarksItsPage' /\ MarksTheOthers'
    BY <2>1, <2>2, <2>4, ListsStay
  <2> QED
    BY <2>5, <2>7, <2>8 DEF ReadInv
<1>7. ASSUME NEW m \in Messages, Thread!BeginEdit(m) PROVE ReadInv'
  <2>1. /\ m \in Thread!Present /\ messageEdit' = [m |-> m, row |-> message[m]]
        /\ UNCHANGED <<listener, message, posting, unsent, reading, socket, view, shown, unseen>>
    BY <1>7 DEF Thread!BeginEdit, Thread!history
  <2>2. messageEdit' \in MessageEdits
    BY <2>1 DEF MessageEdits, Thread!Present
  <2>3. ThreadTypes'
    BY <1>a, <2>1, <2>2 DEF ThreadTypes
  <2>4. ReadWasShown'
    BY <1>a, <2>1 DEF ReadWasShown, Thread!ReadWasShown, Thread!Present, Thread!Returning
  <2>5. EditKeepsSender'
    <3>1. \A t \in Thread!Sides \ {message[m].sender} :
            message[m].read => Accounted(m, t)
      BY <1>a, <2>1, ReadIsAccounted DEF Thread!Present
    <3>2. \A t \in Thread!Sides : Accounted(m, t)' = Accounted(m, t)
      BY <2>1 DEF Accounted, Thread!Returning
    <3> QED
      BY <2>1, <3>1, <3>2 DEF EditKeepsSender, Accounted, Thread!Returning
  <2>6. MarksItsPage' /\ MarksTheOthers'
    BY <1>a, <2>1 DEF MarksItsPage, MarksTheOthers
  <2> QED
    BY <2>3, <2>4, <2>5, <2>6 DEF ReadInv
<1>8. CASE Thread!SaveEdit
  <2>1. /\ message' = [message EXCEPT ![messageEdit.m] = messageEdit.row]
        /\ unsent' = IF messageEdit.m \in Thread!Present THEN unsent
                                                         ELSE unsent \cup {messageEdit.m}
        /\ messageEdit # Thread!NoEdit /\ messageEdit' = Thread!NoEdit
        /\ UNCHANGED <<listener, posting, reading, socket, view, shown, unseen>>
    BY <1>8 DEF Thread!SaveEdit, Thread!history
  <2>2. /\ messageEdit \in MessageEdits
        /\ messageEdit.m \in Messages /\ messageEdit.row \in Thread!Row
    BY <1>a, <2>1 DEF ThreadTypes, MessageEdits
  <2>3. ThreadTypes'
    BY <1>a, <2>1, <2>2 DEF ThreadTypes
  <2>4. messageEdit' \notin MessageEdits'
    BY <2>1 DEF Thread!NoEdit, MessageEdits
  <2>5. MarksItsPage' /\ MarksTheOthers'
    <3>1. \A t \in Thread!Sides : reading[t].at = "listed" => reading[t].ids \subseteq Messages
      BY <1>a DEF ThreadTypes, Readings
    <3>2. messageEdit.row.sender # "nobody"
      BY <2>2, MessageKinds
    <3> QED
      BY <1>a, <2>1, <2>2, <2>4, <3>1, <3>2 DEF MarksItsPage, MarksTheOthers, ThreadTypes
  <2>6. ReadWasShown'
    <3>1. \A k \in Messages : k # messageEdit.m => message'[k] = message[k]
      BY <1>a, <2>1 DEF ThreadTypes
    <3>2. message'[messageEdit.m] = messageEdit.row
      BY <1>a, <2>1, <2>2 DEF ThreadTypes
    <3>3. \A k \in Messages, t \in Thread!Sides :
            message'[k] \in Thread!Row /\ message'[k].read /\ message'[k].sender # t =>
              Accounted(k, t)
      BY <1>a, <2>2, <3>1, <3>2, ReadIsAccounted DEF EditKeepsSender
    <3> QED
      BY <2>1, <3>3 DEF ReadWasShown, Thread!ReadWasShown, Thread!Present, Accounted,
         Thread!Returning, Thread!Row
  <2> QED
    BY <2>3, <2>4, <2>5, <2>6 DEF ReadInv, EditKeepsSender
<1>9. ASSUME NEW m \in Messages, Thread!Delete(m) PROVE ReadInv'
  <2>1. /\ message' = [message EXCEPT ![m] = Thread!Deleted]
        /\ UNCHANGED <<listener, posting, unsent, reading, messageEdit, socket, view, shown,
                       unseen>>
    BY <1>9 DEF Thread!Delete, Thread!history
  <2>2. \A k \in Messages : message'[k] = message[k] \/ message'[k] = Thread!Deleted
    BY <1>a, <2>1 DEF ThreadTypes
  <2>3. ThreadTypes'
    BY <1>a, <2>1 DEF ThreadTypes
  <2>4. EditKeepsSender' /\ ReadWasShown'
    BY <2>1, <2>2, AccountsStay DEF Accounted, Thread!Returning
  <2>5. MarksItsPage' /\ MarksTheOthers'
    BY <2>1, <2>2, MessageKinds, ListsStay
  <2> QED
    BY <2>3, <2>4, <2>5 DEF ReadInv
<1>10. CASE UNCHANGED Thread!vars
  BY <1>a, <1>10 DEF Thread!vars, Thread!history, ReadInv, ThreadTypes, EditKeepsSender,
     MarksItsPage, MarksTheOthers, ReadWasShown, Thread!ReadWasShown, Thread!Present,
     Thread!Returning, Accounted
<1> QED
  BY <1>1, <1>2, <1>3, <1>4, <1>5, <1>6, <1>7, <1>8, <1>9, <1>10
     DEF Thread!Next, Thread!DispatchSend, Thread!CourierSend, Thread!Sides

\* A message that is marked as read was in a list the other side was given, is in
\* one on its way, or is among those whose mark was committed by a list that did
\* not return them, because its answer was lost or they were sent while the
\* dispatcher's list was made: however long the thread and the page, and however
\* the lists of both sides, sends, edits, deletions and failures overlap.
THEOREM ReadIsShown == Thread!Spec => []ReadWasShown
<1>1. ReadInv => ReadWasShown
  BY DEF ReadInv
<1>2. QED
  BY <1>1, InitThread, NextKeepsThread, PTL DEF Thread!Spec

\* A set of numbers has a least one.
LEMMA LeastNumber ==
  ASSUME NEW T \in SUBSET Nat, T # {}
  PROVE  \E x \in T : \A y \in T : x <= y
<1> DEFINE R == {p \in Nat \X Nat : p[1] < p[2]}
<1>1. IsWellFoundedOn(R, Nat)
  BY NatLessThanWellFounded DEF OpToRel
<1>2. \A x, y \in Nat : x < y => <<x, y>> \in R
  OBVIOUS
<1> HIDE DEF R
<1>3. PICK x \in T : \A y \in T : ~ (<<y, x>> \in R)
  BY <1>1, WFMin
<1>4. \A y \in T : ~(y < x)
  BY <1>2, <1>3
<1> QED
  BY <1>4

\* The instance counts as FiniteSets does.
LEMMA ThreadCardinality == ASSUME NEW S PROVE Thread!Cardinality(S) = Cardinality(S)
BY DEF Thread!Cardinality, Cardinality

\* What the courier's page leaves out is older than some message on it.
LEMMA PageIsLatest ==
  ASSUME NEW m \in Thread!Present, m \notin Thread!Page
  PROVE  \E k \in Thread!Page : m < k
<1> DEFINE Above(k) == {j \in Thread!Present : j > k}
           T == {Cardinality(Above(k)) : k \in Above(m)}
<1>1. Thread!Present \subseteq Nat /\ IsFiniteSet(Thread!Present)
  BY WorkspaceAssumption, FS_Subset DEF Thread!Present
<1>2. \A k \in Thread!Present : /\ IsFiniteSet(Above(k))
                                /\ Cardinality(Above(k)) \in Nat
  BY <1>1, FS_Subset, FS_CardinalityType
<1>3. \A k \in Thread!Present : k \in Thread!Page <=> Cardinality(Above(k)) < PageSize
  BY ThreadCardinality DEF Thread!Page
<1>4. \A k \in Thread!Present : k \notin Thread!Page => Above(k) # {}
  BY <1>2, <1>3, FS_EmptySet, WorkspaceAssumption
<1>5. \A k \in Thread!Present, j \in Thread!Present : j > k =>
        Cardinality(Above(j)) < Cardinality(Above(k))
  <2> SUFFICES ASSUME NEW k \in Thread!Present, NEW j \in Thread!Present, j > k
               PROVE  Cardinality(Above(j)) < Cardinality(Above(k))
    OBVIOUS
  <2>1. Above(j) \subseteq Above(k) /\ j \in Above(k) /\ j \notin Above(j)
    <3>1. k \in Nat /\ j \in Nat /\ \A i \in Thread!Present : i \in Nat
      BY <1>1
    <3>2. ~(j > j) /\ \A i \in Thread!Present : i > j => i > k
      BY <3>1
    <3> QED
      BY <3>2
  <2> HIDE DEF Above
  <2>2. /\ Cardinality(Above(j)) <= Cardinality(Above(k))
        /\ Cardinality(Above(k)) = Cardinality(Above(j)) => Above(k) = Above(j)
    BY <1>2, <2>1, FS_Subset
  <2> QED
    BY <1>2, <2>1, <2>2
<1>6. T \in SUBSET Nat /\ T # {}
  BY <1>2, <1>4
<1>7. PICK k \in Above(m) : \A j \in Above(m) : Cardinality(Above(k)) <= Cardinality(Above(j))
  <2> HIDE DEF T
  <2>1. PICK x \in T : \A y \in T : x <= y
    BY <1>6, LeastNumber
  <2> QED
    BY <2>1 DEF T
<1>8. k \in Thread!Page
  <2> SUFFICES ASSUME k \notin Thread!Page PROVE FALSE
    OBVIOUS
  <2>1. PICK j \in Above(k) : TRUE
    BY <1>4
  <2>2. /\ j \in Above(m) /\ j \in Thread!Present /\ k \in Thread!Present
        /\ Cardinality(Above(j)) < Cardinality(Above(k))
    BY <1>1, <1>5, <2>1
  <2> HIDE DEF Above
  <2> QED
    BY <1>2, <1>7, <2>2
<1> QED
  BY <1>1, <1>8

\* Nothing is missed by an app that has the page p and the socket.
Covered(p) ==
  \A m \in Thread!Present :
    \/ m \in p \cup socket.got \cup posting \cup unsent
    \/ \E k \in p : m < k

\* A list that was begun on the open socket covers what the socket does not
\* bring, and so does the view made from it.
LiveCovers ==
  /\ socket.accepted => socket.joined
  /\ \A s \in Thread!Sides :
       reading[s].at # "none" /\ reading[s].live =>
         s = listener /\ socket.joined /\ Covered(reading[s].page)
  /\ view.at = "listed" => socket.joined /\ Covered(view.page)

MissedInv == ThreadTypes /\ LiveCovers

\* A page stays good as long as a new message is on its way, or was not sent,
\* and nothing that was is forgotten.
LEMMA CoverStays ==
  ASSUME \A m \in Thread!Present' : m \in Thread!Present \/ m \in posting' \cup unsent',
         socket.got \cup posting \cup unsent \subseteq socket'.got \cup posting' \cup unsent',
         NEW p, Covered(p)
  PROVE  Covered(p)'
BY DEF Covered

\* A step that leaves the requests and the view alone, and does not leave the group.
LEMMA LiveStays ==
  ASSUME LiveCovers,
         listener' = listener, reading' = reading, view' = view,
         socket'.accepted => socket'.joined,
         socket.joined =>
           /\ socket'.joined
           /\ socket.got \cup posting \cup unsent \subseteq socket'.got \cup posting' \cup unsent',
         \A m \in Thread!Present' : m \in Thread!Present \/ m \in posting' \cup unsent'
  PROVE  LiveCovers'
<1>1. \A p : socket.joined /\ Covered(p) => Covered(p)'
  BY CoverStays
<1> QED
  BY <1>1 DEF LiveCovers

\* No step of a sender, a list, an edit or the socket breaks it.
LEMMA NextKeepsLive ==
  MissedInv /\ ThreadTypes' /\ [Thread!Next]_(Thread!vars) => MissedInv'
<1> SUFFICES ASSUME MissedInv, ThreadTypes', [Thread!Next]_(Thread!vars) PROVE LiveCovers'
  BY DEF MissedInv
<1>a. ThreadTypes /\ LiveCovers
  BY DEF MissedInv
<1>b. Thread!Present \subseteq Messages
  BY DEF Thread!Present
<1>2. ASSUME NEW s \in Thread!Sides, Thread!Insert(s) PROVE LiveCovers'
  <2>1. PICK m \in Messages :
          /\ message' = [message EXCEPT ![m] = [sender |-> s, read |-> FALSE]]
          /\ posting' = posting \cup {m}
    BY <1>2 DEF Thread!Insert
  <2>2. UNCHANGED <<listener, unsent, reading, socket, view>>
    BY <1>2 DEF Thread!Insert
  <2>3. \A k \in Thread!Present' : k \in Thread!Present \/ k \in posting'
    BY <1>a, <2>1 DEF Thread!Present, ThreadTypes
  <2>a. socket.accepted => socket.joined
    BY <1>a DEF LiveCovers
  <2>4. socket.got \cup posting \cup unsent \subseteq socket'.got \cup posting' \cup unsent'
    BY <2>1, <2>2
  <2>5. \A k \in Thread!Present' : k \in Thread!Present \/ k \in posting' \cup unsent'
    BY <2>3
  <2> QED
    BY <1>a, <2>a, <2>2, <2>4, <2>5, LiveStays
<1>3. ASSUME NEW m \in Messages, Thread!Broadcast(m) PROVE LiveCovers'
  <2>1. /\ UNCHANGED <<listener, message, unsent, reading, view>>
        /\ posting' = posting \ {m}
        /\ socket' = IF socket.joined THEN [socket EXCEPT !.got = @ \cup {m}] ELSE socket
    BY <1>3 DEF Thread!Broadcast
  <2>2. socket.joined => /\ socket'.joined /\ socket'.accepted = socket.accepted
                         /\ socket'.got = socket.got \cup {m}
    BY <1>a, <2>1 DEF ThreadTypes
  <2>3. Thread!Present' = Thread!Present
    BY <2>1 DEF Thread!Present
  <2>a. socket.accepted => socket.joined
    BY <1>a DEF LiveCovers
  <2>4. socket.joined => socket.got \cup posting \cup unsent \subseteq socket'.got \cup posting' \cup unsent'
    BY <2>1, <2>2
  <2>5. socket'.accepted => socket'.joined
    BY <2>a, <2>1, <2>2
  <2>6. \A k \in Thread!Present' : k \in Thread!Present \/ k \in posting' \cup unsent'
    BY <2>3
  <2> QED
    BY <1>a, <2>1, <2>2, <2>4, <2>5, <2>6, LiveStays
<1>4. ASSUME NEW m \in Messages,
             Thread!SenderDies(m) \/ Thread!BeginEdit(m) \/ Thread!Delete(m)
      PROVE LiveCovers'
  <2>1. /\ UNCHANGED <<listener, reading, view, socket>>
        /\ posting \cup unsent \subseteq posting' \cup unsent'
    BY <1>4 DEF Thread!SenderDies, Thread!BeginEdit, Thread!Delete
  <2>2. Thread!Present' \subseteq Thread!Present
    BY <1>a, <1>4, MessageKinds DEF Thread!SenderDies, Thread!BeginEdit, Thread!Delete,
       Thread!Present, ThreadTypes
  <2>a. socket.accepted => socket.joined
    BY <1>a DEF LiveCovers
  <2>4. socket.got \cup posting \cup unsent \subseteq socket'.got \cup posting' \cup unsent'
    BY <2>1
  <2>5. \A k \in Thread!Present' : k \in Thread!Present \/ k \in posting' \cup unsent'
    BY <2>2
  <2> QED
    BY <1>a, <2>a, <2>1, <2>4, <2>5, LiveStays
<1>5. CASE Thread!SaveEdit
  <2>1. /\ UNCHANGED <<listener, posting, reading, socket, view>>
        /\ message' = [message EXCEPT ![messageEdit.m] = messageEdit.row]
        /\ unsent' = IF messageEdit.m \in Thread!Present THEN unsent
                                                         ELSE unsent \cup {messageEdit.m}
    BY <1>5 DEF Thread!SaveEdit
  <2>2. \A m \in Thread!Present' : m \in Thread!Present \/ m \in unsent'
    BY <1>a, <2>1 DEF Thread!Present, ThreadTypes
  <2>a. socket.accepted => socket.joined
    BY <1>a DEF LiveCovers
  <2>4. socket.got \cup posting \cup unsent \subseteq socket'.got \cup posting' \cup unsent'
    BY <2>1
  <2>5. \A k \in Thread!Present' : k \in Thread!Present \/ k \in posting' \cup unsent'
    BY <2>2
  <2> QED
    BY <1>a, <2>a, <2>1, <2>4, <2>5, LiveStays
<1>6. CASE Thread!Connect
  <2>1. /\ UNCHANGED <<listener, message, posting, unsent, reading, view>>
        /\ socket'.got = socket.got
        /\ IF socket.joined THEN socket'.joined
                            ELSE socket'.joined /\ socket'.accepted = socket.accepted
    BY <1>a, <1>6 DEF Thread!Connect, Thread!Connected, ThreadTypes
  <2>2. Thread!Present' = Thread!Present
    BY <2>1 DEF Thread!Present
  <2>4. socket.got \cup posting \cup unsent \subseteq socket'.got \cup posting' \cup unsent'
    BY <2>1
  <2>5. socket'.accepted => socket'.joined
    BY <1>a, <2>1 DEF LiveCovers
  <2>6. \A k \in Thread!Present' : k \in Thread!Present \/ k \in posting' \cup unsent'
    BY <2>2
  <2> QED
    BY <1>a, <2>1, <2>4, <2>5, <2>6, LiveStays
<1>7. CASE Thread!Disconnect
  <2>1. /\ UNCHANGED <<listener, message, posting, unsent>>
        /\ socket' = Thread!Closed /\ view' = Thread!NoView
    BY <1>7 DEF Thread!Disconnect
  <2>2. \A s \in Thread!Sides :
          reading'[s].at # "none" /\ reading'[s].live => s # listener /\ reading'[s] = reading[s]
    <3>1. \A x \in Readings : x # Thread!NotReading => [x EXCEPT !.live = FALSE].live = FALSE
      BY DEF Readings, Thread!NotReading
    <3> QED
      BY <1>a, <1>7, <3>1 DEF Thread!Disconnect, ThreadTypes, Thread!NotReading
  <2> QED
    BY <1>a, <2>1, <2>2 DEF LiveCovers, Thread!Closed, Thread!NoView
<1>8. CASE Thread!CourierList \/ Thread!DispatchList \/ Thread!DispatchUnread
  <2>1. UNCHANGED <<listener, message, posting, unsent, socket, view>>
    BY <1>8 DEF Thread!CourierList, Thread!DispatchList, Thread!DispatchUnread
  <2>2. PICK s \in Thread!Sides, x \in Readings :
          /\ reading' = [reading EXCEPT ![s] = x]
          /\ x.at # "none" /\ x.live => s = listener /\ socket.joined /\ Covered(x.page)
    <3> USE DEF Thread!Sides
    <3>a. \A t \in Thread!Sides : \A P : Thread!Live(t) => Thread!Returned(t, P) = P
      BY DEF Thread!Returned
    <3>b. \A ids, returned, live : /\ Thread!Found(ids, returned, live).page = returned
                                   /\ Thread!Found(ids, returned, live).live = live
      BY DEF Thread!Found
    <3>c. \A t \in Thread!Sides : Thread!Live(t) => t = listener /\ socket.joined
      BY <1>a DEF Thread!Live, LiveCovers
    <3>d. reading' \in [Thread!Sides -> Readings]
      BY DEF ThreadTypes
    <3>1. CASE Thread!CourierList
      <4> DEFINE x == Thread!Found(Thread!Page \cap Thread!Unread("dispatch"),
                                   Thread!Returned("courier", Thread!Page),
                                   Thread!Live("courier"))
      <4>1. Covered(Thread!Page)
        BY PageIsLatest DEF Covered
      <4>2. reading' = [reading EXCEPT !["courier"] = x]
        BY <3>1 DEF Thread!CourierList
      <4>3. x.live => /\ "courier" = listener /\ socket.joined
                      /\ Covered(x.page)
        BY <3>a, <3>b, <3>c, <4>1
      <4> HIDE DEF x
      <4>4. x \in Readings
        BY <1>a, <3>d, <4>2 DEF ThreadTypes
      <4> QED
        BY <4>2, <4>3, <4>4
    <3>2. CASE Thread!DispatchList
      <4> DEFINE x == [at |-> "responded",
                       page |-> Thread!Returned("dispatch", Thread!Present),
                       live |-> Thread!Live("dispatch")]
      <4>1. Covered(Thread!Present)
        BY DEF Covered
      <4>2. reading' = [reading EXCEPT !["dispatch"] = x]
        BY <3>2 DEF Thread!DispatchList
      <4>3. x.live => /\ "dispatch" = listener /\ socket.joined
                      /\ Covered(x.page)
        BY <3>a, <3>c, <4>1
      <4> HIDE DEF x
      <4>4. x \in Readings
        BY <1>a, <3>d, <4>2 DEF ThreadTypes
      <4> QED
        BY <4>2, <4>3, <4>4
    <3>3. CASE Thread!DispatchUnread
      <4> DEFINE r == reading["dispatch"]
                 x == Thread!Found(Thread!Unread("courier"), r.page, r.live)
      <4>1. reading' = [reading EXCEPT !["dispatch"] = x] /\ r.at = "responded"
        BY <1>a, <3>3 DEF Thread!DispatchUnread, ThreadTypes
      <4>2. x.live => /\ "dispatch" = listener /\ socket.joined
                      /\ Covered(x.page)
        BY <1>a, <3>b, <4>1 DEF LiveCovers
      <4> HIDE DEF x
      <4>3. x \in Readings
        BY <1>a, <3>d, <4>1 DEF ThreadTypes
      <4> QED
        BY <4>1, <4>2, <4>3
    <3> QED
      BY <1>8, <3>1, <3>2, <3>3
  <2>3. \A p : Covered(p) => Covered(p)'
    BY <2>1 DEF Covered, Thread!Present
  <2> QED
    BY <1>a, <2>1, <2>2, <2>3 DEF LiveCovers, ThreadTypes
<1>9. ASSUME NEW s \in Thread!Sides, Thread!MarkRead(s) PROVE LiveCovers'
  <2>1. /\ reading[s].at = "listed" /\ UNCHANGED <<listener, posting, unsent, socket, view>>
        /\ message' = [m \in Messages |->
                         IF m \in reading[s].ids \cap Thread!Present
                         THEN [message[m] EXCEPT !.read = TRUE] ELSE message[m]]
        /\ reading' = [reading EXCEPT ![s].at = "marked"]
    BY <1>9 DEF Thread!MarkRead
  <2>2. Thread!Present' \subseteq Thread!Present
    BY <1>a, <2>1 DEF Thread!Present
  <2>3. \A p : Covered(p) => Covered(p)'
    BY <2>1, <2>2, CoverStays
  <2>4. /\ reading'[s].live = reading[s].live /\ reading'[s].page = reading[s].page
        /\ \A t \in Thread!Sides \ {s} : reading'[t] = reading[t]
    <3>1. reading[s] \in Readings
      BY <1>a DEF ThreadTypes
    <3>2. reading'[s] = [reading[s] EXCEPT !.at = "marked"]
      BY <1>a, <2>1 DEF ThreadTypes
    <3>3. \A t \in Thread!Sides \ {s} : reading'[t] = reading[t]
      BY <1>a, <2>1 DEF ThreadTypes
    <3> QED
      BY <2>1, <3>1, <3>2, <3>3, ReadingStays
  <2> QED
    BY <1>a, <2>1, <2>3, <2>4 DEF LiveCovers
<1>10. ASSUME NEW s \in Thread!Sides, Thread!Answer(s) \/ Thread!AnswerLost(s)
       PROVE  LiveCovers'
  <2>1. /\ reading[s].at # "none" /\ UNCHANGED <<listener, message, posting, unsent, socket>>
        /\ reading' = [reading EXCEPT ![s] = Thread!NotReading]
        /\ \/ view' = view
           \/ reading[s].live /\ view' = [at |-> "listed", page |-> reading[s].page]
    <3>1. \A x \in Readings : x # Thread!NotReading => x.at # "none"
      BY DEF Readings, Thread!NotReading
    <3> QED
      BY <1>a, <1>10, <3>1 DEF Thread!Answer, Thread!AnswerLost, ThreadTypes
  <2>2. \A p : Covered(p) => Covered(p)'
    BY <2>1 DEF Covered, Thread!Present
  <2>3. \A t \in Thread!Sides : reading'[t].at # "none" => reading'[t] = reading[t]
    BY <1>a, <2>1 DEF ThreadTypes, Thread!NotReading
  <2>4. view'.at = "listed" => socket.joined /\ Covered(view'.page)
    BY <1>a, <2>1 DEF LiveCovers
  <2> QED
    BY <1>a, <2>1, <2>2, <2>3, <2>4 DEF LiveCovers
<1>11. CASE UNCHANGED Thread!vars
  BY <1>a, <1>11 DEF Thread!vars, LiveCovers, Covered, Thread!Present
<1> QED
  BY <1>2, <1>3, <1>4, <1>5, <1>6, <1>7, <1>8, <1>9, <1>10, <1>11
     DEF Thread!Next, Thread!DispatchSend, Thread!CourierSend, Thread!Sides

\* A courier's app that connects and then lists misses no message: whatever is
\* sent, edited, deleted or lost meanwhile.
THEOREM NothingIsMissed == Thread!Spec => []NothingMissed
<1>1. Thread!Init => MissedInv
  <2> SUFFICES ASSUME Thread!Init PROVE MissedInv
    OBVIOUS
  <2>1. ThreadTypes
    BY InitThread DEF ReadInv
  <2> QED
    BY <2>1 DEF MissedInv, LiveCovers, Thread!Init, Thread!Closed, Thread!NotReading,
       Thread!NoView
<1>2. ReadInv /\ MissedInv /\ [Thread!Next]_(Thread!vars) => MissedInv'
  BY NextKeepsThread, NextKeepsLive DEF ReadInv
<1>3. MissedInv => NothingMissed
  BY DEF MissedInv, LiveCovers, Covered, NothingMissed, Thread!NothingMissed
<1>4. QED
  BY <1>1, <1>2, <1>3, InitThread, NextKeepsThread, PTL DEF Thread!Spec

-------------------------------------------------------------------------------
(* PublicSite: the service areas.                                          *)

AreaRows == [name : Names, by : Nat]

SiteRequests ==
  [at : {"idle", "page"}] \cup [at : {"blocks"}, page : Nat]
    \cup [at : {"begun", "locked"}, by : Nat, names : SUBSET Names, makes : BOOLEAN]
    \cup [at : {"deleted"}, by : Nat, names : SUBSET Names, makes : BOOLEAN,
          gone : SUBSET AreaRows]

HasSite(w) == siteRequest[w].at \in {"locked", "deleted"}

\* One update at a time has the site's row, and what it deletes are the areas
\* that are there.
SiteInv ==
  /\ areas \subseteq AreaRows /\ updates \in Nat /\ pages \in Nat
  /\ siteRequest \in [Workers -> SiteRequests]
  /\ \A v, w \in Workers : HasSite(v) /\ HasSite(w) => v = w
  /\ \A w \in Workers : siteRequest[w].at = "deleted" => siteRequest[w].gone = areas
  /\ AreasOfOneUpdate

\* A worker goes on without the site's row, or gives it back.
LEMMA SiteStays ==
  ASSUME SiteInv, areas' = areas, updates' \in Nat, pages' \in Nat,
         NEW w \in Workers, NEW r \in SiteRequests, r.at \notin {"locked", "deleted"},
         siteRequest' = [siteRequest EXCEPT ![w] = r]
  PROVE  SiteInv'
<1>1. siteRequest' \in [Workers -> SiteRequests]
  BY DEF SiteInv
<1>2. \A v \in Workers : siteRequest'[v] = IF v = w THEN r ELSE siteRequest[v]
  BY DEF SiteInv
<1>3. \A v \in Workers : HasSite(v)' => HasSite(v) /\ siteRequest'[v] = siteRequest[v]
  BY <1>2 DEF HasSite
<1> QED
  BY <1>1, <1>2, <1>3 DEF SiteInv, HasSite, AreasOfOneUpdate, Site!AreasOfOneUpdate

LEMMA NextKeepsAreas == SiteInv /\ [Site!Next]_(Site!vars) => SiteInv'
<1> SUFFICES ASSUME SiteInv, [Site!Next]_(Site!vars) PROVE SiteInv'
  OBVIOUS
<1> USE DEF Site!Goto
<1>a. /\ siteRequest \in [Workers -> SiteRequests]
      /\ areas \subseteq AreaRows /\ updates \in Nat /\ pages \in Nat
  BY DEF SiteInv
<1>b. Site!Idle \in SiteRequests /\ Site!Idle.at = "idle"
  BY DEF Site!Idle, SiteRequests
<1>1. ASSUME NEW w \in Workers, Site!Get(w) PROVE SiteInv'
  <2>1. [at |-> "page"] \in SiteRequests
    BY DEF SiteRequests
  <2> QED
    BY <1>a, <1>1, <2>1, SiteStays DEF Site!Get
<1>2. ASSUME NEW w \in Workers, Site!GetPage(w) PROVE SiteInv'
  <2>1. \A k \in Nat : [at |-> "blocks", page |-> k] \in SiteRequests
    BY DEF SiteRequests
  <2>2. UNCHANGED <<areas, updates>>
    BY <1>2 DEF Site!GetPage
  <2>3. CASE page # 0
    BY <1>a, <1>b, <1>2, <2>2, <2>3, SiteStays DEF Site!GetPage
  <2>4. CASE page = 0
    <3> DEFINE r == [at |-> "blocks", page |-> pages']
    <3>1. pages' = pages + 1 /\ siteRequest' = [siteRequest EXCEPT ![w] = r]
      BY <1>2, <2>4 DEF Site!GetPage
    <3>2. r \in SiteRequests /\ r.at = "blocks" /\ updates' \in Nat /\ pages' \in Nat
      BY <1>a, <2>1, <2>2, <3>1
    <3> HIDE DEF r
    <3> QED
      BY <2>2, <3>1, <3>2, SiteStays
  <2> QED
    BY <2>3, <2>4
<1>3. ASSUME NEW w \in Workers, Site!CreateBlocks(w) \/ Site!Crash(w) PROVE SiteInv'
  <2>1. /\ siteRequest' = [siteRequest EXCEPT ![w] = Site!Idle]
        /\ UNCHANGED <<areas, updates, pages>>
    BY <1>3 DEF Site!CreateBlocks, Site!Crash
  <2> QED
    BY <1>a, <1>b, <2>1, SiteStays
<1>4. ASSUME NEW w \in Workers, NEW names \in SUBSET Names, Site!BeginUpdate(w, names)
      PROVE SiteInv'
  <2> DEFINE r == [at |-> "begun", by |-> updates', names |-> names,
                   makes |-> ~site \/ page = 0]
  <2>1. /\ updates' = updates + 1 /\ UNCHANGED <<areas, pages>>
        /\ siteRequest' = [siteRequest EXCEPT ![w] = r]
    BY <1>4 DEF Site!BeginUpdate
  <2>2. r \in SiteRequests
    BY <1>a, <2>1 DEF SiteRequests
  <2>3. r.at = "begun" /\ updates' \in Nat /\ pages' \in Nat
    BY <1>a, <2>1
  <2> HIDE DEF r
  <2> QED
    BY <2>1, <2>2, <2>3, SiteStays
<1>5. ASSUME NEW w \in Workers, Site!SaveSite(w) PROVE SiteInv'
  <2>1. /\ siteRequest[w].at = "begun" /\ \A v \in Workers : ~HasSite(v)
        /\ siteRequest' = [siteRequest EXCEPT ![w].at = "locked"]
        /\ UNCHANGED <<areas, updates, pages>>
    BY <1>5 DEF Site!SaveSite, Site!Locked, HasSite
  <2>2. siteRequest' \in [Workers -> SiteRequests]
    BY <1>a, <2>1 DEF SiteRequests
  <2>3. \A v \in Workers : siteRequest'[v].at = IF v = w THEN "locked" ELSE siteRequest[v].at
    BY <1>a, <2>1 DEF SiteRequests
  <2> QED
    BY <1>a, <2>1, <2>2, <2>3 DEF SiteInv, HasSite, AreasOfOneUpdate, Site!AreasOfOneUpdate
<1>6. ASSUME NEW w \in Workers, Site!DeleteAreas(w) PROVE SiteInv'
  <2> DEFINE r == [at |-> "deleted", by |-> siteRequest[w].by, names |-> siteRequest[w].names,
                   makes |-> siteRequest[w].makes, gone |-> areas]
  <2>1. /\ siteRequest[w].at = "locked" /\ siteRequest' = [siteRequest EXCEPT ![w] = r]
        /\ UNCHANGED <<areas, updates, pages>>
    BY <1>6 DEF Site!DeleteAreas
  <2>2. r \in SiteRequests
    <3>1. siteRequest[w] \in [at : {"begun", "locked"}, by : Nat, names : SUBSET Names,
                              makes : BOOLEAN]
      BY <1>a, <2>1 DEF SiteRequests
    <3> QED
      BY <1>a, <3>1 DEF SiteRequests
  <2>3. siteRequest' \in [Workers -> SiteRequests]
    BY <1>a, <2>1, <2>2
  <2>4. \A v \in Workers : siteRequest'[v] = IF v = w THEN r ELSE siteRequest[v]
    BY <1>a, <2>1
  <2> QED
    BY <1>a, <2>1, <2>3, <2>4 DEF SiteInv, HasSite, AreasOfOneUpdate, Site!AreasOfOneUpdate
<1>7. ASSUME NEW w \in Workers, Site!Commit(w) PROVE SiteInv'
  <2> DEFINE r == siteRequest[w]
  <2>1. /\ r.at = "deleted" /\ siteRequest' = [siteRequest EXCEPT ![w] = Site!Idle]
        /\ updates' = updates
        /\ areas' = areas \/ areas' = (areas \ r.gone) \cup [name : r.names, by : {r.by}]
        /\ pages' = pages \/ pages' = pages + 1
    BY <1>7 DEF Site!Commit
  <2>2. r.gone = areas /\ \A v \in Workers : HasSite(v) => v = w
    BY <2>1 DEF SiteInv, HasSite
  <2>3. r.names \subseteq Names /\ r.by \in Nat
    BY <1>a, <2>1 DEF SiteRequests
  <2>4. areas' \subseteq AreaRows /\ AreasOfOneUpdate'
    <3>1. CASE areas' = areas
      BY <1>a, <3>1 DEF SiteInv, AreasOfOneUpdate, Site!AreasOfOneUpdate
    <3>2. CASE areas' = [name : r.names, by : {r.by}]
      BY <2>3, <3>2 DEF AreasOfOneUpdate, Site!AreasOfOneUpdate, AreaRows
    <3> QED
      BY <2>1, <2>2, <3>1, <3>2
  <2>5. \A v \in Workers : ~HasSite(v)'
    BY <1>a, <1>b, <2>1, <2>2 DEF HasSite
  <2>6. siteRequest' \in [Workers -> SiteRequests]
    BY <1>a, <1>b, <2>1
  <2> QED
    BY <1>a, <2>1, <2>4, <2>5, <2>6 DEF SiteInv, HasSite
<1>8. CASE Site!DeletePage \/ UNCHANGED Site!vars
  BY <1>8 DEF Site!DeletePage, Site!vars, SiteInv, HasSite, AreasOfOneUpdate,
     Site!AreasOfOneUpdate
<1> QED
  BY <1>1, <1>2, <1>3, <1>4, <1>5, <1>6, <1>7, <1>8 DEF Site!Next

\* The service areas of a site are the list of one update, however many updates
\* overlap, and although none of them takes a lock by name.
THEOREM AreasAreOneList == Site!Spec => []AreasOfOneUpdate
<1>1. Site!Init => SiteInv
  BY DEF Site!Init, Site!Idle, SiteInv, SiteRequests, HasSite, AreasOfOneUpdate,
     Site!AreasOfOneUpdate
<1>2. SiteInv => AreasOfOneUpdate
  BY DEF SiteInv
<1>3. QED
  BY <1>1, <1>2, NextKeepsAreas, PTL DEF Site!Spec

-------------------------------------------------------------------------------
(* Customers: profiles that were not edited.                               *)

CustomerRows == [phone : Phones \cup {NoPhone}, email : Emails]

Lowered == {Email(a, "lower") : a \in Addresses} \cup {NoEmail}

CustomerRequests ==
  [kind : {"none"}, at : {"none"}]
    \cup [kind : {"order"}, at : {"resolve"}, phone : Phones \cup {NoPhone},
          found : Customers \cup {None}, saw : SUBSET Customers]
    \cup [kind : {"order"}, at : {"place"}, customer : Customers]
    \cup [kind : {"create"}, at : {"phone", "insert"}, phone : Phones \cup {NoPhone},
          email : Lowered, saw : SUBSET Customers]
    \cup [kind : {"edit"}, at : {"save"}, c : Customers, row : CustomerRows]

Origins ==
  [by : {"nobody", "order", "create", "graphql", "changed"}, saw : SUBSET Customers]

\* A profile is there only if it was inserted, and what a request saw was.
WasThere ==
  \A c \in Customers :
    /\ Fresh(c) => customer[c] = Absent
    /\ \A a \in origin[c].saw : ~Fresh(a)

UniqueEmails ==
  \A a, b \in Present : a # b /\ customer[a].email # NoEmail =>
    customer[a].email # customer[b].email

RestLowers ==
  \A c \in Customers :
    Untouched(c) /\ origin[c].by \in {"order", "create"} => customer[c].email \in Lowered

\* What a request is about to insert is unlike what it saw, as far as it looked.
Unlike(r, a) ==
  Untouched(a) =>
    /\ r.kind = "order" \/ r.at = "insert" =>
         r.phone = NoPhone \/ customer[a].phone # r.phone
    /\ r.kind = "create" =>
         r.email = NoEmail \/ ~SameAddress(customer[a].email, r.email)

Inserts(r) ==
  \/ r.kind = "create"
  \/ r.kind = "order" /\ r.at = "resolve" /\ r.found = None

Looked(r) == Inserts(r) => \A a \in r.saw : ~Fresh(a) /\ Unlike(r, a)

Tables ==
  /\ customer \in [Customers -> CustomerRows \cup {Absent}]
  /\ origin \in [Customers -> Origins]
  /\ WasThere /\ UniqueEmails /\ RestLowers /\ SeenIsReused

Requested ==
  /\ request \in [Workers -> CustomerRequests]
  /\ \A w \in Workers : Looked(request[w])

ProfileInv == Tables /\ Requested

\* The stand-in for NULL is no address, and an address is lowered in one way.
LEMMA EmailFacts ==
  /\ \A e \in Given : e.address # "null" /\ e # NoEmail
  /\ NoEmail.address = "null"
  /\ Lowered \subseteq Emails
  /\ \A e \in Given \cup {NoEmail} :
       /\ Lower(e) \in Lowered /\ Lower(e).address = e.address
       /\ Lower(e) = NoEmail <=> e = NoEmail
  /\ \A e \in Lowered, f \in Lowered : SameAddress(e, f) => e = f
<1>1. \A e \in Given : \E a \in Addresses, sp \in {"lower", "mixed"} :
        e = [address |-> a, spelling |-> sp]
  BY DEF Given, Email
<1>2. \A e \in Lowered : e = NoEmail \/ \E a \in Addresses : e = [address |-> a, spelling |-> "lower"]
  BY DEF Lowered, Email
<1>3. NoEmail = [address |-> "null", spelling |-> "lower"]
  BY DEF NoEmail, Email
<1>4. \A a \in Addresses : a # "null" /\ [address |-> a, spelling |-> "lower"] \in Lowered
  BY CustomersAssumption DEF Lowered, Email
<1>5. NoEmail \in Lowered
  BY DEF Lowered
<1>6. Lowered \subseteq Emails
  BY DEF Lowered, Emails, Given
<1>7. \A e \in Given : e.address # "null" /\ e # NoEmail
  BY <1>1, <1>3, <1>4
<1>8. \A e \in Given \cup {NoEmail} :
        Lower(e) = [address |-> e.address, spelling |-> "lower"]
  BY <1>1, <1>3 DEF Lower
<1>9. \A e \in Given \cup {NoEmail} :
        /\ Lower(e) \in Lowered /\ Lower(e).address = e.address
        /\ Lower(e) = NoEmail <=> e = NoEmail
  BY <1>1, <1>3, <1>4, <1>5, <1>7, <1>8
<1>10. \A e \in Lowered, f \in Lowered : SameAddress(e, f) => e = f
  BY <1>2, <1>3, <1>4 DEF SameAddress
<1> QED
  BY <1>3, <1>6, <1>7, <1>9, <1>10

LEMMA RowIsThere == \A rec \in CustomerRows : rec # Absent
<1>1. "absent" \notin Phones \cup {NoPhone}
  BY CustomersAssumption DEF NoPhone
<1>2. Absent.phone = "absent"
  BY DEF Absent
<1> QED
  BY <1>1, <1>2 DEF CustomerRows

\* What was inserted stays as it is until it is changed.
OldStay ==
  \A a \in Customers : ~Fresh(a) =>
    ~Fresh(a)' /\ (Untouched(a)' => Untouched(a) /\ customer'[a] = customer[a])

LEMMA LookedStays ==
  ASSUME NEW r \in CustomerRequests, Looked(r), OldStay
  PROVE  Looked(r)'
<1>1. Inserts(r) => r.saw \subseteq Customers
  BY DEF CustomerRequests, Inserts
<1> QED
  BY <1>1 DEF OldStay, Looked, Unlike, Inserts

\* A worker's next request, when the tables keep what was inserted.
LEMMA WorkerGoesOn ==
  ASSUME Requested, OldStay, NEW w \in Workers, NEW r \in CustomerRequests, Looked(r),
         request' = [request EXCEPT ![w] = r]
  PROVE  Requested'
<1>1. \A v \in Workers : request'[v] = IF v = w THEN r ELSE request[v]
  BY DEF Requested
<1>2. request' \in [Workers -> CustomerRequests]
  BY DEF Requested
<1>3. \A v \in Workers : request[v] \in CustomerRequests /\ Looked(request[v])
  BY DEF Requested
<1>4. \A x \in CustomerRequests : Looked(x) => Looked(x)'
  BY LookedStays
<1> QED
  BY <1>1, <1>2, <1>3, <1>4 DEF Requested

\* A profile comes in that is unlike what its request saw.
LEMMA InsertKeeps ==
  ASSUME Tables, NEW c \in Customers, NEW r \in CustomerRows,
         NEW by \in {"order", "create", "graphql"}, NEW saw \in SUBSET Customers,
         Insert(c, r, by, saw), Unique(c, r.email),
         by # "graphql" => r.email \in Lowered,
         \A a \in saw : /\ ~Fresh(a)
                        /\ Untouched(a) =>
                             /\ r.phone = NoPhone \/ customer[a].phone # r.phone
                             /\ r.email = NoEmail \/ ~SameAddress(customer[a].email, r.email)
  PROVE  Tables' /\ OldStay
<1>1. /\ Fresh(c) /\ customer' = [customer EXCEPT ![c] = r]
      /\ origin' = [origin EXCEPT ![c] = [by |-> by, saw |-> saw]]
  BY DEF Insert
<1>2. customer \in [Customers -> CustomerRows \cup {Absent}] /\ origin \in [Customers -> Origins]
  BY DEF Tables
<1>3. \A x \in Customers :
        /\ customer'[x] = IF x = c THEN r ELSE customer[x]
        /\ origin'[x] = IF x = c THEN [by |-> by, saw |-> saw] ELSE origin[x]
  BY <1>1, <1>2
<1>4. /\ customer' \in [Customers -> CustomerRows \cup {Absent}]
      /\ origin' \in [Customers -> Origins]
  <2>1. [by |-> by, saw |-> saw] \in Origins
    BY DEF Origins
  <2> QED
    BY <1>1, <1>2, <2>1
<1>5. OldStay
  BY <1>1, <1>3 DEF OldStay, Fresh, Untouched, Present
<1>6. WasThere'
  <2>1. ~Fresh(c)'
    BY <1>3 DEF Fresh
  <2> QED
    BY <1>2, <1>3, <1>5, <2>1 DEF Tables, WasThere, Fresh, OldStay, Origins
<1>7. UniqueEmails'
  <2>1. Present' \subseteq Present \cup {c}
    BY <1>3 DEF Present
  <2> QED
    BY <1>3, <2>1 DEF Tables, UniqueEmails, Unique, Present
<1>8. RestLowers'
  BY <1>3, <1>1 DEF Tables, RestLowers, Untouched, Present
<1>9. SeenIsReused'
  <2> SUFFICES ASSUME NEW a \in Customers, NEW b \in Customers,
                      Untouched(a)', Untouched(b)', a # b, a \in origin'[b].saw
               PROVE  ~Alike(a, b)'
    BY DEF SeenIsReused
  <2>1. ~Fresh(a)
    BY <1>1, <1>3 DEF Tables, WasThere
  <2>2. a # c /\ customer'[a] = customer[a] /\ Untouched(a)
    BY <1>1, <1>3, <1>5, <2>1 DEF OldStay
  <2>3. CASE b # c
    BY <1>3, <2>2, <2>3 DEF Tables, SeenIsReused, Alike, Untouched, Present
  <2>4. CASE b = c
    <3>1. customer[a].email \in Given /\ r.email = NoEmail => ~SameAddress(customer[a].email, r.email)
      BY EmailFacts DEF SameAddress
    <3> QED
      BY <1>3, <2>2, <2>4, <3>1 DEF Alike
  <2> QED
    BY <2>3, <2>4
<1> QED
  BY <1>4, <1>5, <1>6, <1>7, <1>8, <1>9 DEF Tables

\* A profile is edited or deleted: what it is or was is forgotten.
LEMMA ChangeKeeps ==
  ASSUME Tables, NEW c \in Customers, NEW r \in CustomerRows \cup {Absent},
         customer' = [customer EXCEPT ![c] = r], origin' = [origin EXCEPT ![c] = Changed],
         r # Absent => Unique(c, r.email)
  PROVE  Tables' /\ OldStay
<1>1. customer \in [Customers -> CustomerRows \cup {Absent}] /\ origin \in [Customers -> Origins]
  BY DEF Tables
<1>2. \A x \in Customers :
        /\ customer'[x] = IF x = c THEN r ELSE customer[x]
        /\ origin'[x] = IF x = c THEN Changed ELSE origin[x]
  BY <1>1
<1>3. /\ customer' \in [Customers -> CustomerRows \cup {Absent}]
      /\ origin' \in [Customers -> Origins]
  BY <1>1 DEF Origins, Changed
<1>4. OldStay
  BY <1>2 DEF OldStay, Fresh, Untouched, Present, Changed
<1>5. WasThere'
  BY <1>1, <1>2, <1>4 DEF Tables, WasThere, Fresh, OldStay, Origins, Changed
<1>6. UniqueEmails'
  <2>1. \A x \in Present' : x # c => x \in Present
    BY <1>2 DEF Present
  <2>2. c \in Present' => r # Absent
    BY <1>2 DEF Present
  <2> QED
    BY <1>2, <2>1, <2>2 DEF Tables, UniqueEmails, Unique
<1>7. RestLowers' /\ SeenIsReused'
  BY <1>1, <1>2 DEF Tables, RestLowers, SeenIsReused, Alike, Untouched, Present, Origins
<1> QED
  BY <1>3, <1>4, <1>5, <1>6, <1>7 DEF Tables

LEMMA TablesStay ==
  ASSUME Tables, UNCHANGED <<customer, origin>>
  PROVE  Tables' /\ OldStay
BY DEF Tables, WasThere, UniqueEmails, RestLowers, SeenIsReused, Alike, Untouched, Present,
   Fresh, OldStay

\* The profile an order reuses is one that is there.
LEMMA FoundWhat ==
  ASSUME NEW p
  PROVE  /\ Found(p) \in Customers \cup {None}
         /\ Found(p) = None => p = NoPhone \/ WithPhone(p) = {}
<1>1. ASSUME WithPhone(p) # {} PROVE Min(WithPhone(p)) \in Customers
  <2>1. WithPhone(p) \subseteq Customers /\ WithPhone(p) \in SUBSET Nat
    BY CustomersAssumption DEF WithPhone, Present
  <2>2. PICK x \in WithPhone(p) : \A y \in WithPhone(p) : x <= y
    BY <1>1, <2>1, LeastNumber
  <2> QED
    BY <2>1, <2>2 DEF Min
<1> QED
  BY <1>1, CustomersAssumption DEF Found

LEMMA NextKeepsProfiles == ProfileInv /\ [Next]_vars => ProfileInv'
<1> SUFFICES ASSUME ProfileInv, [Next]_vars PROVE ProfileInv'
  OBVIOUS
<1> USE DEF Accept, Goto, Reply
<1>a. /\ Tables /\ Requested /\ request \in [Workers -> CustomerRequests]
      /\ \A w \in Workers : Looked(request[w])
  BY DEF ProfileInv, Requested
<1>b. NoRequest \in CustomerRequests /\ ~Inserts(NoRequest)
  BY DEF NoRequest, CustomerRequests, Inserts
<1>c. \A c \in Customers :
        LET r == [kind |-> "order", at |-> "place", customer |-> c]
        IN  r \in CustomerRequests /\ ~Inserts(r)
  BY DEF CustomerRequests, Inserts
<1>d. \A w \in Workers : request'  = [request EXCEPT ![w] = NoRequest] /\ OldStay => Requested'
  BY <1>a, <1>b, WorkerGoesOn DEF Looked, Inserts
<1>1. ASSUME NEW w \in Workers, NEW p \in Phones \cup {NoPhone}, BeginOrder(w, p)
      PROVE ProfileInv'
  <2> DEFINE r == [kind |-> "order", at |-> "resolve", phone |-> p, found |-> Found(p),
                   saw |-> IF Found(p) = None THEN Present ELSE {}]
  <2>1. request' = [request EXCEPT ![w] = r] /\ UNCHANGED <<customer, order, origin, bounds>>
    BY <1>1 DEF BeginOrder
  <2>2. r \in CustomerRequests
    BY FoundWhat DEF CustomerRequests, Present
  <2>3. Tables' /\ OldStay
    BY <1>a, <2>1, TablesStay
  <2>4. Looked(r)
    <3> SUFFICES ASSUME Inserts(r), NEW a \in Present PROVE ~Fresh(a) /\ Unlike(r, a)
      BY DEF Looked, Inserts
    <3>1. ~Fresh(a)
      BY <1>a DEF Tables, WasThere, Present
    <3>2. p = NoPhone \/ customer[a].phone # p
      BY FoundWhat DEF Inserts, WithPhone
    <3> QED
      BY <3>1, <3>2 DEF Unlike
  <2> HIDE DEF r
  <2> QED
    BY <1>a, <2>1, <2>2, <2>3, <2>4, WorkerGoesOn DEF ProfileInv
<1>2. ASSUME NEW w \in Workers, NEW c \in Customers, BeginOrderFor(w, c) PROVE ProfileInv'
  <2>1. /\ request' = [request EXCEPT ![w] = [kind |-> "order", at |-> "place", customer |-> c]]
        /\ UNCHANGED <<customer, order, origin, bounds>>
    BY <1>2 DEF BeginOrderFor
  <2> QED
    BY <1>a, <1>c, <2>1, TablesStay, WorkerGoesOn DEF ProfileInv, Looked
<1>3. ASSUME NEW w \in Workers, Reuse(w) PROVE ProfileInv'
  <2>1. /\ At(w, "order", "resolve") /\ request[w].found # None
        /\ UNCHANGED <<customer, order, origin, bounds>>
        /\ \/ request' = [request EXCEPT ![w] = [kind |-> "order", at |-> "place",
                                                 customer |-> request[w].found]]
           \/ request' = [request EXCEPT ![w] = NoRequest]
    BY <1>3 DEF Reuse
  <2>2. request[w].found \in Customers
    BY <1>a, <2>1 DEF CustomerRequests, At
  <2>3. Tables' /\ OldStay
    BY <1>a, <2>1, TablesStay
  <2>4. PICK c \in Customers : c = request[w].found
    BY <2>2
  <2> QED
    BY <1>a, <1>b, <1>c, <2>1, <2>3, <2>4, WorkerGoesOn DEF ProfileInv, Looked
<1>4. ASSUME NEW w \in Workers, NEW c \in Customers, InsertForOrder(w, c) PROVE ProfileInv'
  <2>1. PICK r \in CustomerRequests : r = request[w] /\ Looked(r)
    BY <1>a
  <2>2. /\ r.kind = "order" /\ r.at = "resolve" /\ r.found = None
        /\ Insert(c, [phone |-> r.phone, email |-> NoEmail], "order", r.saw)
        /\ request' = [request EXCEPT ![w] = [kind |-> "order", at |-> "place", customer |-> c]]
    BY <1>4, <2>1 DEF InsertForOrder, At
  <2>3. r.phone \in Phones \cup {NoPhone} /\ r.saw \subseteq Customers
    BY <2>2 DEF CustomerRequests
  <2>4. PICK rec \in CustomerRows : rec = [phone |-> r.phone, email |-> NoEmail]
    BY <2>3, EmailFacts DEF CustomerRows, Emails
  <2>5. \A a \in r.saw : ~Fresh(a) /\ (Untouched(a) => rec.phone = NoPhone \/ customer[a].phone # rec.phone)
    BY <2>1, <2>2, <2>4 DEF Looked, Inserts, Unlike
  <2>6. rec.email = NoEmail /\ NoEmail \in Lowered /\ Unique(c, rec.email)
    BY <2>4 DEF Lowered, Unique
  <2>7. Insert(c, rec, "order", r.saw)
    BY <2>2, <2>4
  <2>8. Tables' /\ OldStay
    BY <1>a, <2>3, <2>5, <2>6, <2>7, InsertKeeps
  <2> QED
    BY <1>a, <1>c, <2>2, <2>8, WorkerGoesOn DEF ProfileInv, Looked
<1>5. ASSUME NEW w \in Workers, NEW o \in Orders, PlaceOrder(w, o) PROVE ProfileInv'
  <2>1. UNCHANGED <<customer, origin>> /\ request' = [request EXCEPT ![w] = NoRequest]
    BY <1>5 DEF PlaceOrder
  <2> QED
    BY <1>a, <1>d, <2>1, TablesStay DEF ProfileInv
<1>6. ASSUME NEW w \in Workers, NEW p \in Phones \cup {NoPhone}, NEW e \in Given \cup {NoEmail},
             CheckEmail(w, p, e)
      PROVE ProfileInv'
  <2> DEFINE r == [kind |-> "create", at |-> "phone", phone |-> p, email |-> Lower(e),
                   saw |-> Present]
  <2>1. request' = [request EXCEPT ![w] = r] /\ UNCHANGED <<customer, order, origin, bounds>>
    BY <1>6 DEF CheckEmail
  <2>2. r \in CustomerRequests
    BY EmailFacts DEF CustomerRequests, Present
  <2>3. Tables' /\ OldStay
    BY <1>a, <2>1, TablesStay
  <2>4. Looked(r)
    <3> SUFFICES ASSUME NEW a \in Present PROVE ~Fresh(a) /\ Unlike(r, a)
      BY DEF Looked
    <3>1. ~Fresh(a)
      BY <1>a DEF Tables, WasThere, Present
    <3>2. Lower(e) = NoEmail \/ ~SameAddress(customer[a].email, Lower(e))
      BY <1>6, EmailFacts DEF CheckEmail, SameAddress
    <3> QED
      BY <3>1, <3>2 DEF Unlike
  <2> HIDE DEF r
  <2> QED
    BY <1>a, <2>1, <2>2, <2>3, <2>4, WorkerGoesOn DEF ProfileInv
<1>7. ASSUME NEW w \in Workers, CheckPhone(w) PROVE ProfileInv'
  <2>1. PICK r \in CustomerRequests : r = request[w] /\ Looked(r)
    BY <1>a
  <2>2. /\ r.kind = "create" /\ r.at = "phone"
        /\ UNCHANGED <<customer, order, origin, bounds>>
        /\ IF r.phone # NoPhone /\ WithPhone(r.phone) # {}
           THEN request' = [request EXCEPT ![w] = NoRequest]
           ELSE request' = [request EXCEPT ![w] = [r EXCEPT !.at = "insert"]]
    BY <1>7, <2>1 DEF CheckPhone, At
  <2>3. Tables' /\ OldStay
    BY <1>a, <2>2, TablesStay
  <2>4. CASE r.phone # NoPhone /\ WithPhone(r.phone) # {}
    BY <1>d, <2>2, <2>3, <2>4 DEF ProfileInv
  <2>5. CASE r.phone = NoPhone \/ WithPhone(r.phone) = {}
    <3>1. PICK q : q = [r EXCEPT !.at = "insert"]
      OBVIOUS
    <3>2. /\ q \in CustomerRequests /\ q.kind = "create" /\ q.at = "insert"
          /\ q.phone = r.phone /\ q.email = r.email /\ q.saw = r.saw
      BY <2>2, <3>1 DEF CustomerRequests
    <3>3. Looked(q)
      BY <2>1, <2>2, <2>5, <3>2 DEF Looked, Inserts, Unlike, WithPhone, Untouched
    <3> QED
      BY <1>a, <2>2, <2>3, <2>5, <3>1, <3>2, <3>3, WorkerGoesOn DEF ProfileInv
  <2> QED
    BY <2>4, <2>5
<1>8. ASSUME NEW w \in Workers, NEW c \in Customers, InsertCreated(w, c) PROVE ProfileInv'
  <2>1. PICK r \in CustomerRequests : r = request[w] /\ Looked(r)
    BY <1>a
  <2>2. /\ r.kind = "create" /\ r.at = "insert" /\ Unique(c, r.email)
        /\ Insert(c, [phone |-> r.phone, email |-> r.email], "create", r.saw)
        /\ request' = [request EXCEPT ![w] = NoRequest]
    BY <1>8, <2>1 DEF InsertCreated, At
  <2>3. r.phone \in Phones \cup {NoPhone} /\ r.email \in Lowered /\ r.saw \subseteq Customers
    BY <2>2 DEF CustomerRequests
  <2>4. PICK rec \in CustomerRows : rec = [phone |-> r.phone, email |-> r.email]
    BY <2>3, EmailFacts DEF CustomerRows
  <2>5. \A a \in r.saw : /\ ~Fresh(a)
                         /\ Untouched(a) =>
                              /\ rec.phone = NoPhone \/ customer[a].phone # rec.phone
                              /\ rec.email = NoEmail \/ ~SameAddress(customer[a].email, rec.email)
    <3>1. rec.phone = r.phone /\ rec.email = r.email
      BY <2>4
    <3>2. r.kind = "create" /\ r.at = "insert"
      BY <2>2
    <3>3. Inserts(r)
      BY <3>2 DEF Inserts
    <3>4. \A a \in r.saw : ~Fresh(a) /\ Unlike(r, a)
      BY <2>1, <3>3 DEF Looked
    <3> QED
      BY <3>1, <3>2, <3>4 DEF Unlike
  <2>6. Insert(c, rec, "create", r.saw) /\ Unique(c, rec.email) /\ rec.email \in Lowered
    BY <2>2, <2>3, <2>4
  <2>7. Tables' /\ OldStay
    BY <1>a, <2>3, <2>5, <2>6, InsertKeeps
  <2> QED
    BY <1>d, <2>2, <2>7 DEF ProfileInv
<1>9. ASSUME NEW w \in Workers, InsertRefused(w) PROVE ProfileInv'
  <2>1. UNCHANGED <<customer, origin>> /\ request' = [request EXCEPT ![w] = NoRequest]
    BY <1>9 DEF InsertRefused
  <2> QED
    BY <1>a, <1>d, <2>1, TablesStay DEF ProfileInv
<1>10. ASSUME NEW c \in Customers, NEW p \in Phones \cup {NoPhone}, NEW e \in Given \cup {Blank},
              GraphqlCreate(c, p, e)
       PROVE ProfileInv'
  <2>1. PICK rec \in CustomerRows : rec = [phone |-> p, email |-> e]
    BY DEF CustomerRows, Emails
  <2>2. Insert(c, rec, "graphql", {}) /\ Unique(c, rec.email) /\ request' = request
    BY <1>10, <2>1 DEF GraphqlCreate
  <2>3. Tables' /\ OldStay
    BY <1>a, <2>2, InsertKeeps
  <2> QED
    BY <1>a, <2>2, <2>3, LookedStays DEF ProfileInv, Requested
<1>11. ASSUME NEW w \in Workers, NEW c \in Customers, BeginEdit(w, c) PROVE ProfileInv'
  <2>1. PICK p \in Phones \cup {NoPhone}, e \in Emails :
          request' = [request EXCEPT ![w] = [kind |-> "edit", at |-> "save", c |-> c,
                                             row |-> [phone |-> p, email |-> e]]]
    BY <1>11 DEF BeginEdit
  <2>2. PICK r : r = [kind |-> "edit", at |-> "save", c |-> c, row |-> [phone |-> p, email |-> e]]
    OBVIOUS
  <2>3. r \in CustomerRequests /\ Looked(r)
    BY <2>2 DEF CustomerRequests, CustomerRows, Looked, Inserts
  <2>4. Tables' /\ OldStay
    BY <1>a, <1>11, TablesStay DEF BeginEdit
  <2> QED
    BY <1>a, <2>1, <2>2, <2>3, <2>4, WorkerGoesOn DEF ProfileInv
<1>12. ASSUME NEW w \in Workers, SaveEdit(w) PROVE ProfileInv'
  <2>1. PICK r \in CustomerRequests : r = request[w]
    BY <1>a
  <2>2. /\ r.kind = "edit" /\ request' = [request EXCEPT ![w] = NoRequest]
        /\ IF Unique(r.c, r.row.email)
           THEN /\ customer' = [customer EXCEPT ![r.c] = r.row]
                /\ origin' = [origin EXCEPT ![r.c] = Changed]
           ELSE UNCHANGED <<customer, origin>>
    BY <1>12, <2>1 DEF SaveEdit, At
  <2>3. r.c \in Customers /\ r.row \in CustomerRows
    BY <2>2 DEF CustomerRequests
  <2>4. Tables' /\ OldStay
    BY <1>a, <2>2, <2>3, TablesStay, ChangeKeeps
  <2> QED
    BY <1>d, <2>2, <2>4 DEF ProfileInv
<1>13. ASSUME NEW c \in Customers, Delete(c) PROVE ProfileInv'
  <2>1. /\ customer' = [customer EXCEPT ![c] = Absent] /\ origin' = [origin EXCEPT ![c] = Changed]
        /\ request' = request
    BY <1>13 DEF Delete
  <2>2. Tables' /\ OldStay
    BY <1>a, <2>1, ChangeKeeps
  <2> QED
    BY <1>a, <2>1, <2>2, LookedStays DEF ProfileInv, Requested
<1>14. CASE UNCHANGED vars \/ \E o \in Orders : PlaceOrderWithout(o)
  <2>1. UNCHANGED <<customer, origin, request>>
    BY <1>14 DEF vars, PlaceOrderWithout
  <2>2. Tables' /\ OldStay
    BY <1>a, <2>1, TablesStay
  <2> QED
    BY <1>a, <2>1, <2>2, LookedStays DEF ProfileInv, Requested
<1> QED
  BY <1>1, <1>2, <1>3, <1>4, <1>5, <1>6, <1>7, <1>8, <1>9, <1>10, <1>11, <1>12, <1>13, <1>14
     DEF Next, OrderStep, CreateStep, EditStep

LEMMA InitProfiles == Init => ProfileInv
<1> SUFFICES ASSUME Init PROVE ProfileInv
  OBVIOUS
<1>1. Present = {}
  BY DEF Init, Present
<1>2. Tables
  BY <1>1 DEF Init, Tables, Origins, NoOrigin, WasThere, Fresh, UniqueEmails, RestLowers,
     SeenIsReused, Untouched
<1>3. Requested
  BY DEF Init, Requested, CustomerRequests, NoRequest, Looked, Inserts
<1> QED
  BY <1>2, <1>3 DEF ProfileInv

\* An order or a new customer never gets a second profile for a phone number or
\* an address of which its request saw one, however many requests overlap.
THEOREM ProfilesAreReused == Spec => []SeenIsReused
<1>1. ProfileInv => SeenIsReused
  BY DEF ProfileInv, Tables
<1>2. QED
  BY <1>1, InitProfiles, NextKeepsProfiles, PTL DEF Spec

\* The unique constraint, which tells upper from lower case, and the views,
\* which lower what they store, together keep REST requests from making two
\* profiles of one address.
THEOREM AddressesAreOnce == Spec => []AddressOnce
<1>1. ProfileInv => AddressOnce
  <2> SUFFICES ASSUME ProfileInv, NEW a \in Customers, NEW b \in Customers,
                      Untouched(a), Untouched(b), a # b,
                      {origin[a].by, origin[b].by} \subseteq {"order", "create"},
                      customer[a].email \in Given
               PROVE  ~SameAddress(customer[a].email, customer[b].email)
    BY DEF AddressOnce
  <2>1. customer[a].email \in Lowered /\ customer[b].email \in Lowered
    BY DEF ProfileInv, Tables, RestLowers
  <2>2. customer[a].email # customer[b].email
    BY EmailFacts DEF ProfileInv, Tables, UniqueEmails, Untouched
  <2> QED
    BY <2>1, <2>2, EmailFacts
<1>2. QED
  BY <1>1, InitProfiles, NextKeepsProfiles, PTL DEF Spec
===============================================================================
