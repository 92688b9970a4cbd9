----------------------------- MODULE AccountsProofs -----------------------------
(***************************************************************************)
(* Proofs about the accounts and connections of Workspace: Tenancy,        *)
(* Organizations, ApiKeys, LoginLock and SecondFactor, for any number of   *)
(* workers, members and organizations and whatever bound the runs set.     *)
(***************************************************************************)
EXTENDS Workspace, Sequences, TLAPS

-------------------------------------------------------------------------------
(* Tenancy: the organization of a connection.                              *)

Settings == Orgs \cup {Conn!NoOrg}

Scopes ==
  [kind : {"context"}, previous : Settings]
    \cup [kind : {"transaction"}, before : Settings, failed : BOOLEAN]

ServedRequests ==
  [at : {"idle", "authenticate"}]
    \cup [at : {"view"}, org : Settings, by : {"member", "support", "platform"}]

ConnectionTypes ==
  /\ setting \in Settings
  /\ attribute \in Settings
  /\ served \in ServedRequests
  /\ scopes \in Seq(Scopes)

\* Leaving a scope or rolling it back puts back o.
PutsBack(s, o) ==
  /\ s.kind = "context" => s.previous = o
  /\ s.kind = "transaction" => s.before = o

\* The middleware's context is the outermost and restores no organization;
\* without a request there is none.
Outermost ==
  IF served.at = "idle"
  THEN scopes = <<>> /\ setting = Conn!NoOrg /\ attribute = Conn!NoOrg
  ELSE scopes # <<>> /\ scopes[1] = Conn!Context(Conn!NoOrg)

\* Before authentication nothing is nested, and the two agree.
Authenticating ==
  served.at = "authenticate" => Len(scopes) = 1 /\ setting = attribute

\* All that a member's request is nested in restores his organization.
MemberInside ==
  served.at = "view" /\ served.by = "member" =>
    /\ setting = served.org /\ attribute = served.org
    /\ \A i \in 2..Len(scopes) : PutsBack(scopes[i], served.org)

ConnectionInv == ConnectionTypes /\ Outermost /\ Authenticating /\ MemberInside

\* A new connection has no organization set.
LEMMA InitConnection == Conn!Init => ConnectionInv
  BY DEF Conn!Init, ConnectionInv, ConnectionTypes, Settings, ServedRequests,
     Conn!Idle, Outermost,
         Authenticating, MemberInside

\* Leaving the innermost scope leaves the others ...
LEMMA LeaveKeeps ==
  ASSUME scopes \in Seq(Scopes), Len(scopes) > 1, Conn!Leave
  PROVE  /\ scopes' \in Seq(Scopes) /\ Len(scopes') = Len(scopes) - 1 /\ scopes' # <<>>
         /\ \A i \in 1..Len(scopes') : scopes'[i] = scopes[i]
<1> DEFINE n == Len(scopes) - 1
<1>1. n \in Nat /\ n > 0 /\ n <= Len(scopes)
  OBVIOUS
<1>2. scopes' = SubSeq(scopes, 1, n)
  BY DEF Conn!Leave
<1>3. scopes' \in Seq(Scopes) /\ Len(scopes') = n
  BY <1>1, <1>2
<1>4. \A i \in 1..n : scopes'[i] = scopes[i]
  BY <1>1, <1>2
<1> QED
  BY <1>1, <1>3, <1>4

\* ... and so does entering one.
LEMMA AppendKeeps ==
  ASSUME scopes \in Seq(Scopes), NEW s \in Scopes, scopes' = Append(scopes, s)
  PROVE  /\ scopes' \in Seq(Scopes) /\ Len(scopes') = Len(scopes) + 1 /\ scopes' # <<>>
         /\ \A i \in 1..Len(scopes) : scopes'[i] = scopes[i]
         /\ scopes'[Len(scopes')] = s
OBVIOUS

\* No step of a request on the connection breaks the invariant.
LEMMA NextKeepsConnection == ConnectionInv /\ [Conn!Next]_(Conn!vars) => ConnectionInv'
<1> SUFFICES ASSUME ConnectionInv, [Conn!Next]_(Conn!vars) PROVE ConnectionInv'
  OBVIOUS
<1>a. ConnectionTypes /\ Outermost /\ Authenticating /\ MemberInside
  BY DEF ConnectionInv
<1> USE <1>a DEF ConnectionInv
<1>1. ASSUME NEW o \in Settings, Conn!Receive(o) PROVE ConnectionInv'
  <2> USE <1>1 DEF Conn!Receive, Conn!Enter, Conn!Idle
  <2>1. scopes = <<>> /\ attribute = Conn!NoOrg
    BY DEF Outermost
  <2>2. scopes' = <<Conn!Context(Conn!NoOrg)>> /\ Conn!Context(Conn!NoOrg) \in Scopes
    BY <2>1 DEF Conn!Context, Scopes, Settings
  <2>3. served' = [at |-> "authenticate"] /\ setting' = o /\ attribute' = o
    OBVIOUS
  <2> QED
    BY <2>2, <2>3 DEF ConnectionTypes, ServedRequests, Outermost, Authenticating,
       MemberInside
<1>2. ASSUME NEW o \in Settings,
             Conn!Authenticate(o) \/ Conn!Impersonate(o) \/ Conn!Proceed
      PROVE ConnectionInv'
  <2> USE <1>2 DEF Conn!Authenticate, Conn!Impersonate, Conn!Proceed,
     Conn!Visible
  <2>1. Len(scopes) = 1 /\ setting = attribute /\ UNCHANGED <<attribute, scopes>>
        /\ served'.at = "view"
    BY DEF Authenticating
  <2>2. ConnectionTypes'
    BY DEF ConnectionTypes, ServedRequests, Settings
  <2>3. Outermost'
    BY <2>1 DEF Outermost
  <2>4. served'.by = "member" => setting' = served'.org /\ attribute' = served'.org
    BY <2>1
  <2>5. Authenticating'
    BY <2>1 DEF Authenticating
  <2>6. Len(scopes') = 1
    BY <2>1
  <2>7. MemberInside'
    BY <2>4, <2>6 DEF MemberInside
  <2> QED
    BY <2>2, <2>3, <2>5, <2>7
<1>3. CASE Conn!EnterContext \/ Conn!Begin
  <2> USE <1>3 DEF Conn!EnterContext, Conn!Begin, Conn!Enter
  <2>1. PICK s \in Scopes :
          /\ scopes' = Append(scopes, s)
          /\ served.by = "member" => PutsBack(s, served.org)
    <3>1. CASE Conn!EnterContext
      <4>1. Conn!Context(attribute) \in Scopes
        BY DEF Conn!Context, Scopes, ConnectionTypes
      <4>2. served.by = "member" => PutsBack(Conn!Context(attribute), served.org)
        BY <3>1 DEF Conn!Context, PutsBack, MemberInside
      <4> QED
        BY <3>1, <4>1, <4>2
    <3>2. CASE Conn!Begin
      <4>1. Conn!Transaction(setting, FALSE) \in Scopes
        BY DEF Conn!Transaction, Scopes, ConnectionTypes
      <4>2. served.by = "member" => PutsBack(Conn!Transaction(setting, FALSE), served.org)
        BY <3>2 DEF Conn!Transaction, PutsBack, MemberInside
      <4> QED
        BY <3>2, <4>1, <4>2
    <3> QED
      BY <3>1, <3>2
  <2>2. /\ scopes' \in Seq(Scopes) /\ Len(scopes') = Len(scopes) + 1 /\ scopes' # <<>>
        /\ \A i \in 1..Len(scopes) : scopes'[i] = scopes[i]
        /\ scopes'[Len(scopes')] = s
    BY <2>1, AppendKeeps DEF ConnectionTypes
  <2>3. served' = served /\ served.at = "view"
    OBVIOUS
  <2>4. ConnectionTypes'
    <3>1. setting' \in Settings /\ attribute' \in Settings
      BY DEF ConnectionTypes, ServedRequests
    <3> QED
      BY <2>2, <2>3, <3>1 DEF ConnectionTypes
  <2>5. Outermost' /\ Authenticating'
    BY <2>2, <2>3 DEF Outermost, Authenticating, ConnectionTypes
  <2>6. MemberInside'
    <3>1. served.by = "member" => setting' = served.org /\ attribute' = served.org
      BY DEF MemberInside
    <3>2. ASSUME served.by = "member", NEW j \in 2..Len(scopes')
          PROVE  PutsBack(scopes'[j], served.org)
      <4>1. CASE j = Len(scopes')
        BY <2>1, <2>2, <3>2, <4>1
      <4>2. CASE j # Len(scopes')
        <5>1. j \in 2..Len(scopes) /\ j \in 1..Len(scopes)
          BY <2>2, <4>2 DEF ConnectionTypes
        <5>2. PutsBack(scopes[j], served.org)
          BY <2>3, <3>2, <5>1 DEF MemberInside
        <5> QED
          BY <2>2, <5>1, <5>2
      <4> QED
        BY <4>1, <4>2
    <3> QED
      BY <2>3, <3>1, <3>2 DEF MemberInside
  <2> QED
    BY <2>4, <2>5, <2>6
<1>4. CASE Conn!ExitContext \/ Conn!Commit \/ Conn!Rollback
  <2> USE <1>4 DEF Conn!ExitContext, Conn!Commit, Conn!Rollback,
     Conn!Exit
  <2>1. served' = served /\ served.at = "view" /\ Conn!Leave
    OBVIOUS
  <2>2. Len(scopes) > 1
    BY <2>1 DEF Outermost, Conn!Context, Conn!Innermost, ConnectionTypes
  <2>3. /\ scopes' \in Seq(Scopes) /\ Len(scopes') = Len(scopes) - 1 /\ scopes' # <<>>
        /\ \A i \in 1..Len(scopes') : scopes'[i] = scopes[i]
    BY <2>1, <2>2, LeaveKeeps DEF ConnectionTypes
  <2>4. /\ Conn!Innermost \in Scopes
        /\ served.by = "member" => PutsBack(Conn!Innermost, served.org)
    BY <2>1, <2>2 DEF Conn!Innermost, MemberInside, ConnectionTypes
  <2>5. ConnectionTypes'
    BY <2>3, <2>4 DEF ConnectionTypes, Scopes
  <2>6. Outermost' /\ Authenticating'
    BY <2>1, <2>3 DEF Outermost, Authenticating
  <2>7. MemberInside'
    BY <2>1, <2>3, <2>4 DEF MemberInside, PutsBack
  <2> QED
    BY <2>5, <2>6, <2>7
<1>5. CASE Conn!Fail
  <2>1. PICK i \in 1..Len(scopes) :
          /\ scopes[i].kind = "transaction"
          /\ scopes' = [scopes EXCEPT ![i] = Conn!Transaction(scopes[i].before, TRUE)]
    BY <1>5 DEF Conn!Fail
  <2>2. UNCHANGED <<setting, attribute, served>>
    BY <1>5 DEF Conn!Fail
  <2>3. /\ Conn!Transaction(scopes[i].before, TRUE) \in Scopes
        /\ Conn!Transaction(scopes[i].before, TRUE).kind = "transaction"
        /\ Conn!Transaction(scopes[i].before, TRUE).before = scopes[i].before
    <3>1. scopes[i] \in Scopes /\ scopes[i].kind = "transaction"
      BY <2>1 DEF ConnectionTypes
    <3>2. scopes[i].before \in Settings
      BY <3>1 DEF Scopes
    <3> QED
      BY <3>2 DEF Scopes, Conn!Transaction
  <2>4. /\ scopes' \in Seq(Scopes) /\ Len(scopes') = Len(scopes)
        /\ scopes'[i].kind = "transaction" /\ scopes'[i].before = scopes[i].before
        /\ \A j \in 1..Len(scopes) \ {i} : scopes'[j] = scopes[j]
    <3> DEFINE t == Conn!Transaction(scopes[i].before, TRUE)
    <3>1. t \in Scopes /\ t.kind = "transaction" /\ t.before = scopes[i].before
      BY <2>3
    <3> HIDE DEF t
    <3>2. scopes' = [scopes EXCEPT ![i] = t]
      BY <2>1 DEF t
    <3>3. scopes' \in Seq(Scopes) /\ Len(scopes') = Len(scopes)
      BY <3>1, <3>2 DEF ConnectionTypes
    <3>4. scopes'[i] = t /\ \A j \in 1..Len(scopes) \ {i} : scopes'[j] = scopes[j]
      BY <3>2 DEF ConnectionTypes
    <3> QED
      BY <3>1, <3>3, <3>4
  <2>5. served.at # "idle" => i # 1
    BY <2>1 DEF Outermost, Conn!Context
  <2>6. ConnectionTypes' /\ Authenticating'
    BY <2>2, <2>4 DEF ConnectionTypes, Authenticating
  <2>7. Outermost'
    <3>1. served.at # "idle"
      BY <2>1 DEF Outermost
    <3>2. scopes' # <<>> /\ scopes'[1] = scopes[1]
      <4>1. Len(scopes) \in Nat /\ Len(scopes) >= 1 /\ i # 1
        BY <2>5, <3>1 DEF ConnectionTypes
      <4>2. scopes' # <<>>
        BY <2>4, <4>1
      <4>3. 1 \in 1..Len(scopes) \ {i}
        BY <4>1
      <4> QED
        BY <2>4, <4>2, <4>3
    <3> QED
      BY <2>2, <3>1, <3>2 DEF Outermost
  <2>8. MemberInside'
    <3> SUFFICES ASSUME served.at = "view", served.by = "member", NEW j \in 2..Len(scopes)
                 PROVE  PutsBack(scopes'[j], served.org)
      BY <2>2, <2>4 DEF MemberInside
    <3>1. PutsBack(scopes[j], served.org)
      BY DEF MemberInside
    <3>2. j \in 1..Len(scopes)
      BY DEF ConnectionTypes
    <3>3. CASE j = i
      BY <2>1, <2>4, <3>1, <3>3 DEF PutsBack
    <3>4. CASE j # i
      BY <2>4, <3>1, <3>2, <3>4
    <3> QED
      BY <3>3, <3>4
  <2> QED
    BY <2>6, <2>7, <2>8
<1>6. CASE Conn!Respond
  <2> USE <1>6 DEF Conn!Respond, Conn!Exit, Conn!Leave
  <2>1. scopes[1] = Conn!Context(Conn!NoOrg) /\ Len(scopes) = 1
    BY DEF Outermost
  <2>2. ~Conn!Failed /\ Conn!Innermost.previous = Conn!NoOrg /\ scopes' = <<>>
    BY <2>1 DEF Conn!Failed, Conn!Innermost, Conn!Context, ConnectionTypes
  <2> QED
    BY <2>2 DEF ConnectionTypes, Settings, ServedRequests, Conn!Idle, Outermost,
       Authenticating, MemberInside
<1>7. CASE Conn!ConnectionLost
  <2>1. scopes[1].previous = Conn!NoOrg
    BY <1>7 DEF Conn!ConnectionLost, Outermost, Conn!Context, Conn!Idle,
       ConnectionTypes, ServedRequests
  <2> QED
    BY <1>7, <2>1 DEF Conn!ConnectionLost, ConnectionTypes, Settings, ServedRequests,
       Conn!Idle, Outermost,
       Authenticating, MemberInside
<1>8. CASE UNCHANGED Conn!vars
  BY <1>8 DEF Conn!vars, ConnectionTypes, Outermost, Authenticating, MemberInside
<1> QED
  BY <1>1, <1>2, <1>3, <1>4, <1>5, <1>6, <1>7, <1>8 DEF Conn!Next, Settings

\* A connection that waits for its next request has no organization set,
\* however the requests before ended.
THEOREM ConnectionsAreClean == Conn!Spec => []IdleIsClean
<1>1. ConnectionInv => IdleIsClean
  BY DEF ConnectionInv, Outermost, IdleIsClean, Conn!IdleIsClean, Conn!Idle
<1>2. QED
  BY <1>1, InitConnection, NextKeepsConnection, PTL DEF Conn!Spec

\* Every statement of a member's view runs under his organization.
THEOREM MembersKeepOrg == Conn!Spec => []MemberKeepsOrg
<1>1. ConnectionInv => MemberKeepsOrg
  BY DEF ConnectionInv, MemberInside, MemberKeepsOrg, Conn!MemberKeepsOrg
<1>2. QED
  BY <1>1, InitConnection, NextKeepsConnection, PTL DEF Conn!Spec

-------------------------------------------------------------------------------
(* Organizations: the sign-up, the staff and the status.                   *)

MemberRows == [role : Staff!Roles, status : Staff!Statuses]

Owner == [role |-> "owner", status |-> "active"]

Actors == Members \cup {Staff!Outsider}

\* What a worker has read, at each point of its request.
StaffRequests ==
  [at : {"idle", "checked", "inserted"}]
    \cup [at : {"provisioned"}, roles : {{"owner"}}]
    \cup [at : {"owned", "complete"}, roles : {{"owner"}}, owner : Members, row : {Owner}]
    \cup [at : {"staff"}, actor : Actors]
    \cup [at : {"edit"}, actor : Actors, u : Members, row : MemberRows]
    \cup [at : {"settings"}, by : {"member", "platform"}, seen : {"active", "suspended"},
          status : {"active", "suspended"}]

StaffTypes ==
  /\ organization \in {"none", "active", "suspended"}
  /\ member \in [Members -> MemberRows \cup {Staff!Absent}]
  /\ staffRequest \in [Workers -> StaffRequests]

\* The unique subdomain: one open sign-up at most, and none beside an
\* organization; an edit has read one that is there for good.
OneSignup ==
  \A w \in Workers :
    /\ staffRequest[w].at \in Staff!Signing =>
         ~Staff!Exists /\ \A v \in Workers \ {w} : staffRequest[v].at \notin Staff!Signing
    /\ staffRequest[w].at = "settings" => Staff!Exists

\* A member reads the settings of an active organization only.
MembersReadActive ==
  \A w \in Workers :
    staffRequest[w].at = "settings" /\ staffRequest[w].by = "member" =>
      staffRequest[w].seen = "active"

StaffInv == StaffTypes /\ OneSignup /\ MembersReadActive /\ StaffedUnlessAbandoned

\* Before the sign-up there is no organization to be staffed.
LEMMA InitStaff == Staff!Init => StaffInv
<1> SUFFICES ASSUME Staff!Init PROVE StaffInv
  OBVIOUS
<1> USE DEF Staff!Init, Staff!Idle
<1>1. StaffTypes
  BY DEF StaffTypes, StaffRequests
<1>2. OneSignup /\ MembersReadActive /\ StaffedUnlessAbandoned
  BY DEF OneSignup, MembersReadActive, StaffedUnlessAbandoned, Staff!StaffedUnlessAbandoned,
     Staff!Signing, Staff!Exists
<1> QED
  BY <1>1, <1>2 DEF StaffInv

\* A step that leaves roles and members alone leaves the organization staffed.
LEMMA StaffStays ==
  ASSUME StaffedUnlessAbandoned, UNCHANGED <<roles, member, abandoned>>,
         Staff!Exists' => Staff!Exists
  PROVE  StaffedUnlessAbandoned'
BY DEF StaffedUnlessAbandoned, Staff!StaffedUnlessAbandoned, Staff!Managers, Staff!Present

\* Nobody is left only through an actor who is no manager or changed himself: a
\* manager whose own row stays is there afterwards.
LEMMA LeavesAccounts ==
  ASSUME NEW w \in Workers, NEW itself \in BOOLEAN, StaffedUnlessAbandoned,
         Staff!Leaves(w, itself), UNCHANGED <<organization, roles>>,
         Staff!Actor(w) \in Staff!Managers /\ ~itself =>
           member'[Staff!Actor(w)] = member[Staff!Actor(w)]
  PROVE  StaffedUnlessAbandoned'
<1>1. CASE Staff!Managers' = {}
  <2>1. Staff!Actor(w) \in Staff!Managers /\ ~itself => Staff!Actor(w) \in Staff!Managers'
    BY DEF Staff!Managers, Staff!Present
  <2> QED
    BY <1>1, <2>1 DEF Staff!Leaves, StaffedUnlessAbandoned, Staff!StaffedUnlessAbandoned
<1> QED
  BY <1>1 DEF StaffedUnlessAbandoned, Staff!StaffedUnlessAbandoned

\* No step of a sign-up, of a request or of the platform breaks the invariant.
LEMMA NextKeepsStaff == StaffInv /\ [Staff!Next]_(Staff!vars) => StaffInv'
<1> SUFFICES ASSUME StaffInv, [Staff!Next]_(Staff!vars) PROVE StaffInv'
  OBVIOUS
<1>a. StaffTypes /\ OneSignup /\ MembersReadActive /\ StaffedUnlessAbandoned
  BY DEF StaffInv
<1> USE <1>a DEF Staff!Goto, Staff!Reply, Staff!Idle
<1>1. CASE Staff!PlatformCreate \/ Staff!Suspend \/ Staff!Activate
  <2>1. StaffTypes'
    BY <1>1 DEF Staff!PlatformCreate, Staff!Suspend, Staff!Activate, StaffTypes
  <2>2. OneSignup' /\ MembersReadActive'
    BY <1>1 DEF Staff!PlatformCreate, Staff!Suspend, Staff!Activate, OneSignup,
       MembersReadActive, Staff!Exists
  <2>3. StaffedUnlessAbandoned'
    BY <1>1, StaffStays DEF Staff!PlatformCreate, Staff!Suspend, Staff!Activate,
       StaffedUnlessAbandoned, Staff!StaffedUnlessAbandoned, Staff!Exists
  <2> QED
    BY <2>1, <2>2, <2>3 DEF StaffInv
<1>2. ASSUME NEW w \in Workers,
             \/ Staff!CheckSubdomain(w) \/ Staff!InsertOrganization(w)
             \/ Staff!ProvisionRoles(w) \/ Staff!InsertOwner(w)
             \/ Staff!InsertSite(w) \/ Staff!Die(w) \/ Staff!Authenticate(w)
             \/ Staff!BeginPatch(w) \/ Staff!BeginPut(w)
             \/ Staff!BeginSettings(w) \/ Staff!BeginPlatformEdit(w)
      PROVE StaffInv'
  <2> USE DEF Staff!CheckSubdomain, Staff!InsertOrganization, Staff!ProvisionRoles,
              Staff!InsertOwner, Staff!InsertSite,
              Staff!Die, Staff!Authenticate, Staff!BeginPatch, Staff!BeginPut,
              Staff!BeginSettings, Staff!BeginPlatformEdit,
              Staff!ReadOrganization
  <2>1. UNCHANGED <<organization, roles, member>> /\ UNCHANGED abandoned
    BY <1>2
  <2>2. StaffedUnlessAbandoned'
    BY <2>1, StaffStays DEF Staff!Exists
  <2>3. PICK r \in StaffRequests :
          /\ staffRequest' = [staffRequest EXCEPT ![w] = r]
          /\ r.at \in Staff!Signing =>
               ~Staff!Exists /\ \A v \in Workers \ {w} : staffRequest[v].at \notin Staff!Signing
          /\ r.at = "settings" => Staff!Exists /\ (r.by = "member" => r.seen = "active")
    <3> USE DEF Staff!Signing
    <3>1. CASE Staff!CheckSubdomain(w) \/ Staff!InsertOrganization(w)
               \/ Staff!ProvisionRoles(w) \/ Staff!Die(w)
      BY <3>1 DEF StaffRequests, OneSignup
    <3>2. CASE Staff!InsertOwner(w)
      <4>1. PICK u \in Members :
              staffRequest' = [staffRequest EXCEPT ![w] =
                [at |-> "owned", roles |-> staffRequest[w].roles, owner |-> u, row |-> Owner]]
        BY <3>2 DEF Staff!Present, Owner
      <4>2. staffRequest[w].roles = {"owner"}
        BY <3>2 DEF StaffTypes, StaffRequests
      <4>3. ~Staff!Exists /\ \A v \in Workers \ {w} : staffRequest[v].at \notin Staff!Signing
        BY <3>2 DEF OneSignup
      <4> QED
        <5> DEFINE r == [at |-> "owned", roles |-> {"owner"}, owner |-> u, row |-> Owner]
        <5>1. r \in StaffRequests /\ r.at # "settings"
          BY DEF StaffRequests
        <5>2. staffRequest' = [staffRequest EXCEPT ![w] = r]
          BY <4>1, <4>2
        <5> QED
          BY <5>1, <5>2, <4>3
    <3>3. CASE Staff!InsertSite(w)
      <4>1. PICK u \in Members : staffRequest[w] = [at |-> "owned", roles |-> {"owner"},
                                               owner |-> u, row |-> Owner]
        BY <3>3 DEF StaffTypes, StaffRequests
      <4>2. [staffRequest[w] EXCEPT !.at = "complete"]
              = [at |-> "complete", roles |-> {"owner"}, owner |-> u, row |-> Owner]
        BY <4>1
      <4>3. ~Staff!Exists /\ \A v \in Workers \ {w} : staffRequest[v].at \notin Staff!Signing
        BY <3>3 DEF OneSignup
      <4> QED
        BY <3>3, <4>2, <4>3 DEF StaffRequests
    <3>4. CASE Staff!Authenticate(w)
      <4>1. PICK a \in Actors :
              staffRequest' = [staffRequest EXCEPT ![w] = [at |-> "staff", actor |-> a]]
        BY <3>4 DEF Actors, Staff!Managers, Staff!Present
      <4> QED
        <5> DEFINE r == [at |-> "staff", actor |-> a]
        <5>1. r \in StaffRequests /\ r.at = "staff"
          BY DEF StaffRequests
        <5> QED
          BY <4>1, <5>1
    <3>5. CASE Staff!BeginPatch(w) \/ Staff!BeginPut(w)
      BY <3>5 DEF StaffRequests, StaffTypes, Actors, Staff!Actor, MemberRows, Staff!Present
    <3>6. CASE Staff!BeginSettings(w) \/ Staff!BeginPlatformEdit(w)
      <4>1. Staff!Exists /\ organization \in {"active", "suspended"}
        BY <3>6 DEF StaffTypes, Staff!Exists, OneSignup
      <4> QED
        BY <3>6, <4>1 DEF StaffRequests
    <3> QED
      BY <1>2, <3>1, <3>2, <3>3, <3>4, <3>5, <3>6
  <2>4. StaffTypes'
    BY <2>1, <2>3 DEF StaffTypes
  <2>5. OneSignup'
    BY <2>1, <2>3 DEF OneSignup, StaffTypes, Staff!Exists
  <2>6. MembersReadActive'
    BY <2>1, <2>3 DEF MembersReadActive, StaffTypes
  <2> QED
    BY <2>2, <2>4, <2>5, <2>6 DEF StaffInv
<1>3. ASSUME NEW w \in Workers, Staff!CommitSignup(w) PROVE StaffInv'
  <2> USE <1>3 DEF Staff!CommitSignup
  <2>1. staffRequest[w].owner \in Members /\ staffRequest[w].row = Owner /\ roles' = {"owner"}
    BY DEF StaffTypes, StaffRequests
  <2>2. StaffTypes'
    BY <2>1 DEF StaffTypes, StaffRequests, MemberRows, Owner, Staff!Roles, Staff!Statuses
  <2>3. staffRequest[w].owner \in Staff!Managers'
    BY <2>1 DEF Staff!Managers, Staff!Present, StaffTypes, Owner, Staff!Absent
  <2>4. OneSignup' /\ MembersReadActive'
    BY DEF OneSignup, MembersReadActive, StaffTypes, Staff!Exists, Staff!Signing
  <2> QED
    BY <2>2, <2>3, <2>4 DEF StaffInv, StaffedUnlessAbandoned, Staff!StaffedUnlessAbandoned
<1>4. ASSUME NEW w \in Workers, Staff!AddMember(w) PROVE StaffInv'
  <2> USE <1>4 DEF Staff!AddMember
  <2>1. PICK u \in Members \ Staff!Present, x \in MemberRows :
          member' = [member EXCEPT ![u] = x]
    BY DEF MemberRows
  <2>2. StaffTypes' /\ OneSignup' /\ MembersReadActive'
    BY <2>1 DEF StaffTypes, StaffRequests, OneSignup, MembersReadActive, Staff!Exists,
       Staff!Signing
  <2>3. Staff!Actor(w) \in Staff!Managers => member'[Staff!Actor(w)] = member[Staff!Actor(w)]
    BY <2>1 DEF Staff!Managers, StaffTypes
  <2>4. StaffedUnlessAbandoned'
    BY <2>3, LeavesAccounts
  <2> QED
    BY <2>2, <2>4 DEF StaffInv
<1>5. ASSUME NEW w \in Workers, Staff!Remove(w) PROVE StaffInv'
  <2> USE <1>5 DEF Staff!Remove
  <2>1. PICK u \in Members \ {Staff!Actor(w)} : member' = [member EXCEPT ![u] = Staff!Absent]
    BY DEF Staff!Present
  <2>2. StaffTypes' /\ OneSignup' /\ MembersReadActive'
    BY <2>1 DEF StaffTypes, StaffRequests, OneSignup, MembersReadActive, Staff!Exists,
       Staff!Signing
  <2>3. Staff!Actor(w) \in Staff!Managers => member'[Staff!Actor(w)] = member[Staff!Actor(w)]
    BY <2>1 DEF Staff!Managers, Staff!Present, StaffTypes
  <2>4. StaffedUnlessAbandoned'
    BY <2>3, LeavesAccounts
  <2> QED
    BY <2>2, <2>4 DEF StaffInv
<1>8. ASSUME NEW w \in Workers, Staff!SaveMember(w) PROVE StaffInv'
  <2> USE <1>8 DEF Staff!SaveMember
  <2>1. staffRequest[w].u \in Members /\ staffRequest[w].row \in MemberRows
    BY DEF StaffTypes, StaffRequests
  <2>2. StaffTypes' /\ OneSignup' /\ MembersReadActive'
    BY <2>1 DEF StaffTypes, StaffRequests, OneSignup, MembersReadActive, Staff!Exists,
       Staff!Signing
  <2>3. Staff!Actor(w) \in Staff!Managers /\ staffRequest[w].u # Staff!Actor(w) =>
          member'[Staff!Actor(w)] = member[Staff!Actor(w)]
    BY <2>1 DEF Staff!Managers, Staff!Present, StaffTypes
  <2>4. StaffedUnlessAbandoned'
    BY <2>3, LeavesAccounts
  <2> QED
    BY <2>2, <2>4 DEF StaffInv
<1>6. ASSUME NEW w \in Workers, Staff!SaveOrganization(w) PROVE StaffInv'
  <2> USE <1>6 DEF Staff!SaveOrganization
  <2>1. StaffTypes'
    BY DEF StaffTypes, StaffRequests
  <2>2. Staff!Exists /\ Staff!Exists'
    BY DEF OneSignup, StaffTypes, StaffRequests, Staff!Exists
  <2>3. OneSignup' /\ MembersReadActive'
    BY <2>2 DEF OneSignup, MembersReadActive, StaffTypes, Staff!Signing
  <2>4. StaffedUnlessAbandoned'
    BY <2>2, StaffStays
  <2> QED
    BY <2>1, <2>3, <2>4 DEF StaffInv
<1>7. CASE UNCHANGED Staff!vars
  BY <1>7 DEF Staff!vars, StaffInv, StaffTypes, OneSignup, MembersReadActive,
     StaffedUnlessAbandoned, Staff!StaffedUnlessAbandoned, Staff!Exists, Staff!Managers, Staff!Present
<1> QED
  BY <1>1, <1>2, <1>3, <1>4, <1>5, <1>6, <1>7, <1>8 DEF Staff!Next

\* An organization always has somebody who may manage its staff, whatever its
\* requests read and save meanwhile, but for the ways the views leave open.
THEOREM AlwaysStaffed == Staff!Spec => []StaffedUnlessAbandoned
<1>1. StaffInv => StaffedUnlessAbandoned
  BY DEF StaffInv
<1>2. QED
  BY <1>1, InitStaff, NextKeepsStaff, PTL DEF Staff!Spec

\* A suspension is taken back by platform staff, or by a request of a member
\* that had read the organization before.
THEOREM SuspensionsStand == Staff!Spec => SuspensionStands
<1> DEFINE Back ==
      organization = "suspended" /\ organization' = "active" =>
        \/ staffRequest' = staffRequest
        \/ \E w \in Workers : /\ staffRequest[w].at = "settings" /\ staffRequest'[w] = Staff!Idle
                              /\ staffRequest[w].by = "platform" \/ staffRequest[w].seen = "active"
<1>1. StaffInv /\ [Staff!Next]_(Staff!vars) => Back
  <2> SUFFICES ASSUME StaffInv, [Staff!Next]_(Staff!vars),
                      organization = "suspended", organization' = "active",
                      staffRequest' # staffRequest
               PROVE  \E w \in Workers :
                        /\ staffRequest[w].at = "settings" /\ staffRequest'[w] = Staff!Idle
                        /\ staffRequest[w].by = "platform" \/ staffRequest[w].seen = "active"
    OBVIOUS
  <2>1. Staff!Exists /\ StaffTypes /\ OneSignup /\ MembersReadActive
    BY DEF StaffInv, Staff!Exists
  <2>2. PICK w \in Workers : Staff!CommitSignup(w) \/ Staff!SaveOrganization(w)
    BY DEF Staff!Next, Staff!vars, Staff!PlatformCreate, Staff!Suspend, Staff!Activate,
       Staff!CheckSubdomain, Staff!InsertOrganization,
       Staff!ProvisionRoles, Staff!InsertOwner, Staff!InsertSite, Staff!Die,
       Staff!Authenticate, Staff!AddMember, Staff!BeginPatch,
       Staff!BeginPut, Staff!SaveMember, Staff!Remove, Staff!BeginSettings,
       Staff!BeginPlatformEdit, Staff!ReadOrganization
  <2>3. staffRequest[w].at = "settings" /\ staffRequest'[w] = Staff!Idle
    BY <2>1, <2>2 DEF Staff!CommitSignup, Staff!SaveOrganization, OneSignup, Staff!Signing,
       StaffTypes,
       Staff!Goto, Staff!Reply
  <2> QED
    BY <2>1, <2>3 DEF MembersReadActive, StaffTypes, StaffRequests
<1>2. StaffInv /\ [Staff!Next]_(Staff!vars) => [Back]_(Staff!vars)
  BY <1>1
<1>3. QED
  BY <1>2, InitStaff, NextKeepsStaff, PTL DEF Staff!Spec, SuspensionStands,
     Staff!SuspensionStands

-------------------------------------------------------------------------------
(* ApiKeys: one key and the requests that use, edit and revoke it.         *)

\* What a worker has read, at each point of its request.
KeyRequests ==
  [at : {"idle", "revoke"}]
    \cup [at : {"arrived"}, late : BOOLEAN]
    \cup [at : {"found"}, copy : {"active"}, late : BOOLEAN, restored : BOOLEAN]
    \cup [at : {"served"}, late : BOOLEAN, restored : BOOLEAN]
    \cup [at : {"edit"}, copy : Keys!Rows]

KeyTypes ==
  /\ key \in Keys!Rows \cup {Keys!Absent, Keys!Deleted}
  /\ keyRequest \in [Workers -> KeyRequests]
  /\ revoked \in BOOLEAN
  /\ keyRestored \in BOOLEAN

\* A revoked key is active again only through an edit that saved an older copy.
ActiveIsRestored ==
  /\ revoked => key # Keys!Absent
  /\ revoked /\ key = "active" => keyRestored

\* A request that is noted as late did arrive after a revocation.
LateIsLate ==
  \A w \in Workers : keyRequest[w].at = "arrived" /\ keyRequest[w].late => revoked

KeyInv == KeyTypes /\ ActiveIsRestored /\ LateIsLate /\ RevokedIsRefused

\* A key that is not there yet was never revoked.
LEMMA InitKeys == Keys!Init => KeyInv
<1> SUFFICES ASSUME Keys!Init PROVE KeyInv
  OBVIOUS
<1> USE DEF Keys!Init, Keys!Idle, Keys!Absent
<1>1. KeyTypes
  BY DEF KeyTypes, KeyRequests
<1>2. ActiveIsRestored /\ LateIsLate
  BY DEF ActiveIsRestored, LateIsLate
<1>3. RevokedIsRefused
  BY DEF RevokedIsRefused, Keys!RevokedIsRefused
<1> QED
  BY <1>1, <1>2, <1>3 DEF KeyInv

\* No step of a request that uses, edits or revokes the key breaks the invariant.
LEMMA NextKeepsKeys == KeyInv /\ [Keys!Next]_(Keys!vars) => KeyInv'
<1> SUFFICES ASSUME KeyInv, [Keys!Next]_(Keys!vars) PROVE KeyInv'
  OBVIOUS
<1> USE DEF KeyInv, KeyTypes, KeyRequests, Keys!Rows, Keys!Absent, Keys!Deleted, Keys!Idle,
            ActiveIsRestored,
            LateIsLate, RevokedIsRefused, Keys!RevokedIsRefused, Keys!Goto, Keys!Reply
<1>1. CASE Keys!Create
  BY <1>1 DEF Keys!Create
<1>2. CASE Keys!Delete
  BY <1>2 DEF Keys!Delete
<1>3. ASSUME NEW w \in Workers, Keys!Arrive(w) PROVE KeyInv'
  BY <1>3 DEF Keys!Arrive
<1>4. ASSUME NEW w \in Workers, Keys!Find(w) PROVE KeyInv'
  BY <1>4 DEF Keys!Find
<1>5. ASSUME NEW w \in Workers, Keys!Touch(w) PROVE KeyInv'
  BY <1>5 DEF Keys!Touch, Keys!Served
<1>6. ASSUME NEW w \in Workers, Keys!Serve(w) PROVE KeyInv'
  BY <1>6 DEF Keys!Serve
<1>7. ASSUME NEW w \in Workers, Keys!BeginRevoke(w) PROVE KeyInv'
  BY <1>7 DEF Keys!BeginRevoke
<1>8. ASSUME NEW w \in Workers, Keys!Revoke(w) PROVE KeyInv'
  BY <1>8 DEF Keys!Revoke
<1>9. ASSUME NEW w \in Workers, Keys!BeginEdit(w) PROVE KeyInv'
  BY <1>9 DEF Keys!BeginEdit
<1>10. ASSUME NEW w \in Workers, Keys!SaveEdit(w) PROVE KeyInv'
  BY <1>10 DEF Keys!SaveEdit, Keys!Save
<1>11. CASE UNCHANGED Keys!vars
  BY <1>11 DEF Keys!vars
<1> QED
  BY <1>1, <1>2, <1>3, <1>4, <1>5, <1>6, <1>7, <1>8, <1>9, <1>10, <1>11 DEF Keys!Next

\* However many requests use, edit, revoke and delete a key at once, one that
\* arrives after a revocation is refused, unless an edit saved an older copy.
THEOREM RevokedKeysAreRefused == Keys!Spec => []RevokedIsRefused
<1>1. KeyInv => RevokedIsRefused
  BY DEF KeyInv
<1>2. QED
  BY <1>1, InitKeys, NextKeepsKeys, PTL DEF Keys!Spec

-------------------------------------------------------------------------------
(* LoginLock: the failures of one identity and its lock.                   *)

States == [count : Nat, until : Nat]

Logins ==
  [at : {"idle", "create", "password"}, alone : BOOLEAN]
    \cup [at : {"save"}, alone : BOOLEAN, outcome : Lock!Outcomes, copy : States]

LoginTypes ==
  /\ now \in Nat
  /\ states \in Seq(States)
  /\ login \in [Workers -> Logins]
  /\ streak \in [length : Nat, last : Nat]

\* Beside a login that met no other one there is none.
Alone ==
  \A w \in Workers :
    login[w] # Lock!Idle /\ login[w].alone =>
      \A v \in Workers \ {w} : login[v] = Lock!Idle

\* So what it has read still holds: there is no row, or the row is not locked,
\* or it is the copy.
AloneIsCurrent ==
  \A w \in Workers :
    login[w].alone =>
      /\ login[w].at = "create" => states = <<>>
      /\ login[w].at \in {"password", "save"} => states # <<>> /\ ~Lock!Locked(states[1])
      /\ login[w].at = "save" => login[w].copy = states[1]

\* A login that is about to save has found a row, and rows stay.
SavesARow ==
  \A w \in Workers : login[w].at = "save" => states # <<>>

\* The row counts at least the failures in a row.
StreakIsCounted ==
  streak.length > 0 => states # <<>> /\ states[1].count >= streak.length

LockInv ==
  /\ LoginTypes /\ Alone /\ AloneIsCurrent /\ SavesARow
  /\ StreakIsCounted /\ FailuresLock

LEMMA IdleLogin == Lock!Idle \in Logins
BY DEF Lock!Idle, Logins

\* What every login is ...
LEMMA LoginKinds ==
  ASSUME NEW x \in Logins
  PROVE  /\ x.alone \in BOOLEAN
         /\ x.at = "idle" \/ x # Lock!Idle
         /\ x.at = "save" => x.copy \in States
BY DEF Logins, Lock!Idle

\* ... when it has met another one ...
LEMMA MetLogin ==
  ASSUME NEW x \in Logins
  PROVE  /\ [x EXCEPT !.alone = FALSE] \in Logins
         /\ [x EXCEPT !.alone = FALSE].at = x.at
         /\ [x EXCEPT !.alone = FALSE].alone = FALSE
<1> DEFINE Saves == [at : {"save"}, alone : BOOLEAN, outcome : Lock!Outcomes, copy : States]
           Waits == [at : {"idle", "create", "password"}, alone : BOOLEAN]
<1>1. CASE x \in Waits
  <2>1. /\ [x EXCEPT !.alone = FALSE] \in Waits
        /\ [x EXCEPT !.alone = FALSE].at = x.at
        /\ [x EXCEPT !.alone = FALSE].alone = FALSE
    BY <1>1
  <2> QED
    BY <2>1 DEF Logins
<1>2. CASE x \in Saves
  <2>1. /\ [x EXCEPT !.alone = FALSE] \in Saves
        /\ [x EXCEPT !.alone = FALSE].at = x.at
        /\ [x EXCEPT !.alone = FALSE].alone = FALSE
    BY <1>2
  <2> QED
    BY <2>1 DEF Logins
<1> QED
  BY <1>1, <1>2 DEF Logins

\* ... and when it has got a row.
LEMMA FoundLogin ==
  ASSUME NEW x \in Logins, x.at = "create"
  PROVE  /\ [x EXCEPT !.at = "password"] \in Logins
         /\ [x EXCEPT !.at = "password"].at = "password"
         /\ [x EXCEPT !.at = "password"].alone = x.alone
<1>1. x \in [at : {"idle", "create", "password"}, alone : BOOLEAN]
  BY DEF Logins
<1> QED
  BY <1>1 DEF Logins

\* The first row and its columns.
LEMMA FirstRow ==
  ASSUME LoginTypes, states # <<>>
  PROVE  states[1] \in States /\ states[1].count \in Nat /\ states[1].until \in Nat
<1>1. states[1] \in States
  BY DEF LoginTypes
<1> QED
  BY <1>1 DEF States

\* A row is added behind the others.
LEMMA AddedRow ==
  ASSUME states \in Seq(States), NEW s \in States
  PROVE  /\ Append(states, s) \in Seq(States) /\ Append(states, s) # <<>>
         /\ states = <<>> => Append(states, s)[1] = s
         /\ states # <<>> => Append(states, s)[1] = states[1]
OBVIOUS

\* Before the first login there is nothing to be counted.
LEMMA InitLock == Lock!Init => LockInv
<1> SUFFICES ASSUME Lock!Init PROVE LockInv
  OBVIOUS
<1> USE DEF Lock!Init, Lock!Idle, Lock!NoStreak
<1>1. LoginTypes
  BY DEF LoginTypes, Logins
<1>2. Alone /\ AloneIsCurrent /\ SavesARow /\ StreakIsCounted
  BY DEF Alone, AloneIsCurrent, SavesARow, StreakIsCounted
<1>3. FailuresLock
  BY WorkspaceAssumption DEF FailuresLock, Lock!FailuresLock
<1> QED
  BY <1>1, <1>2, <1>3 DEF LockInv

\* A step that leaves the rows and the failures in a row alone leaves them right.
LEMMA LockStays ==
  ASSUME StreakIsCounted, FailuresLock, UNCHANGED <<states, streak>>
  PROVE  StreakIsCounted' /\ FailuresLock'
BY DEF StreakIsCounted, FailuresLock, Lock!FailuresLock

\* No step of a login, and no time that passes, breaks the invariant.
LEMMA NextKeepsLock == LockInv /\ [Lock!Next]_(Lock!vars) => LockInv'
<1> SUFFICES ASSUME LockInv, [Lock!Next]_(Lock!vars) PROVE LockInv'
  OBVIOUS
<1>a. /\ LoginTypes /\ Alone /\ AloneIsCurrent /\ SavesARow
      /\ StreakIsCounted /\ FailuresLock
  BY DEF LockInv
<1> USE <1>a DEF Lock!Idle
<1>1. CASE Lock!Tick
  <2>1. LoginTypes' /\ Alone' /\ SavesARow'
    BY <1>1 DEF Lock!Tick, LoginTypes, Alone, SavesARow
  <2>2. \A s \in States : ~Lock!Locked(s) => ~(s.until > now')
    BY <1>1 DEF Lock!Tick, LoginTypes, States, Lock!Locked
  <2>3. AloneIsCurrent'
    BY <1>1, <2>2 DEF Lock!Tick, LoginTypes, AloneIsCurrent, Lock!Locked
  <2> QED
    BY <1>1, <2>1, <2>3, LockStays DEF Lock!Tick, LockInv
<1>2. ASSUME NEW w \in Workers, Lock!BeginFirst(w) \/ Lock!Begin(w) PROVE LockInv'
  <2> USE <1>2 DEF Lock!BeginFirst, Lock!Begin
  <2>1. PICK at \in {"create", "password"} :
          /\ Lock!Arrive(w, at) /\ UNCHANGED <<now, states, streak>>
          /\ at = "create" => states = <<>>
          /\ at = "password" => states # <<>> /\ ~Lock!Locked(states[1])
    BY DEF LoginTypes
  <2>2. /\ login'[w] = [at |-> at, alone |-> Lock!Busy = {}]
        /\ \A v \in Workers \ {w} : login[v] # Lock!Idle => ~login'[v].alone
        /\ \A v \in Workers \ {w} : login[v] = Lock!Idle => login'[v] = login[v]
    BY <2>1, LoginKinds, MetLogin DEF Lock!Arrive, Lock!Busy, LoginTypes
  <2>3. LoginTypes'
    <3>1. [at |-> at, alone |-> Lock!Busy = {}] \in Logins
      BY DEF Logins
    <3>2. \A v \in Workers : login'[v] \in Logins
      BY <2>1, <3>1, MetLogin DEF Lock!Arrive, Lock!Busy, LoginTypes
    <3>3. login' \in [Workers -> Logins]
      BY <2>1, <3>2 DEF Lock!Arrive
    <3> QED
      BY <2>1, <3>3 DEF LoginTypes
  <2>4. Alone'
    <3>1. login'[w].alone => \A v \in Workers \ {w} : login'[v] = Lock!Idle
      <4>1. CASE Lock!Busy = {}
        BY <2>2, <4>1 DEF Lock!Busy
      <4>2. CASE Lock!Busy # {}
        <5>1. login'[w].alone = (Lock!Busy = {})
          BY <2>2
        <5> QED
          BY <4>2, <5>1
      <4> QED
        BY <4>1, <4>2
    <3>2. \A v \in Workers \ {w} : login'[v].alone => login'[v] = Lock!Idle
      BY <2>2
    <3> QED
      BY <3>1, <3>2 DEF Alone
  <2>5. AloneIsCurrent' /\ SavesARow'
    <3>1. \A v \in Workers : login'[v].at = "save" => v # w /\ login[v].at = "save"
      BY <2>1, <2>2, MetLogin DEF Lock!Arrive, Lock!Busy, LoginTypes
    <3>2. \A v \in Workers \ {w} : login'[v].alone => login'[v] = Lock!Idle
      BY <2>2
    <3> QED
      BY <2>1, <2>2, <3>1, <3>2 DEF AloneIsCurrent, SavesARow, Lock!Locked
  <2> QED
    BY <2>1, <2>3, <2>4, <2>5, LockStays DEF LockInv
<1>3. ASSUME NEW w \in Workers, Lock!Create(w) PROVE LockInv'
  <2> USE <1>3 DEF Lock!Create, Lock!Goto, Lock!Reply
  <2>1. UNCHANGED <<now, streak>> /\ login' \in [Workers -> Logins]
    <3>1. login[w] \in Logins /\ login[w].at = "create"
      BY DEF LoginTypes
    <3>2. [login[w] EXCEPT !.at = "password"] \in Logins /\ Lock!Idle \in Logins
      BY <3>1, IdleLogin, FoundLogin
    <3> QED
      BY <3>2 DEF LoginTypes
  <2>2. \/ UNCHANGED states /\ states # <<>>
        \/ states' = Append(states, Lock!Fresh)
    OBVIOUS
  <2>3. /\ states' \in Seq(States) /\ states' # <<>>
        /\ states = <<>> => states' = states \/ states'[1] = Lock!Fresh
        /\ states # <<>> => states'[1] = states[1]
    <3>1. Lock!Fresh \in States
      BY DEF Lock!Fresh, States
    <3>2. states \in Seq(States)
      BY DEF LoginTypes
    <3>3. CASE UNCHANGED states /\ states # <<>>
      BY <3>2, <3>3
    <3>4. CASE states' = Append(states, Lock!Fresh)
      BY <3>1, <3>2, <3>4, AddedRow
    <3> QED
      BY <2>2, <3>3, <3>4
  <2>4. /\ \A v \in Workers \ {w} : login'[v] = login[v]
        /\ login'[w].at \in {"idle", "password"} /\ login'[w].alone \in BOOLEAN
        /\ login'[w].at = "idle" => login'[w] = Lock!Idle
        /\ login'[w] # Lock!Idle => login'[w].alone = login[w].alone
    <3>1. login[w] \in Logins /\ \A v \in Workers \ {w} : login'[v] = login[v]
      BY DEF LoginTypes
    <3>2. \/ login'[w] = Lock!Idle
          \/ login'[w] = [login[w] EXCEPT !.at = "password"]
      BY DEF LoginTypes
    <3> QED
      <4>1. login[w].at = "create" /\ login[w].alone \in BOOLEAN
        BY <3>1, LoginKinds
      <4>2. CASE login'[w] = Lock!Idle
        BY <3>1, <4>2
      <4>3. CASE login'[w] = [login[w] EXCEPT !.at = "password"]
        <5>1. login'[w].at = "password" /\ login'[w].alone = login[w].alone
          BY <3>1, <4>1, <4>3, FoundLogin
        <5> QED
          BY <3>1, <4>1, <5>1
      <4> QED
        BY <3>2, <4>2, <4>3
  <2>5. LoginTypes' /\ Alone' /\ SavesARow'
    BY <2>1, <2>3, <2>4 DEF LoginTypes, Alone, SavesARow
  <2>6. AloneIsCurrent'
    <3>1. \A v \in Workers \ {w} : login'[v].alone => login'[v] = Lock!Idle
      BY <2>4 DEF Alone
    <3>2. ASSUME login'[w].alone
          PROVE  /\ login'[w].at \notin {"create", "save"}
                 /\ login'[w].at = "password" => states' # <<>> /\ ~(states'[1].until > now')
      <4>1. CASE login'[w] = Lock!Idle
        BY <4>1
      <4>2. CASE login'[w] # Lock!Idle
        <5>1. states = <<>>
          BY <2>4, <3>2, <4>2 DEF AloneIsCurrent
        <5>2. states' = Append(states, Lock!Fresh)
          BY <5>1
        <5>3. states'[1].until = 0
          BY <5>1, <5>2 DEF Lock!Fresh
        <5> QED
          BY <2>1, <2>3, <2>4, <5>3 DEF LoginTypes
      <4> QED
        BY <4>1, <4>2
    <3> QED
      BY <3>1, <3>2 DEF AloneIsCurrent, Lock!Locked
  <2>7. StreakIsCounted' /\ FailuresLock'
    BY <2>1, <2>3, WorkspaceAssumption DEF StreakIsCounted, FailuresLock, Lock!FailuresLock, LoginTypes
  <2> QED
    BY <2>5, <2>6, <2>7 DEF LockInv
<1>4. ASSUME NEW w \in Workers, NEW outcome \in Lock!Outcomes, Lock!ReadState(w, outcome)
      PROVE LockInv'
  <2> USE <1>4 DEF Lock!ReadState, Lock!Reply
  <2>1. UNCHANGED <<now, states, streak>>
    OBVIOUS
  <2>2. /\ \A v \in Workers \ {w} : login'[v] = login[v]
        /\ \/ login'[w] = Lock!Idle
           \/ /\ login'[w] = [at |-> "save", alone |-> login[w].alone,
                              outcome |-> outcome, copy |-> states[1]]
              /\ Len(states) = 1
    BY DEF LoginTypes
  <2>3. LoginTypes'
    <3>1. Len(states) = 1 => states[1] \in States
      BY FirstRow
    <3>2. login[w] \in Logins /\ login[w].alone \in BOOLEAN
      BY LoginKinds DEF LoginTypes
    <3>3. login'[w] = Lock!Idle => login'[w] \in Logins
      BY IdleLogin
    <3>4. login'[w] # Lock!Idle => login'[w] \in Logins
      BY <2>2, <3>1, <3>2 DEF Logins
    <3>5. login'[w] \in Logins
      BY <3>3, <3>4
    <3>6. login' \in [Workers -> Logins]
      BY <3>5 DEF LoginTypes
    <3> QED
      BY <2>1, <3>6 DEF LoginTypes
  <2>4. Alone' /\ SavesARow'
    BY <2>1, <2>2 DEF Alone, SavesARow
  <2>5. AloneIsCurrent'
    BY <2>1, <2>2 DEF AloneIsCurrent, Lock!Locked
  <2> QED
    BY <2>1, <2>3, <2>4, <2>5, LockStays DEF LockInv
<1>5. ASSUME NEW w \in Workers, Lock!SaveFailure(w) \/ Lock!SaveSuccess(w) PROVE LockInv'
  <2> USE <1>5 DEF Lock!SaveFailure, Lock!SaveSuccess, Lock!Reply
  <2>1. PICK s \in States : states' = [states EXCEPT ![1] = s]
    <3>1. Lock!Fresh \in States
      BY DEF Lock!Fresh, States
    <3>2. login[w].copy \in States /\ now \in Nat
      BY LoginKinds DEF LoginTypes
    <3>3. Lock!Counted(login[w].copy) \in States
      BY <3>2, WorkspaceAssumption DEF Lock!Counted, States
    <3> QED
      BY <3>1, <3>3
  <2>2. states # <<>> /\ states' \in Seq(States) /\ states' # <<>> /\ states'[1] = s
    BY <2>1 DEF SavesARow, LoginTypes
  <2>3. /\ \A v \in Workers \ {w} : login'[v] = login[v]
        /\ login'[w] = Lock!Idle /\ UNCHANGED now
    BY DEF LoginTypes
  <2>4. LoginTypes'
    <3>1. streak' \in [length : Nat, last : Nat]
      BY DEF LoginTypes, Lock!NoStreak
    <3>2. login' \in [Workers -> Logins]
      BY IdleLogin DEF LoginTypes
    <3> QED
      BY <2>2, <2>3, <3>1, <3>2 DEF LoginTypes
  <2>5. Alone' /\ SavesARow'
    BY <2>2, <2>3 DEF Alone, SavesARow
  <2>6. AloneIsCurrent'
    BY <2>3 DEF Alone, AloneIsCurrent
  <2>7. ASSUME streak' # Lock!NoStreak
        PROVE  /\ Lock!SaveFailure(w) /\ login[w].alone
               /\ states'[1] = Lock!Counted(states[1])
               /\ streak' = [length |-> streak.length + 1, last |-> now]
    BY <2>2, <2>7 DEF AloneIsCurrent, LoginTypes
  <2>8. StreakIsCounted'
    <3>1. CASE streak' = Lock!NoStreak
      BY <3>1 DEF StreakIsCounted, Lock!NoStreak
    <3>2. CASE streak' # Lock!NoStreak
      <4>1. states'[1].count = states[1].count + 1 /\ states[1].count \in Nat
        BY <2>2, <2>7, <3>2, FirstRow DEF Lock!Counted
      <4> QED
        BY <2>2, <2>7, <3>2, <4>1 DEF StreakIsCounted, LoginTypes
    <3> QED
      BY <3>1, <3>2
  <2>9. FailuresLock'
    <3>1. CASE streak' = Lock!NoStreak
      BY <3>1, WorkspaceAssumption DEF FailuresLock, Lock!FailuresLock, Lock!NoStreak
    <3>2. CASE streak' # Lock!NoStreak
      <4>1. streak.length + 1 >= MaxFailures => states[1].count + 1 >= MaxFailures
        <5>1. streak.length \in Nat /\ states[1].count \in Nat
          BY <2>2, FirstRow DEF LoginTypes
        <5> QED
          BY <5>1, WorkspaceAssumption DEF StreakIsCounted
      <4> QED
        BY <2>7, <3>2, <4>1 DEF FailuresLock, Lock!FailuresLock, Lock!Counted
    <3> QED
      BY <3>1, <3>2
  <2> QED
    BY <2>4, <2>5, <2>6, <2>8, <2>9 DEF LockInv
<1>6. ASSUME NEW w \in Workers, Lock!SaveCodeMissing(w) \/ Lock!Crash(w) PROVE LockInv'
  <2> USE <1>6 DEF Lock!SaveCodeMissing, Lock!Crash, Lock!Reply
  <2>1. UNCHANGED <<now, states, streak>> /\ login' = [login EXCEPT ![w] = Lock!Idle]
    OBVIOUS
  <2>2. LoginTypes' /\ Alone' /\ SavesARow'
    BY <2>1 DEF LoginTypes, Logins, Alone, SavesARow
  <2>3. AloneIsCurrent'
    BY <2>1 DEF AloneIsCurrent, LoginTypes, Lock!Locked
  <2> QED
    BY <2>1, <2>2, <2>3, LockStays DEF LockInv
<1>7. CASE UNCHANGED Lock!vars
  BY <1>7 DEF Lock!vars, LockInv, LoginTypes, Alone, AloneIsCurrent, SavesARow,
     StreakIsCounted, FailuresLock, Lock!FailuresLock, Lock!Locked
<1> QED
  BY <1>1, <1>2, <1>3, <1>4, <1>5, <1>6, <1>7 DEF Lock!Next

\* Failures one after another lock the identity for the whole time from the
\* last of them, however many logins overlapped, lost their counts or crashed
\* before, and with however many rows.
THEOREM FailuresAlwaysLock == Lock!Spec => []FailuresLock
<1>1. LockInv => FailuresLock
  BY DEF LockInv
<1>2. QED
  BY <1>1, InitLock, NextKeepsLock, PTL DEF Lock!Spec

\* A login that met no other one takes no lock off before its time.
THEOREM LocksEndByTime == Lock!Spec => LockEndsByTime
<1> DEFINE TakesOff ==
      \A w \in Workers :
        /\ Len(states) = 1 /\ Lock!Locked(states[1])
        /\ states'[1].until < states[1].until
        /\ login'[w] # login[w]
        => ~login[w].alone
<1>1. LockInv /\ [Lock!Next]_(Lock!vars) => TakesOff
  <2> SUFFICES ASSUME LockInv, [Lock!Next]_(Lock!vars), NEW w \in Workers,
                      Len(states) = 1, Lock!Locked(states[1]),
                      states'[1].until < states[1].until, login'[w] # login[w]
               PROVE  ~login[w].alone
    OBVIOUS
  <2>1. LoginTypes /\ AloneIsCurrent
    BY DEF LockInv
  <2>2. states' # states
    BY <2>1, FirstRow
  <2>3. PICK v \in Workers : Lock!Create(v) \/ Lock!SaveFailure(v) \/ Lock!SaveSuccess(v)
    BY <2>2 DEF Lock!Next, Lock!vars, Lock!Tick, Lock!BeginFirst, Lock!Begin,
       Lock!ReadState, Lock!SaveCodeMissing, Lock!Crash
  <2>4. v = w
    BY <2>1, <2>3 DEF Lock!Create, Lock!SaveFailure, Lock!SaveSuccess, Lock!Goto,
       Lock!Reply, LoginTypes
  <2>5. login[w].at \in {"create", "save"}
    BY <2>3, <2>4 DEF Lock!Create, Lock!SaveFailure, Lock!SaveSuccess
  <2> QED
    BY <2>1, <2>5 DEF AloneIsCurrent, Lock!Locked
<1>2. LockInv /\ [Lock!Next]_(Lock!vars) => [TakesOff]_(Lock!vars)
  BY <1>1
<1>3. QED
  BY <1>2, InitLock, NextKeepsLock, PTL DEF Lock!Spec, LockEndsByTime, Lock!LockEndsByTime

-------------------------------------------------------------------------------
(* SecondFactor: the row of an account and the copies its requests hold.   *)

AccountRows == [password : Nat, secret : Nat, enabled : BOOLEAN]

AccountRequests ==
  [at : {"idle"}] \cup [at : {"authenticated", "view", "edit"}, copy : AccountRows]

AccountTypes ==
  /\ row \in AccountRows \cup {Account!Deleted}
  /\ accountRequest \in [Workers -> AccountRequests]
  /\ made \in [password : Nat, secret : Nat]

\* A code of r's secret was accepted, or r had it when another one's was.
Accepted(r) == r.enabled => r.secret \in confirmed \cup crossed

\* An edit may save its copy at any time.
EditsAreConfirmed ==
  \A w \in Workers : accountRequest[w].at = "edit" => Accepted(accountRequest[w].copy)

AccountInv == AccountTypes /\ EditsAreConfirmed /\ EnabledIsConfirmed /\ PasswordStands

\* A row is none that is gone.
LEMMA RowIsNotGone == \A r \in AccountRows : r # Account!Deleted
BY DEF AccountRows, Account!Deleted

\* A row keeps its type whichever of its columns is saved.
LEMMA NewFactor ==
  ASSUME NEW r \in AccountRows, NEW n \in Nat
  PROVE  /\ [r EXCEPT !.secret = n, !.enabled = FALSE] \in AccountRows
         /\ [r EXCEPT !.enabled = FALSE, !.secret = Account!NoSecret] \in AccountRows
         /\ [r EXCEPT !.enabled = TRUE] \in AccountRows
         /\ [r EXCEPT !.password = n] \in AccountRows
BY DEF AccountRows, Account!NoSecret

\* A new account has no second factor.
LEMMA InitAccount == Account!Init => AccountInv
<1> SUFFICES ASSUME Account!Init PROVE AccountInv
  OBVIOUS
<1> USE DEF Account!Init, Account!Idle, Account!NoSecret
<1>1. AccountTypes
  BY DEF AccountTypes, AccountRows, AccountRequests
<1>2. EditsAreConfirmed
  BY DEF EditsAreConfirmed
<1>3. EnabledIsConfirmed /\ PasswordStands
  BY DEF EnabledIsConfirmed, Account!EnabledIsConfirmed, PasswordStands,
     Account!PasswordStands
<1> QED
  BY <1>1, <1>2, <1>3 DEF AccountInv

\* No step of the owner's requests, of an edit or of a deletion breaks the invariant.
LEMMA NextKeepsAccount == AccountInv /\ [Account!Next]_(Account!vars) => AccountInv'
<1> SUFFICES ASSUME AccountInv, [Account!Next]_(Account!vars) PROVE AccountInv'
  OBVIOUS
<1>a. AccountTypes /\ EditsAreConfirmed /\ EnabledIsConfirmed /\ PasswordStands
  BY DEF AccountInv
<1> USE <1>a DEF Account!Goto, Account!Reply, Account!Idle, Account!Copy, Account!At,
                 Accepted, EnabledIsConfirmed, Account!EnabledIsConfirmed,
                 PasswordStands, Account!PasswordStands
<1>1. CASE Account!Delete
  BY <1>1 DEF Account!Delete, AccountInv, AccountTypes, EditsAreConfirmed
<1>2. ASSUME NEW w \in Workers,
             \/ Account!Authenticate(w) \/ Account!Touch(w) \/ Account!Raise(w)
             \/ Account!BeginEdit(w)
      PROVE AccountInv'
  <2> USE <1>2 DEF Account!Authenticate, Account!Touch, Account!Raise, Account!BeginEdit
  <2>1. UNCHANGED <<row, made, confirmed, crossed, restored>>
    OBVIOUS
  <2>2. PICK r \in AccountRequests :
          /\ accountRequest' = [accountRequest EXCEPT ![w] = r]
          /\ r.at = "edit" => r.copy = row /\ row # Account!Deleted
    <3>1. accountRequest[w] \in AccountRequests /\ row \in AccountRows \cup {Account!Deleted}
      BY DEF AccountTypes
    <3>2. accountRequest[w].at = "authenticated" => accountRequest[w].copy \in AccountRows
      BY <3>1 DEF AccountRequests
    <3> QED
      BY <3>1, <3>2 DEF AccountRequests
  <2>3. AccountTypes' /\ EditsAreConfirmed'
    BY <2>1, <2>2 DEF AccountTypes, EditsAreConfirmed
  <2> QED
    BY <2>1, <2>3 DEF AccountInv
<1>3. ASSUME NEW w \in Workers,
             \/ Account!Setup(w) \/ Account!Verify(w) \/ Account!Disable(w)
             \/ Account!ChangePassword(w)
      PROVE AccountInv'
  <2> USE <1>3 DEF Account!Setup, Account!Verify, Account!Disable, Account!ChangePassword
  <2>1. row \in AccountRows /\ accountRequest[w].copy \in AccountRows
    BY DEF AccountTypes, AccountRequests
  <2>2. AccountTypes'
    <3>a. made \in [password : Nat, secret : Nat]
      BY DEF AccountTypes
    <3>1. row' \in AccountRows /\ made' \in [password : Nat, secret : Nat]
      <4>1. CASE Account!Setup(w)
        <5>1. made' \in [password : Nat, secret : Nat]
          BY <3>a, <4>1
        <5>2. row' = [row EXCEPT !.secret = made'.secret, !.enabled = FALSE]
          BY <4>1
        <5>3. made'.secret \in Nat
          BY <5>1
        <5> QED
          BY <2>1, <5>1, <5>2, <5>3, NewFactor
      <4>2. CASE Account!ChangePassword(w)
        <5>1. made' \in [password : Nat, secret : Nat]
          BY <3>a, <4>2
        <5>2. row' = [row EXCEPT !.password = made'.password]
          BY <4>2
        <5>3. made'.password \in Nat
          BY <5>1
        <5> QED
          BY <2>1, <5>1, <5>2, <5>3, NewFactor
      <4>3. CASE Account!Verify(w) \/ Account!Disable(w)
        <5>1. UNCHANGED made
          BY <4>3
        <5>2. \/ row' = [row EXCEPT !.enabled = TRUE]
              \/ row' = [row EXCEPT !.enabled = FALSE, !.secret = Account!NoSecret]
          BY <4>3
        <5> QED
          BY <2>1, <3>a, <5>1, <5>2, NewFactor
      <4> QED
        BY <1>3, <4>1, <4>2, <4>3
    <3>2. accountRequest' \in [Workers -> AccountRequests]
      BY DEF AccountTypes, AccountRequests
    <3> QED
      BY <3>1, <3>2 DEF AccountTypes
  <2>3. EditsAreConfirmed'
    BY DEF EditsAreConfirmed, AccountTypes
  <2>4. EnabledIsConfirmed'
    BY <2>1, RowIsNotGone DEF AccountRows
  <2>5. PasswordStands'
    BY <2>1, RowIsNotGone DEF AccountRows, AccountTypes
  <2> QED
    BY <2>2, <2>3, <2>4, <2>5 DEF AccountInv
<1>4. ASSUME NEW w \in Workers, Account!SaveEdit(w) PROVE AccountInv'
  <2> USE <1>4 DEF Account!SaveEdit
  <2>1. accountRequest[w].copy \in AccountRows
    BY DEF AccountTypes, AccountRequests
  <2>2. AccountTypes' /\ EditsAreConfirmed'
    BY <2>1 DEF AccountTypes, AccountRequests, EditsAreConfirmed
  <2>3. EnabledIsConfirmed' /\ PasswordStands'
    BY DEF EditsAreConfirmed
  <2> QED
    BY <2>2, <2>3 DEF AccountInv
<1>5. CASE UNCHANGED Account!vars
  BY <1>5 DEF Account!vars, AccountInv, AccountTypes, EditsAreConfirmed
<1> QED
  BY <1>1, <1>2, <1>3, <1>4, <1>5 DEF Account!Next

\* A second factor in force was confirmed with a code, or another one was while
\* it was in the row: however setups, confirmations and edits of the staff
\* overlap, nobody is asked for codes of a secret he has never shown one of.
THEOREM FactorsAreConfirmed == Account!Spec => []EnabledIsConfirmed
<1>1. AccountInv => EnabledIsConfirmed
  BY DEF AccountInv
<1>2. QED
  BY <1>1, InitAccount, NextKeepsAccount, PTL DEF Account!Spec

\* The password in the row is the one set last: of all that save the row only
\* an edit of the staff brings an older one back.
THEOREM PasswordsStand == Account!Spec => []PasswordStands
<1>1. AccountInv => PasswordStands
  BY DEF AccountInv
<1>2. QED
  BY <1>1, InitAccount, NextKeepsAccount, PTL DEF Account!Spec
===============================================================================
