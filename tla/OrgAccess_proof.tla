--------------------------- MODULE OrgAccess_proof ---------------------------
(* Theorems about OrgAccess, for any users, plans and number of requests.    *)
EXTENDS OrgAccess, FiniteSetTheorems, SequenceTheorems, TLAPS

InviteRows == [user : Users, role : Roles, accepted : BOOLEAN, expired : BOOLEAN]
RequestRows ==
  [pc : {"idle", "allowed", "checked"}, op : Ops, plan : Plans, target : MembershipRows]

LEMMA RoleNames == DOMAIN RoleRank = Roles \cup {"none"}
  BY DEF RoleRank, Roles

LEMMA KindNames == DOMAIN MinimumRole = {"invite", "change", "remove", "delete", "accept"}
  BY DEF MinimumRole

LEMMA Constants ==
  /\ IsFiniteSet(Users) /\ Creator \in Users
  /\ IsFiniteSet(Requests) /\ Cardinality(Requests) \in Nat /\ Cardinality(Requests) >= 1
  /\ Granted \subseteq Roles /\ "free" \in Plans
  /\ \A p \in Plans : MaxMembers[p] \in Nat /\ MaxMembers[p] >= 1
  /\ MaxInvites \in Nat /\ MaxFaults \in Nat
  BY UserAssumption, RequestAssumption, GrantAssumption, PlanAssumption, BoundAssumption,
     FS_CardinalityType, FS_EmptySet

\* What is counted is finite.
LEMMA Finite ==
  ASSUME TypeOK
  PROVE  /\ IsFiniteSet(Members) /\ IsFiniteSet(Owners) /\ IsFiniteSet(Pending) /\ IsFiniteSet(Accepting)
         /\ Cardinality(Members) \in Nat /\ Cardinality(Pending) \in Nat
         /\ Cardinality(Accepting) \in Nat /\ Cardinality(Accepting) <= Cardinality(Requests)
<1>1. Members \subseteq Users /\ Owners \subseteq Users /\ Accepting \subseteq Requests
  BY DEF Members, Owners, Accepting
<1>2. Pending \subseteq 1 .. Len(invites) /\ Len(invites) \in Nat
  BY LenProperties DEF Pending, TypeOK
<1>3. IsFiniteSet(1 .. Len(invites))
  BY <1>2, FS_Interval
<1> QED
  BY <1>1, <1>2, <1>3, Constants, FS_Subset, FS_CardinalityType

-----------------------------------------------------------------------------
(* Types.                                                                    *)

LEMMA IdleTyped == Idle \in RequestRows
<1>1. NoOp \in Ops
  BY Constants, KindNames DEF NoOp, Op, Ops, Roles
<1>2. Nobody \in MembershipRows
  BY RoleNames DEF Nobody, MembershipRows
<1> QED
  BY <1>1, <1>2, Constants DEF Idle, RequestRows

LEMMA OperationsTyped ==
  ASSUME TypeOK, NEW op \in Operations
  PROVE  op \in Ops /\ (op.kind = "accept" => op.user = op.by /\ op.invite \in DOMAIN invites)
<1>1. DOMAIN invites \subseteq 0 .. MaxInvites
  BY Constants, LenProperties DEF TypeOK
<1>2. Creator \in Users /\ Granted \subseteq Roles
  BY Constants
<1>3. CASE op \in {Op(kind, by, u, r, 0) : kind \in {"invite", "change"}, by \in Users, u \in Users, r \in Granted}
  BY <1>2, <1>3, KindNames, Constants DEF Op, Ops
<1>4. CASE op \in {Op("accept", by, by, "viewer", i) : by \in Users, i \in DOMAIN invites}
  BY <1>1, <1>2, <1>4, KindNames DEF Op, Ops, Roles
<1>5. CASE op \in {Op("remove", by, u, "viewer", 0) : by \in Users, u \in Users}
  BY <1>2, <1>5, KindNames, Constants DEF Op, Ops, Roles
<1>6. CASE op \in {Op("delete", by, by, "viewer", 0) : by \in Users}
  BY <1>2, <1>6, KindNames, Constants DEF Op, Ops, Roles
<1> QED
  BY <1>3, <1>4, <1>5, <1>6 DEF Operations

LEMMA InitTyped == Init => TypeOK
<1> SUFFICES ASSUME Init PROVE TypeOK
  OBVIOUS
<1>1. membership \in [Users -> MembershipRows]
  BY RoleNames DEF Init, MembershipRows, Roles, Nobody
<1>2. invites \in Seq(InviteRows) /\ Len(invites) <= MaxInvites
  BY EmptySeq, Constants DEF Init
<1>3. request \in [Requests -> RequestRows]
  BY IdleTyped DEF Init
<1> QED
  BY <1>1, <1>2, <1>3, Constants DEF Init, TypeOK, InviteRows, RequestRows

\* The membership that a request goes by.
LEMMA TargetTyped ==
  ASSUME TypeOK, NEW c \in Requests
  PROVE  Target(request[c]) \in MembershipRows
  BY DEF TypeOK, Target, Ops

LEMMA ArriveTyped ==
  ASSUME TypeOK, NEW c \in Requests, NEW op \in Operations, Arrive(c, op)
  PROVE  TypeOK'
<1>1. op \in Ops /\ membership[op.user] \in MembershipRows
  BY OperationsTyped DEF TypeOK, Ops
<1>2. [pc |-> "allowed", op |-> op, plan |-> plan, target |-> membership[op.user]] \in RequestRows
  BY <1>1 DEF TypeOK, RequestRows
<1>3. request' \in [Requests -> RequestRows]
  BY <1>2 DEF TypeOK, Arrive, RequestRows
<1>4. spent' \in 0 .. MaxFaults /\ odd' \subseteq {"overlap", "downgrade"}
  BY Constants DEF TypeOK, Arrive, Happens
<1> QED
  BY <1>3, <1>4 DEF TypeOK, Arrive, RequestRows, Members

LEMMA CheckTyped ==
  ASSUME TypeOK, NEW c \in Requests, Check(c)
  PROVE  TypeOK'
<1>1. request[c] \in RequestRows /\ Target(request[c]) \in MembershipRows
  BY TargetTyped DEF TypeOK, RequestRows
<1>2. [request[c] EXCEPT !.pc = "checked", !.target = Target(request[c])] \in RequestRows
  BY <1>1 DEF RequestRows
<1>3. request' = [request EXCEPT ![c] = [request[c] EXCEPT !.pc = "checked", !.target = Target(request[c])]]
  BY DEF Check
<1>4. request' \in [Requests -> RequestRows]
  BY <1>2, <1>3 DEF TypeOK, RequestRows
<1> QED
  BY <1>4 DEF TypeOK, Check, RequestRows, Members

\* A request that is over leaves nothing behind.
LEMMA IdleAgain ==
  ASSUME TypeOK, NEW c \in Requests, request' = [request EXCEPT ![c] = Idle]
  PROVE  request' \in [Requests -> RequestRows]
  BY IdleTyped DEF TypeOK, RequestRows

LEMMA InviteTyped ==
  ASSUME TypeOK, NEW c \in Requests, CommitInvite(c)
  PROVE  TypeOK'
<1> DEFINE row == [user |-> request[c].op.user, role |-> request[c].op.role, accepted |-> FALSE, expired |-> FALSE]
<1>1. row \in InviteRows
  BY DEF TypeOK, InviteRows, Ops
<1>2. invites' = Append(invites, row) /\ Len(invites) < MaxInvites
  BY DEF CommitInvite
<1>3. invites \in Seq(InviteRows)
  BY DEF TypeOK, InviteRows
<1> HIDE DEF row
<1>4. invites' \in Seq(InviteRows) /\ Len(invites') = Len(invites) + 1 /\ Len(invites) \in Nat
  BY <1>1, <1>2, <1>3, AppendProperties, LenProperties
<1>5. request' \in [Requests -> RequestRows]
  BY IdleAgain DEF CommitInvite, Commits
<1> QED
  BY <1>2, <1>4, <1>5, Constants DEF TypeOK, CommitInvite, Commits, InviteRows, RequestRows, Members

\* What a committed change of one membership leaves.
LEMMA MembershipTyped ==
  ASSUME TypeOK, NEW u \in Users, NEW r \in DOMAIN RoleRank, NEW n \in Nat
  PROVE  [membership EXCEPT ![u] = [role |-> r, row |-> n]] \in [Users -> MembershipRows]
  BY DEF TypeOK, MembershipRows

\* An accepted invitation is the row that it was, but for the mark.
LEMMA Accepted ==
  ASSUME TypeOK, NEW i \in DOMAIN invites,
         NEW new, new = [invites EXCEPT ![i].accepted = TRUE]
  PROVE  /\ new \in Seq(InviteRows) /\ Len(new) = Len(invites)
         /\ \A j \in DOMAIN invites : new[j] = IF j = i THEN [invites[j] EXCEPT !.accepted = TRUE] ELSE invites[j]
<1>1. invites \in Seq(InviteRows) /\ i \in 1 .. Len(invites) /\ DOMAIN invites = 1 .. Len(invites)
  BY LenProperties DEF TypeOK, InviteRows
<1>2. [invites[i] EXCEPT !.accepted = TRUE] \in InviteRows
  <2>1. invites[i] \in InviteRows
    BY <1>1, ElementOfSeq
  <2> QED
    BY <2>1 DEF InviteRows
<1>3. new = [invites EXCEPT ![i] = [invites[i] EXCEPT !.accepted = TRUE]]
  OBVIOUS
<1>4. /\ new \in Seq(InviteRows) /\ Len(new) = Len(invites)
      /\ \A j \in 1 .. Len(invites) : new[j] = IF j = i THEN [invites[i] EXCEPT !.accepted = TRUE] ELSE invites[j]
  BY <1>1, <1>2, <1>3, ExceptSeq
<1> QED
  BY <1>1, <1>4

LEMMA AcceptTyped ==
  ASSUME TypeOK, AcceptInv, NEW c \in Requests, CommitAccept(c)
  PROVE  TypeOK'
<1> DEFINE op == request[c].op
<1>1. exists /\ op.kind = "accept" /\ op.invite \in DOMAIN invites /\ op.user \in Users
  BY DEF CommitAccept, Commits, AcceptInv, TypeOK, Ops
<1>2. invites' \in Seq(InviteRows) /\ Len(invites') = Len(invites)
  <2>1. invites' = [invites EXCEPT ![op.invite].accepted = TRUE]
    BY DEF CommitAccept
  <2> HIDE DEF op
  <2> QED
    BY <1>1, <2>1, Accepted
<1>3. request' \in [Requests -> RequestRows]
  BY IdleAgain DEF CommitAccept, Commits
<1>4. invites[op.invite].role \in Roles
  <2>1. invites \in Seq(InviteRows) /\ op.invite \in 1 .. Len(invites)
    BY <1>1, LenProperties DEF TypeOK, InviteRows
  <2>2. invites[op.invite] \in InviteRows
    BY <2>1, ElementOfSeq
  <2> QED
    BY <2>2 DEF InviteRows
<1>5. membership[op.user].row + 1 \in Nat
  BY <1>1 DEF TypeOK, MembershipRows
<1>6. membership' \in [Users -> MembershipRows]
  <2>1. CASE Joins(c)
    <3>1. membership' = [membership EXCEPT ![op.user] =
             [role |-> invites[op.invite].role, row |-> membership[op.user].row + 1]]
      BY <2>1 DEF CommitAccept
    <3> QED
      BY <1>1, <1>4, <1>5, <3>1, RoleNames, MembershipTyped
  <2>2. CASE ~Joins(c)
    BY <2>2 DEF CommitAccept, TypeOK
  <2> QED
    BY <2>1, <2>2
<1> QED
  BY <1>1, <1>2, <1>3, <1>6 DEF TypeOK, CommitAccept, Commits, InviteRows, RequestRows

LEMMA ChangeTyped ==
  ASSUME TypeOK, NEW c \in Requests, CommitChange(c) \/ CommitRemove(c)
  PROVE  TypeOK'
<1> DEFINE u == request[c].op.user
<1>1. u \in Users /\ request[c].op.role \in DOMAIN RoleRank /\ "none" \in DOMAIN RoleRank
  BY RoleNames DEF TypeOK, Ops
<1>2. membership[u] \in MembershipRows
  BY <1>1 DEF TypeOK
<1>3. membership' \in [Users -> MembershipRows]
  <2>1. PICK r \in DOMAIN RoleRank : membership' = [membership EXCEPT ![u] = [membership[u] EXCEPT !.role = r]]
    BY <1>1 DEF CommitChange, CommitRemove
  <2>2. [membership[u] EXCEPT !.role = r] \in MembershipRows
    BY <1>2 DEF MembershipRows
  <2> QED
    BY <1>1, <2>1, <2>2 DEF TypeOK
<1>4. request' \in [Requests -> RequestRows]
  BY IdleAgain DEF CommitChange, CommitRemove, Commits
<1> QED
  BY <1>3, <1>4 DEF TypeOK, CommitChange, CommitRemove, Commits, RequestRows

\* Nobody is left of an organisation that is deleted.
LEMMA DeleteTyped ==
  ASSUME TypeOK, NEW c \in Requests, CommitDelete(c)
  PROVE  TypeOK' /\ Members' = {} /\ Pending' = {}
<1>1. membership' \in [Users -> MembershipRows]
  <2>1. \A u \in Users : [membership[u] EXCEPT !.role = "none"] \in MembershipRows
    BY RoleNames DEF TypeOK, MembershipRows
  <2> QED
    BY <2>1 DEF CommitDelete, Cascade
<1>2. Members' = {}
  BY DEF CommitDelete, Cascade, TypeOK, MembershipRows, Members
<1>3. invites' = <<>> /\ <<>> \in Seq(InviteRows) /\ Len(invites') <= MaxInvites
  BY EmptySeq, Constants DEF CommitDelete, Cascade
<1>4. request' \in [Requests -> RequestRows]
  BY IdleAgain DEF CommitDelete, Commits
<1>5. Pending' = {}
  BY <1>3 DEF Pending
<1> QED
  BY <1>1, <1>2, <1>3, <1>4, <1>5 DEF TypeOK, CommitDelete, Commits, InviteRows, RequestRows

LEMMA ExpireTyped ==
  ASSUME TypeOK, NEW i \in DOMAIN invites, Expire(i)
  PROVE  /\ TypeOK' /\ DOMAIN invites' = DOMAIN invites
         /\ \A j \in DOMAIN invites : invites'[j] = IF j = i THEN [invites[j] EXCEPT !.expired = TRUE] ELSE invites[j]
<1>1. invites \in Seq(InviteRows) /\ i \in 1 .. Len(invites) /\ DOMAIN invites = 1 .. Len(invites)
  BY LenProperties DEF TypeOK, InviteRows
<1>2. [invites[i] EXCEPT !.expired = TRUE] \in InviteRows
  <2>1. invites[i] \in InviteRows
    BY <1>1, ElementOfSeq
  <2> QED
    BY <2>1 DEF InviteRows
<1>3. invites' = [invites EXCEPT ![i] = [invites[i] EXCEPT !.expired = TRUE]]
  BY DEF Expire
<1>4. /\ invites' \in Seq(InviteRows) /\ Len(invites') = Len(invites)
      /\ \A j \in 1 .. Len(invites) : invites'[j] = IF j = i THEN [invites[i] EXCEPT !.expired = TRUE] ELSE invites[j]
  BY <1>1, <1>2, <1>3, ExceptSeq
<1>5. DOMAIN invites' = DOMAIN invites
  BY <1>1, <1>4, LenProperties
<1>6. exists
  BY <1>1 DEF TypeOK
<1> QED
  BY <1>1, <1>4, <1>5, <1>6 DEF TypeOK, Expire, InviteRows, RequestRows

LEMMA PlanTyped ==
  ASSUME TypeOK, NEW p \in Plans, SetPlan(p)
  PROVE  TypeOK'
<1>1. spent' \in 0 .. MaxFaults /\ odd' \subseteq {"overlap", "downgrade"}
  BY Constants DEF TypeOK, SetPlan, Happens
<1> QED
  BY <1>1 DEF TypeOK, SetPlan, Members

LEMMA AcceptKept ==
  ASSUME TypeOK, AcceptInv, Next
  PROVE  AcceptInv'
<1>1. ASSUME NEW c \in Requests, NEW op \in Operations, Arrive(c, op) PROVE AcceptInv'
  BY <1>1, OperationsTyped DEF Arrive, AcceptInv, TypeOK
<1>2. ASSUME NEW c \in Requests, Check(c) PROVE AcceptInv'
  BY <1>2 DEF Check, AcceptInv, TypeOK, RequestRows
<1>3. ASSUME NEW c \in Requests, request' = [request EXCEPT ![c] = Idle],
             exists' => exists /\ DOMAIN invites \subseteq DOMAIN invites'
      PROVE  AcceptInv'
  BY <1>3 DEF AcceptInv, TypeOK, Idle, NoOp, Op
<1>4. ASSUME NEW c \in Requests, RequestFails(c) PROVE AcceptInv'
  BY <1>3, <1>4 DEF RequestFails
<1>5. ASSUME NEW c \in Requests, CommitInvite(c) PROVE AcceptInv'
  <2>1. DOMAIN invites \subseteq DOMAIN invites'
    <3>1. invites \in Seq(InviteRows) /\ invites' \in Seq(InviteRows) /\ Len(invites') = Len(invites) + 1
      BY <1>5, InviteTyped DEF TypeOK, InviteRows, CommitInvite
    <3> QED
      BY <3>1, LenProperties
  <2> QED
    BY <1>3, <1>5, <2>1 DEF CommitInvite, Commits
<1>6. ASSUME NEW c \in Requests, CommitAccept(c) PROVE AcceptInv'
  BY <1>3, <1>6 DEF CommitAccept, Commits
<1>7. ASSUME NEW c \in Requests, CommitChange(c) \/ CommitRemove(c) PROVE AcceptInv'
  BY <1>3, <1>7 DEF CommitChange, CommitRemove, Commits
<1>8. ASSUME NEW c \in Requests, CommitDelete(c) PROVE AcceptInv'
  BY <1>3, <1>8 DEF CommitDelete, Commits
<1>9. ASSUME NEW i \in DOMAIN invites, Expire(i) PROVE AcceptInv'
  BY <1>9, ExpireTyped DEF Expire, AcceptInv
<1>10. ASSUME NEW p \in Plans, SetPlan(p) PROVE AcceptInv'
  BY <1>10 DEF SetPlan, AcceptInv
<1> QED
  BY <1>1, <1>2, <1>4, <1>5, <1>6, <1>7, <1>8, <1>9, <1>10 DEF Next

LEMMA TypeKept ==
  ASSUME TypeOK, AcceptInv, Next
  PROVE  TypeOK'
<1>1. ASSUME NEW c \in Requests, RequestFails(c) PROVE TypeOK'
  <2>1. request' \in [Requests -> RequestRows]
    BY <1>1, IdleAgain DEF RequestFails
  <2> QED
    BY <1>1, <2>1 DEF TypeOK, RequestFails, RequestRows, Members
<1> QED
  BY <1>1, ArriveTyped, CheckTyped, InviteTyped, AcceptTyped, ChangeTyped, DeleteTyped, ExpireTyped, PlanTyped DEF Next

LEMMA Stutter == UNCHANGED vars /\ TypeOK /\ AcceptInv => TypeOK' /\ AcceptInv'
  BY DEF vars, TypeOK, AcceptInv, Members

\* Every variable has its type, and nothing outlives the organisation.
LEMMA TypeAndAccept == Spec => [](TypeOK /\ AcceptInv)
<1>1. Init => TypeOK /\ AcceptInv
  BY InitTyped DEF Init, AcceptInv, Idle, NoOp, Op
<1>2. TypeOK /\ AcceptInv /\ [Next]_vars => (TypeOK /\ AcceptInv)'
  BY TypeKept, AcceptKept, Stutter
<1> QED
  BY <1>1, <1>2, PTL DEF Spec

\* Every variable has its type, and nothing outlives the organisation that is
\* deleted.
THEOREM TypeCorrect == Spec => []TypeOK
  BY TypeAndAccept, PTL

-----------------------------------------------------------------------------
(* Who is counted after a step.                                              *)

Same == Members' = Members /\ Owners' = Owners

LEMMA MembersAccept ==
  ASSUME TypeOK, AcceptInv, NEW c \in Requests, CommitAccept(c)
  PROVE  /\ Joins(c) => request[c].op.user \notin Members /\ Members' = Members \cup {request[c].op.user}
                        /\ Owners \subseteq Owners'
         /\ ~Joins(c) => Same
<1> DEFINE op == request[c].op
<1>1. op.user \in Users /\ op.kind = "accept" /\ op.invite \in DOMAIN invites
  BY DEF CommitAccept, Commits, AcceptInv, TypeOK, Ops
<1>2. invites[op.invite].role \in Roles
  <2>1. invites \in Seq(InviteRows) /\ op.invite \in 1 .. Len(invites)
    BY <1>1, LenProperties DEF TypeOK, InviteRows
  <2>2. invites[op.invite] \in InviteRows
    BY <2>1, ElementOfSeq
  <2> QED
    BY <2>2 DEF InviteRows
<1>3. CASE Joins(c)
  <2>1. op.user \notin Members
    BY <1>3 DEF CommitAccept
  <2>2. \A u \in Users : u # op.user => membership'[u] = membership[u]
    BY <1>3 DEF CommitAccept, TypeOK
  <2>3. membership'[op.user].role = invites[op.invite].role
    BY <1>1, <1>3 DEF CommitAccept, TypeOK
  <2> QED
    BY <1>1, <1>2, <1>3, <2>1, <2>2, <2>3 DEF Members, Owners, Roles
<1>4. CASE ~Joins(c)
  BY <1>4 DEF CommitAccept, Members, Owners, Same
<1> QED
  BY <1>3, <1>4

LEMMA MembersChange ==
  ASSUME TypeOK, NEW c \in Requests, CommitChange(c)
  PROVE  Members' = Members /\ Owners \ {request[c].op.user} \subseteq Owners'
<1> DEFINE u == request[c].op.user
<1>1. u \in Members /\ u \in Users /\ request[c].op.role \in Roles
  BY DEF CommitChange, SameRow, TypeOK, Ops
<1>2. \A v \in Users : v # u => membership'[v] = membership[v]
  BY DEF CommitChange, TypeOK
<1>3. membership'[u].role = request[c].op.role
  BY <1>1 DEF CommitChange, TypeOK, MembershipRows
<1> QED
  BY <1>1, <1>2, <1>3 DEF Members, Owners, Roles

LEMMA MembersRemove ==
  ASSUME TypeOK, NEW c \in Requests, CommitRemove(c)
  PROVE  Members' = Members \ {request[c].op.user} /\ Owners' = Owners \ {request[c].op.user}
<1> DEFINE u == request[c].op.user
<1>1. u \in Users
  BY DEF TypeOK, Ops
<1>2. \A v \in Users : v # u => membership'[v] = membership[v]
  BY DEF CommitRemove, TypeOK
<1>3. membership'[u].role = "none"
  BY <1>1 DEF CommitRemove, TypeOK, MembershipRows
<1> QED
  BY <1>1, <1>2, <1>3 DEF Members, Owners

-----------------------------------------------------------------------------
(* How far overlapping requests can pass the limit.                          *)

\* A check that lets somebody in has found a free seat.
LEMMA RoomFound ==
  ASSUME TypeOK, AcceptInv, NEW c \in Requests, Check(c),
         request[c].op.kind = "accept", Joins(c)'
  PROVE  Cardinality(Members) < MaxMembers[plan] /\ request[c].op.invite \in Pending
<1> DEFINE op == request[c].op
<1>1. request'[c].target = membership[op.user] /\ op.user = op.by /\ op.user \in Users
  BY DEF Check, Target, AcceptInv, TypeOK, Ops
<1>2. op.by \notin Members
  BY <1>1 DEF Joins, Members
<1> QED
  BY <1>1, <1>2 DEF Check, Passes, MayAccept, RoomToAccept, member_count

LEMMA SoftSeatsKept ==
  ASSUME TypeOK, AcceptInv, SoftSeats, TypeOK', Next
  PROVE  SoftSeats'
<1> SUFFICES ASSUME "downgrade" \notin odd'
             PROVE  Cardinality(Members') + Cardinality(Accepting') <= MaxMembers[plan'] + Cardinality(Requests) - 1
  BY DEF SoftSeats
<1>a. /\ IsFiniteSet(Members) /\ IsFiniteSet(Accepting) /\ IsFiniteSet(Members') /\ IsFiniteSet(Accepting')
      /\ Cardinality(Members) \in Nat /\ Cardinality(Accepting) \in Nat
      /\ Cardinality(Members') \in Nat /\ Cardinality(Accepting') \in Nat
      /\ Cardinality(Accepting') <= Cardinality(Requests)
  <2>1. /\ IsFiniteSet(Members) /\ IsFiniteSet(Accepting)
        /\ Cardinality(Members) \in Nat /\ Cardinality(Accepting) \in Nat
    BY Finite
  <2>2. Members' \subseteq Users /\ Accepting' \subseteq Requests
    BY DEF Members, Accepting
  <2> QED
    BY <2>1, <2>2, Constants, FS_Subset, FS_CardinalityType
<1>b. plan \in Plans /\ plan' \in Plans /\ MaxMembers[plan] \in Nat /\ MaxMembers[plan'] \in Nat /\ MaxMembers[plan'] >= 1
  BY Constants DEF TypeOK
<1>c. Cardinality(Requests) \in Nat /\ Cardinality(Requests) >= 1
  BY Constants
<1>d. "downgrade" \notin odd
  BY DEF Next, Arrive, Check, RequestFails, CommitInvite, CommitAccept, CommitChange, CommitRemove, CommitDelete,
         Commits, Expire, SetPlan, Happens
\* Most steps let nobody in.
<1>e. ASSUME Members' \subseteq Members, Accepting' \subseteq Accepting, plan' = plan
      PROVE  Cardinality(Members') + Cardinality(Accepting') <= MaxMembers[plan'] + Cardinality(Requests) - 1
  <2>1. Cardinality(Members') <= Cardinality(Members) /\ Cardinality(Accepting') <= Cardinality(Accepting)
    BY <1>a, <1>e, FS_Subset
  <2> QED
    BY <1>a, <1>b, <1>c, <1>d, <1>e, <2>1 DEF SoftSeats
<1>1. ASSUME NEW c \in Requests, NEW op \in Operations, Arrive(c, op)
      PROVE  Members' \subseteq Members /\ Accepting' \subseteq Accepting /\ plan' = plan
  BY <1>1 DEF Arrive, Members, Accepting, Joins, TypeOK
<1>2. ASSUME NEW c \in Requests, request' = [request EXCEPT ![c] = Idle]
      PROVE  Accepting' \subseteq Accepting \ {c}
  BY <1>2 DEF Accepting, Joins, TypeOK, Idle
<1>3. ASSUME NEW c \in Requests, Check(c)
      PROVE  Cardinality(Members') + Cardinality(Accepting') <= MaxMembers[plan'] + Cardinality(Requests) - 1
  <2>1. Members' = Members /\ plan' = plan /\ Accepting' \subseteq Accepting \cup {c}
    BY <1>3 DEF Check, Members, Accepting, Joins, TypeOK
  <2>2. CASE c \notin Accepting'
    BY <1>e, <2>1, <2>2
  <2>3. CASE c \in Accepting'
    <3>1. request[c].op.kind = "accept" /\ Joins(c)'
      BY <1>3, <2>3 DEF Accepting, Check, TypeOK
    <3>2. Cardinality(Members) < MaxMembers[plan]
      BY <1>3, <3>1, RoomFound
    <3> QED
      BY <1>a, <1>b, <1>c, <2>1, <3>2
  <2> QED
    BY <2>2, <2>3
<1>4. ASSUME NEW c \in Requests, CommitAccept(c)
      PROVE  Cardinality(Members') + Cardinality(Accepting') <= MaxMembers[plan'] + Cardinality(Requests) - 1
  <2>1. Accepting' \subseteq Accepting \ {c} /\ plan' = plan
    BY <1>2, <1>4 DEF CommitAccept, Commits
  <2>2. CASE Joins(c)
    <3>1. c \in Accepting
      BY <1>4, <2>2 DEF Accepting, CommitAccept, Commits
    <3>2. Cardinality(Accepting \ {c}) = Cardinality(Accepting) - 1 /\ IsFiniteSet(Accepting \ {c})
      BY <1>a, <3>1, FS_RemoveElement
    <3>3. Cardinality(Accepting') <= Cardinality(Accepting) - 1
      BY <2>1, <3>2, FS_Subset
    <3>4. Cardinality(Members') = Cardinality(Members) + 1
      <4>1. request[c].op.user \notin Members /\ Members' = Members \cup {request[c].op.user}
        BY <1>4, <2>2, MembersAccept
      <4> QED
        BY <1>a, <4>1, FS_AddElement
    <3> QED
      BY <1>a, <1>b, <1>c, <1>d, <2>1, <3>3, <3>4 DEF SoftSeats
  <2>3. CASE ~Joins(c)
    BY <1>4, <1>e, <2>1, <2>3, MembersAccept DEF Same
  <2> QED
    BY <2>2, <2>3
<1>5. ASSUME NEW c \in Requests,
             RequestFails(c) \/ CommitInvite(c) \/ CommitChange(c) \/ CommitRemove(c) \/ CommitDelete(c)
      PROVE  Members' \subseteq Members /\ Accepting' \subseteq Accepting /\ plan' = plan
  <2>1. request' = [request EXCEPT ![c] = Idle] /\ plan' = plan
    BY <1>5 DEF RequestFails, CommitInvite, CommitChange, CommitRemove, CommitDelete, Commits
  <2>2. Members' \subseteq Members
    <3>1. CASE RequestFails(c) \/ CommitInvite(c)
      BY <3>1 DEF RequestFails, CommitInvite, Members
    <3>2. CASE CommitChange(c) \/ CommitRemove(c) \/ CommitDelete(c)
      BY <3>2, MembersChange, MembersRemove, DeleteTyped
    <3> QED
      BY <1>5, <3>1, <3>2
  <2> QED
    BY <1>2, <2>1, <2>2
<1>6. ASSUME NEW i \in DOMAIN invites, Expire(i)
      PROVE  Members' \subseteq Members /\ Accepting' \subseteq Accepting /\ plan' = plan
  BY <1>6 DEF Expire, Members, Accepting, Joins
<1>7. ASSUME NEW p \in Plans, SetPlan(p)
      PROVE  Cardinality(Members') + Cardinality(Accepting') <= MaxMembers[plan'] + Cardinality(Requests) - 1
  <2>1. Members' = Members /\ Accepting' = Accepting
    BY <1>7 DEF SetPlan, Members, Accepting, Joins
  <2>2. MaxMembers[plan'] >= MaxMembers[plan]
    BY <1>7, <1>b DEF SetPlan, Happens
  <2> QED
    BY <1>a, <1>b, <1>c, <1>d, <2>1, <2>2 DEF SoftSeats
<1> QED
  BY <1>1, <1>3, <1>4, <1>5, <1>6, <1>7, <1>e DEF Next

\* Overlapping requests pass the limit of seats by one member for each of them
\* but the first and no more, however many there are.
THEOREM SeatsAreSoft == Spec => []SoftSeats
<1>1. Init => SoftSeats
  <2> SUFFICES ASSUME Init PROVE Cardinality(Members) + Cardinality(Accepting) <= MaxMembers[plan] + Cardinality(Requests) - 1
    BY DEF SoftSeats
  <2>1. Members = {Creator} /\ Accepting = {}
    BY Constants DEF Init, Members, Accepting, Idle, Nobody
  <2>2. Cardinality(Members) = 1 /\ Cardinality(Accepting) = 0
    BY <2>1, FS_Singleton, FS_EmptySet
  <2> QED
    BY <2>2, Constants DEF Init
<1>2. TypeOK /\ AcceptInv /\ SoftSeats /\ TypeOK' /\ [Next]_vars => SoftSeats'
  <2>1. UNCHANGED vars /\ SoftSeats => SoftSeats'
    BY DEF vars, SoftSeats, Members, Accepting, Joins
  <2> QED
    BY <2>1, SoftSeatsKept
<1> QED
  BY <1>1, <1>2, TypeAndAccept, PTL DEF Spec

-----------------------------------------------------------------------------
(* The last owner.                                                           *)

\* While requests do not overlap the one that commits is the only one.
LEMMA SoloKept ==
  ASSUME TypeOK, AcceptInv, SoloInv, TypeOK', Next
  PROVE  SoloInv'
<1> SUFFICES ASSUME "overlap" \notin odd'
             PROVE  /\ \A c, d \in Busy' : c = d
                    /\ exists' => \A c \in Busy' : request'[c].target = membership'[request'[c].op.user]
  BY DEF SoloInv
<1>a. "overlap" \notin odd
  BY DEF Next, Arrive, Check, RequestFails, CommitInvite, CommitAccept, CommitChange, CommitRemove, CommitDelete,
         Commits, Expire, SetPlan, Happens
<1>b. /\ \A c, d \in Busy : c = d
      /\ exists => \A c \in Busy : request[c].target = membership[request[c].op.user]
  BY <1>a DEF SoloInv
<1>1. ASSUME NEW c \in Requests, NEW op \in Operations, Arrive(c, op)
      PROVE  SoloInv'
  <2>1. Busy = {}
    BY <1>1 DEF Arrive, Happens
  <2>2. Busy' \subseteq {c}
    BY <1>1, <2>1 DEF Arrive, Busy, TypeOK
  <2>3. request'[c].target = membership'[request'[c].op.user]
    BY <1>1 DEF Arrive, TypeOK
  <2> QED
    BY <2>2, <2>3 DEF SoloInv
<1>2. ASSUME NEW c \in Requests, Check(c)
      PROVE  SoloInv'
  <2>1. Busy' = Busy /\ \A d \in Busy : d = c
    BY <1>2, <1>b DEF Check, Busy, TypeOK
  <2>2. request'[c].op = request[c].op /\ membership' = membership
    BY <1>2 DEF Check, TypeOK
  <2>3. c \in Busy /\ exists
    BY <1>2 DEF Check, Busy
  <2>4. request'[c].target = Target(request[c])
    BY <1>2 DEF Check, TypeOK
  <2>5. request[c].target = membership[request[c].op.user]
    BY <1>b, <2>3
  <2>6. Target(request[c]) = membership[request[c].op.user]
    BY <2>5 DEF Target
  <2> QED
    BY <2>1, <2>2, <2>4, <2>6 DEF SoloInv
<1>3. ASSUME NEW c \in Requests, c \in Busy, request' = [request EXCEPT ![c] = Idle]
      PROVE  SoloInv'
  <2>1. Busy' = {}
    BY <1>3, <1>b DEF Busy, TypeOK, Idle
  <2> QED
    BY <2>1 DEF SoloInv
<1>4. ASSUME NEW c \in Requests,
             RequestFails(c) \/ CommitInvite(c) \/ CommitAccept(c) \/ CommitChange(c) \/ CommitRemove(c) \/ CommitDelete(c)
      PROVE  SoloInv'
  <2>1. c \in Busy /\ request' = [request EXCEPT ![c] = Idle]
    BY <1>4 DEF RequestFails, CommitInvite, CommitAccept, CommitChange, CommitRemove, CommitDelete, Commits, Busy
  <2> QED
    BY <1>3, <2>1
<1>5. ASSUME NEW i \in DOMAIN invites, Expire(i)
      PROVE  SoloInv'
  BY <1>5, <1>b DEF Expire, SoloInv, Busy
<1>6. ASSUME NEW p \in Plans, SetPlan(p)
      PROVE  SoloInv'
  BY <1>6, <1>b DEF SetPlan, SoloInv, Busy
<1> QED
  BY <1>1, <1>2, <1>4, <1>5, <1>6 DEF Next, SoloInv

\* Of several owners one remains when another goes.
LEMMA OneOfMany ==
  ASSUME NEW S, IsFiniteSet(S), Cardinality(S) > 1, NEW x
  PROVE  S \ {x} # {}
<1>1. CASE S = {}
  BY <1>1, FS_EmptySet
<1>2. CASE S = {x}
  BY <1>2, FS_Singleton
<1> QED
  BY <1>1, <1>2

LEMMA LeaveKept ==
  ASSUME TypeOK, AcceptInv, SoloInv, LeaveInv, TypeOK', Next
  PROVE  LeaveInv'
<1> SUFFICES ASSUME exists', "overlap" \notin odd'
             PROVE  /\ Owners' # {}
                    /\ (\A c \in Busy : request[c].pc = "checked" /\ request[c].op.kind \in {"change", "remove"}
                                         => MayLeave(request[c].target))'
  BY DEF LeaveInv, OwnerRemains
<1>a. exists /\ "overlap" \notin odd
  <2>1. ASSUME NEW c \in Requests, NEW op \in Operations, Arrive(c, op)
        PROVE  exists /\ "overlap" \notin odd
    BY <2>1 DEF Arrive, Happens
  <2>2. ASSUME NEW c \in Requests, Check(c) \/ RequestFails(c)
        PROVE  exists /\ "overlap" \notin odd
    BY <2>2 DEF Check, RequestFails
  <2>3. ASSUME NEW c \in Requests, CommitInvite(c) \/ CommitAccept(c) \/ CommitChange(c) \/ CommitRemove(c) \/ CommitDelete(c)
        PROVE  exists /\ "overlap" \notin odd
    BY <2>3 DEF CommitInvite, CommitAccept, CommitChange, CommitRemove, CommitDelete, Commits
  <2>4. ASSUME NEW i \in DOMAIN invites, Expire(i)
        PROVE  exists /\ "overlap" \notin odd
    BY <2>4 DEF Expire
  <2>5. ASSUME NEW p \in Plans, SetPlan(p)
        PROVE  exists /\ "overlap" \notin odd
    BY <2>5 DEF SetPlan, Happens
  <2> QED
    BY <2>1, <2>2, <2>3, <2>4, <2>5 DEF Next
<1>b. /\ Owners # {}
      /\ \A c \in Busy : request[c].pc = "checked" /\ request[c].op.kind \in {"change", "remove"} => MayLeave(request[c].target)
      /\ \A c, d \in Busy : c = d
      /\ \A c \in Busy : request[c].target = membership[request[c].op.user]
  BY <1>a DEF LeaveInv, OwnerRemains, SoloInv
<1>1. ASSUME NEW c \in Requests, NEW op \in Operations, Arrive(c, op)
      PROVE  LeaveInv'
  <2>1. Busy = {}
    BY <1>1 DEF Arrive, Happens
  <2>2. \A d \in Busy' : request'[d].pc = "allowed"
    BY <1>1, <2>1 DEF Arrive, Busy, TypeOK
  <2>3. Owners' = Owners
    BY <1>1 DEF Arrive, Owners
  <2> QED
    BY <1>b, <2>2, <2>3 DEF LeaveInv, OwnerRemains
<1>2. ASSUME NEW c \in Requests, Check(c)
      PROVE  LeaveInv'
  <2>1. Owners' = Owners
    BY <1>2 DEF Check, Owners
  <2>2. \A d \in Busy' : d = c
    BY <1>2, <1>b DEF Check, Busy, TypeOK
  <2>3. request'[c].op = request[c].op /\ request'[c].target = Target(request[c])
    BY <1>2 DEF Check, TypeOK
  <2>4. request[c].op.kind \in {"change", "remove"} => MayLeave(Target(request[c]))
    BY <1>2 DEF Check, Passes
  <2> QED
    BY <1>b, <2>1, <2>2, <2>3, <2>4 DEF LeaveInv, OwnerRemains, MayLeave
\* A request that is over is the only one.
<1>3. ASSUME NEW c \in Requests, c \in Busy, request' = [request EXCEPT ![c] = Idle], Owners' # {}
      PROVE  LeaveInv'
  <2>1. Busy' = {}
    BY <1>3, <1>b DEF Busy, TypeOK, Idle
  <2> QED
    BY <1>3, <2>1 DEF LeaveInv, OwnerRemains
<1>4. ASSUME NEW c \in Requests, RequestFails(c) \/ CommitInvite(c)
      PROVE  LeaveInv'
  <2>1. c \in Busy /\ request' = [request EXCEPT ![c] = Idle] /\ Owners' = Owners
    BY <1>4 DEF RequestFails, CommitInvite, Commits, Busy, Owners
  <2> QED
    BY <1>3, <1>b, <2>1
<1>5. ASSUME NEW c \in Requests, CommitAccept(c)
      PROVE  LeaveInv'
  <2>1. c \in Busy /\ request' = [request EXCEPT ![c] = Idle]
    BY <1>5 DEF CommitAccept, Commits, Busy
  <2>2. Owners' # {}
    BY <1>5, <1>b, MembersAccept DEF Same
  <2> QED
    BY <1>3, <2>1, <2>2
<1>6. ASSUME NEW c \in Requests, CommitChange(c) \/ CommitRemove(c)
      PROVE  LeaveInv'
  <2> DEFINE u == request[c].op.user
  <2>1. c \in Busy /\ request' = [request EXCEPT ![c] = Idle]
    BY <1>6 DEF CommitChange, CommitRemove, Commits, Busy
  <2>2. MayLeave(membership[u])
    <3>1. request[c].pc = "checked" /\ request[c].op.kind \in {"change", "remove"}
      BY <1>6 DEF CommitChange, CommitRemove, Commits
    <3> QED
      BY <1>b, <2>1, <3>1
  <2>3. Owners \ {u} # {}
    <3>1. CASE u \in Owners
      BY <2>2, <3>1, Finite, OneOfMany DEF MayLeave, Owners
    <3>2. CASE u \notin Owners
      BY <1>b, <3>2
    <3> QED
      BY <3>1, <3>2
  <2>4. Owners \ {u} \subseteq Owners'
    BY <1>6, MembersChange, MembersRemove
  <2> QED
    BY <1>3, <2>1, <2>3, <2>4
<1>7. ASSUME NEW i \in DOMAIN invites, Expire(i)
      PROVE  LeaveInv'
  BY <1>7, <1>b DEF Expire, LeaveInv, OwnerRemains, Busy, Owners, MayLeave
<1>8. ASSUME NEW p \in Plans, SetPlan(p)
      PROVE  LeaveInv'
  BY <1>8, <1>b DEF SetPlan, LeaveInv, OwnerRemains, Busy, Owners, MayLeave
<1>9. ASSUME NEW c \in Requests, CommitDelete(c)
      PROVE  LeaveInv'
  BY <1>9 DEF CommitDelete
<1> QED
  BY <1>1, <1>2, <1>4, <1>5, <1>6, <1>7, <1>8, <1>9 DEF Next, LeaveInv, OwnerRemains

LEMMA SoloHolds == Spec => [](SoloInv /\ LeaveInv)
<1>1. Init => SoloInv /\ LeaveInv
  <2> SUFFICES ASSUME Init PROVE Busy = {} /\ Owners # {}
    BY DEF SoloInv, LeaveInv, OwnerRemains
  <2> QED
    BY Constants DEF Init, Busy, Owners, Idle
<1>2. TypeOK /\ AcceptInv /\ SoloInv /\ LeaveInv /\ TypeOK' /\ [Next]_vars => (SoloInv /\ LeaveInv)'
  <2>1. UNCHANGED vars /\ SoloInv /\ LeaveInv => (SoloInv /\ LeaveInv)'
    BY DEF vars, SoloInv, LeaveInv, OwnerRemains, Busy, Owners, MayLeave
  <2> QED
    BY <2>1, SoloKept, LeaveKept
<1> QED
  BY <1>1, <1>2, TypeAndAccept, PTL DEF Spec

\* While requests do not overlap an organisation keeps an owner.
THEOREM OwnerStays == Spec => []OwnerRemains
  BY SoloHolds, PTL DEF LeaveInv

-----------------------------------------------------------------------------
(* The seats, while requests do not overlap.                                 *)

Given(c) ==
  /\ MaxMembers[request[c].plan] <= MaxMembers[plan]
  /\ request[c].pc = "checked" /\ request[c].op.kind = "invite" => HeldSeats < MaxMembers[plan]
  /\ c \in Accepting => request[c].op.invite \in Pending \/ HeldSeats < MaxMembers[plan]

\* Counts after a step.
LEMMA Counts ==
  ASSUME TypeOK, TypeOK'
  PROVE  /\ Cardinality(Members) \in Nat /\ Cardinality(Members') \in Nat
         /\ Cardinality(Pending) \in Nat /\ Cardinality(Pending') \in Nat
         /\ Members' \subseteq Members => Cardinality(Members') <= Cardinality(Members)
         /\ Pending' \subseteq Pending => Cardinality(Pending') <= Cardinality(Pending)
<1>1. IsFiniteSet(Members) /\ IsFiniteSet(Pending)
  BY Finite
<1>2. IsFiniteSet(Members') /\ IsFiniteSet(Pending')
  <2>1. Members' \subseteq Users
    BY DEF Members
  <2>2. Pending' \subseteq 1 .. Len(invites') /\ Len(invites') \in Nat
    BY LenProperties DEF Pending, TypeOK
  <2>3. IsFiniteSet(1 .. Len(invites'))
    BY <2>2, FS_Interval
  <2> QED
    BY <2>1, <2>2, <2>3, Constants, FS_Subset
<1> QED
  BY <1>1, <1>2, FS_Subset, FS_CardinalityType

\* A new invitation takes one seat.
LEMMA PendingInvite ==
  ASSUME TypeOK, NEW c \in Requests, CommitInvite(c)
  PROVE  Pending' = Pending \cup {Len(invites) + 1} /\ Cardinality(Pending') = Cardinality(Pending) + 1
<1> DEFINE row == [user |-> request[c].op.user, role |-> request[c].op.role, accepted |-> FALSE, expired |-> FALSE]
<1>1. row \in InviteRows /\ ~row.accepted /\ ~row.expired
  BY DEF TypeOK, InviteRows, Ops
<1>2. invites \in Seq(InviteRows) /\ invites' = Append(invites, row)
  BY DEF TypeOK, InviteRows, CommitInvite
<1> HIDE DEF row
<1>3. /\ DOMAIN invites = 1 .. Len(invites) /\ Len(invites) \in Nat
      /\ DOMAIN invites' = 1 .. Len(invites) + 1
      /\ \A i \in 1 .. Len(invites) : invites'[i] = invites[i]
      /\ invites'[Len(invites) + 1] = row
  BY <1>1, <1>2, AppendProperties, LenProperties
<1>4. Pending' = Pending \cup {Len(invites) + 1}
  BY <1>1, <1>3 DEF Pending
<1>5. Len(invites) + 1 \notin Pending
  BY <1>3 DEF Pending
<1> QED
  BY <1>4, <1>5, Finite, FS_AddElement

\* An accepted invitation gives its seat back, and takes no other.
LEMMA PendingAccept ==
  ASSUME TypeOK, AcceptInv, NEW c \in Requests, CommitAccept(c)
  PROVE  Pending' = Pending \ {request[c].op.invite}
<1> DEFINE i == request[c].op.invite
<1>1. i \in DOMAIN invites /\ invites' = [invites EXCEPT ![i].accepted = TRUE]
  BY DEF CommitAccept, Commits, AcceptInv
<1>2. \A j \in DOMAIN invites : invites[j] \in InviteRows
  <2>1. invites \in Seq(InviteRows)
    BY DEF TypeOK, InviteRows
  <2> QED
    BY <2>1, ElementOfSeq, LenProperties
<1> HIDE DEF i
<1>3. /\ DOMAIN invites' = DOMAIN invites
      /\ \A j \in DOMAIN invites : invites'[j] = IF j = i THEN [invites[j] EXCEPT !.accepted = TRUE] ELSE invites[j]
  BY <1>1, Accepted
<1>4. invites'[i].accepted = TRUE
  BY <1>1, <1>2, <1>3 DEF InviteRows
<1>5. \A j \in DOMAIN invites : j # i => invites'[j] = invites[j]
  BY <1>3
<1>6. Pending' = Pending \ {i}
  BY <1>3, <1>4, <1>5 DEF Pending
<1> QED
  BY <1>6 DEF i

\* An invitation that expires gives its seat back.
LEMMA PendingExpire ==
  ASSUME TypeOK, NEW i \in DOMAIN invites, Expire(i)
  PROVE  Pending' = Pending \ {i}
<1>1. \A j \in DOMAIN invites : invites[j] \in InviteRows
  <2>1. invites \in Seq(InviteRows)
    BY DEF TypeOK, InviteRows
  <2> QED
    BY <2>1, ElementOfSeq, LenProperties
<1>2. /\ DOMAIN invites' = DOMAIN invites
      /\ \A j \in DOMAIN invites : invites'[j] = IF j = i THEN [invites[j] EXCEPT !.expired = TRUE] ELSE invites[j]
  BY ExpireTyped
<1>3. invites'[i].expired = TRUE
  BY <1>1, <1>2 DEF InviteRows
<1>4. \A j \in DOMAIN invites : j # i => invites'[j] = invites[j]
  BY <1>2
<1> QED
  BY <1>2, <1>3, <1>4 DEF Pending

LEMMA SeatKept ==
  ASSUME TypeOK, AcceptInv, SoloInv, SeatInv, TypeOK', Next
  PROVE  SeatInv'
<1> SUFFICES ASSUME odd' = {}
             PROVE  (HeldSeats <= MaxMembers[plan] /\ \A c \in Busy : Given(c))'
  BY DEF SeatInv, SeatsHeld, Given
<1>a. odd = {}
  BY DEF Next, Arrive, Check, RequestFails, CommitInvite, CommitAccept, CommitChange, CommitRemove, CommitDelete,
         Commits, Expire, SetPlan, Happens
<1>b. /\ HeldSeats <= MaxMembers[plan] /\ HeldSeats \in Nat
      /\ \A c \in Busy : Given(c)
      /\ \A c, d \in Busy : c = d
  BY <1>a, Counts DEF SeatInv, SeatsHeld, SoloInv, Given, HeldSeats
<1>c. /\ plan \in Plans /\ plan' \in Plans /\ \A p \in Plans : MaxMembers[p] \in Nat
      /\ \A c \in Requests : request[c].plan \in Plans /\ request'[c].plan \in Plans
      /\ HeldSeats' \in Nat
  BY Constants, Counts DEF TypeOK, HeldSeats
<1>d. ASSUME Members' \subseteq Members, Pending' \subseteq Pending
      PROVE  HeldSeats' <= HeldSeats
  BY <1>d, Counts DEF HeldSeats
<1>1. ASSUME NEW c \in Requests, NEW op \in Operations, Arrive(c, op)
      PROVE  (HeldSeats <= MaxMembers[plan] /\ \A d \in Busy : Given(d))'
  <2>1. Members' = Members /\ Pending' = Pending /\ plan' = plan
    BY <1>1 DEF Arrive, Members, Pending
  <2>2. Busy = {}
    BY <1>1 DEF Arrive, Happens
  <2>3. \A d \in Busy' : d = c /\ request'[d].pc = "allowed" /\ request'[d].plan = plan
    BY <1>1, <2>2 DEF Arrive, Busy, TypeOK
  <2>4. \A d \in Busy' : Given(d)'
    BY <1>c, <2>1, <2>3 DEF Given, Accepting
  <2> QED
    BY <1>b, <2>1, <2>4 DEF HeldSeats
<1>2. ASSUME NEW c \in Requests, Check(c)
      PROVE  (HeldSeats <= MaxMembers[plan] /\ \A d \in Busy : Given(d))'
  <2>1. Members' = Members /\ Pending' = Pending /\ plan' = plan
    BY <1>2 DEF Check, Members, Pending
  <2>2. HeldSeats' = HeldSeats
    BY <2>1 DEF HeldSeats
  <2>3. c \in Busy /\ Busy' = Busy
    BY <1>2 DEF Check, Busy, TypeOK
  <2>4. request'[c].op = request[c].op /\ request'[c].plan = request[c].plan
    BY <1>2 DEF Check, TypeOK
  <2>5. MaxMembers[request[c].plan] <= MaxMembers[plan]
    BY <1>b, <2>3 DEF Given
  <2>6. request[c].op.kind = "invite" => HeldSeats < MaxMembers[plan]
    <3>1. request[c].op.kind = "invite" => HeldSeats < MaxMembers[request[c].plan]
      BY <1>2 DEF Check, Passes, RoomToInvite, HeldSeats, member_count
    <3> QED
      BY <1>b, <1>c, <2>5, <3>1
  <2>7. c \in Accepting' => request[c].op.invite \in Pending
    <3>1. c \in Accepting' => request[c].op.kind = "accept" /\ Joins(c)'
      BY <2>4 DEF Accepting
    <3> QED
      BY <1>2, <3>1, RoomFound
  <2>8. Given(c)'
    BY <2>1, <2>2, <2>4, <2>5, <2>6, <2>7 DEF Given
  <2> QED
    BY <1>b, <2>1, <2>2, <2>3, <2>8
\* A request that is over is the only one.
<1>3. ASSUME NEW c \in Requests, c \in Busy, request' = [request EXCEPT ![c] = Idle], plan' = plan,
             HeldSeats' <= MaxMembers[plan]
      PROVE  (HeldSeats <= MaxMembers[plan] /\ \A d \in Busy : Given(d))'
  <2>1. Busy' = {}
    BY <1>3, <1>b DEF Busy, TypeOK, Idle
  <2> QED
    BY <1>3, <2>1
<1>4. ASSUME NEW c \in Requests, RequestFails(c)
      PROVE  c \in Busy /\ request' = [request EXCEPT ![c] = Idle] /\ plan' = plan /\ HeldSeats' <= MaxMembers[plan]
  <2>1. Members' = Members /\ Pending' = Pending
    BY <1>4 DEF RequestFails, Members, Pending
  <2> QED
    BY <1>4, <1>b, <2>1 DEF RequestFails, Busy, HeldSeats
<1>5. ASSUME NEW c \in Requests, CommitInvite(c)
      PROVE  c \in Busy /\ request' = [request EXCEPT ![c] = Idle] /\ plan' = plan /\ HeldSeats' <= MaxMembers[plan]
  <2>1. /\ c \in Busy /\ request' = [request EXCEPT ![c] = Idle] /\ plan' = plan
        /\ request[c].pc = "checked" /\ request[c].op.kind = "invite" /\ Members' = Members
    BY <1>5 DEF CommitInvite, Commits, Busy, Members
  <2>2. HeldSeats < MaxMembers[plan]
    BY <1>b, <2>1 DEF Given
  <2>3. HeldSeats' = HeldSeats + 1
    BY <1>5, <2>1, PendingInvite, Counts DEF HeldSeats
  <2> QED
    BY <1>b, <1>c, <2>1, <2>2, <2>3
<1>6. ASSUME NEW c \in Requests, CommitAccept(c)
      PROVE  c \in Busy /\ request' = [request EXCEPT ![c] = Idle] /\ plan' = plan /\ HeldSeats' <= MaxMembers[plan]
  <2>1. c \in Busy /\ request' = [request EXCEPT ![c] = Idle] /\ plan' = plan
    BY <1>6 DEF CommitAccept, Commits, Busy
  <2>2. Pending' = Pending \ {request[c].op.invite}
    BY <1>6, PendingAccept
  <2>3. CASE Joins(c)
    <3>1. c \in Accepting
      BY <1>6, <2>3 DEF Accepting, CommitAccept, Commits
    <3>2. Cardinality(Members') = Cardinality(Members) + 1
      <4>1. request[c].op.user \notin Members /\ Members' = Members \cup {request[c].op.user}
        BY <1>6, <2>3, MembersAccept
      <4> QED
        BY <4>1, Finite, FS_AddElement
    <3>3. CASE request[c].op.invite \in Pending
      <4>1. Cardinality(Pending') = Cardinality(Pending) - 1
        BY <2>2, <3>3, Finite, FS_RemoveElement
      <4>2. HeldSeats' = HeldSeats
        BY <3>2, <4>1, Counts DEF HeldSeats
      <4> QED
        BY <1>b, <2>1, <4>2
    <3>4. CASE HeldSeats < MaxMembers[plan]
      <4>1. Cardinality(Pending') <= Cardinality(Pending)
        BY <2>2, Counts
      <4>2. HeldSeats' <= HeldSeats + 1
        BY <3>2, <4>1, Counts DEF HeldSeats
      <4> QED
        BY <1>b, <1>c, <2>1, <3>4, <4>2
    <3>5. request[c].op.invite \in Pending \/ HeldSeats < MaxMembers[plan]
      BY <1>b, <2>1, <3>1 DEF Given
    <3> QED
      BY <3>3, <3>4, <3>5
  <2>4. CASE ~Joins(c)
    <3>1. HeldSeats' <= HeldSeats
      BY <1>6, <1>d, <2>2, <2>4, MembersAccept DEF Same
    <3> QED
      BY <1>b, <1>c, <2>1, <3>1
  <2> QED
    BY <2>3, <2>4
<1>7. ASSUME NEW c \in Requests, CommitChange(c) \/ CommitRemove(c) \/ CommitDelete(c)
      PROVE  c \in Busy /\ request' = [request EXCEPT ![c] = Idle] /\ plan' = plan /\ HeldSeats' <= MaxMembers[plan]
  <2>1. c \in Busy /\ request' = [request EXCEPT ![c] = Idle] /\ plan' = plan
    BY <1>7 DEF CommitChange, CommitRemove, CommitDelete, Commits, Busy
  <2>2. Members' \subseteq Members
    BY <1>7, MembersChange, MembersRemove, DeleteTyped
  <2>3. Pending' \subseteq Pending
    <3>1. CASE CommitChange(c) \/ CommitRemove(c)
      BY <3>1 DEF CommitChange, CommitRemove, Pending
    <3>2. CASE CommitDelete(c)
      BY <3>2, DeleteTyped
    <3> QED
      BY <1>7, <3>1, <3>2
  <2> QED
    BY <1>b, <1>c, <1>d, <2>1, <2>2, <2>3
<1>8. ASSUME NEW i \in DOMAIN invites, Expire(i)
      PROVE  (HeldSeats <= MaxMembers[plan] /\ \A d \in Busy : Given(d))'
  <2>1. Members' = Members /\ plan' = plan /\ request' = request /\ Busy' = Busy /\ Accepting' = Accepting
    BY <1>8 DEF Expire, Members, Busy, Accepting, Joins
  <2>2. Pending' = Pending \ {i}
    BY <1>8, PendingExpire
  <2>3. HeldSeats' <= HeldSeats
    BY <1>d, <2>1, <2>2
  <2>4. i \in Pending => HeldSeats' < HeldSeats
    <3>1. i \in Pending => Cardinality(Pending') = Cardinality(Pending) - 1
      BY <2>2, Finite, FS_RemoveElement
    <3> QED
      BY <2>1, <3>1, Counts DEF HeldSeats
  <2>5. ASSUME NEW d \in Busy
        PROVE  Given(d)'
    <3>1. Given(d) /\ d \in Requests
      BY <1>b DEF Busy
    <3>2. request[d].pc = "checked" /\ request[d].op.kind = "invite" => HeldSeats' < MaxMembers[plan]
      BY <1>b, <1>c, <2>3, <3>1 DEF Given
    <3>3. d \in Accepting => request[d].op.invite \in Pending' \/ HeldSeats' < MaxMembers[plan]
      <4>1. CASE request[d].op.invite \in Pending /\ request[d].op.invite # i
        BY <2>2, <4>1
      <4>2. CASE request[d].op.invite \in Pending /\ request[d].op.invite = i
        BY <1>b, <1>c, <2>4, <4>2
      <4>3. CASE HeldSeats < MaxMembers[plan]
        BY <1>b, <1>c, <2>3, <4>3
      <4> QED
        BY <3>1, <4>1, <4>2, <4>3 DEF Given
    <3> QED
      BY <2>1, <3>1, <3>2, <3>3 DEF Given
  <2> QED
    BY <1>b, <1>c, <2>1, <2>3, <2>5
<1>9. ASSUME NEW p \in Plans, SetPlan(p)
      PROVE  (HeldSeats <= MaxMembers[plan] /\ \A d \in Busy : Given(d))'
  <2>1. Members' = Members /\ Pending' = Pending /\ request' = request /\ Busy' = Busy /\ Accepting' = Accepting
    BY <1>9 DEF SetPlan, Members, Pending, Busy, Accepting, Joins
  <2>2. MaxMembers[plan] <= MaxMembers[plan']
    BY <1>9, <1>c DEF SetPlan, Happens
  <2>3. HeldSeats' = HeldSeats
    BY <2>1 DEF HeldSeats
  <2>4. ASSUME NEW d \in Busy
        PROVE  Given(d)'
    <3>1. Given(d) /\ request[d].plan \in Plans
      BY <1>b, <1>c DEF Busy
    <3>2. MaxMembers[request[d].plan] <= MaxMembers[plan']
      BY <1>c, <2>2, <3>1 DEF Given
    <3>3. HeldSeats < MaxMembers[plan] => HeldSeats < MaxMembers[plan']
      BY <1>b, <1>c, <2>2
    <3> QED
      BY <2>1, <2>3, <3>1, <3>2, <3>3 DEF Given
  <2> QED
    BY <1>b, <1>c, <2>1, <2>2, <2>3, <2>4
<1>10. ASSUME NEW c \in Requests, RequestFails(c) \/ CommitInvite(c) \/ CommitAccept(c)
                                    \/ CommitChange(c) \/ CommitRemove(c) \/ CommitDelete(c)
       PROVE  (HeldSeats <= MaxMembers[plan] /\ \A d \in Busy : Given(d))'
  BY <1>3, <1>4, <1>5, <1>6, <1>7, <1>10
<1> QED
  BY <1>1, <1>2, <1>8, <1>9, <1>10 DEF Next

\* While requests do not overlap and the plan is not reduced, members and
\* pending invitations never hold more seats than the plan has.
THEOREM SeatsKept == Spec => []SeatsHeld
<1>1. Init => SeatInv
  <2> SUFFICES ASSUME Init PROVE HeldSeats <= MaxMembers[plan] /\ Busy = {}
    BY DEF SeatInv, SeatsHeld
  <2>1. Members = {Creator} /\ Pending = {} /\ Busy = {}
    BY Constants DEF Init, Members, Pending, Busy, Idle, Nobody
  <2>2. Cardinality(Members) = 1 /\ Cardinality(Pending) = 0
    BY <2>1, FS_Singleton, FS_EmptySet
  <2> QED
    BY <2>1, <2>2, Constants DEF Init, HeldSeats
<1>2. TypeOK /\ AcceptInv /\ SoloInv /\ SeatInv /\ TypeOK' /\ [Next]_vars => SeatInv'
  <2>1. UNCHANGED vars /\ SeatInv => SeatInv'
    BY DEF vars, SeatInv, SeatsHeld, HeldSeats, Members, Pending, Busy, Accepting, Joins
  <2> QED
    BY <2>1, SeatKept
<1>3. SeatInv => SeatsHeld
  BY DEF SeatInv
<1> QED
  BY <1>1, <1>2, <1>3, TypeAndAccept, SoloHolds, PTL DEF Spec
=============================================================================
