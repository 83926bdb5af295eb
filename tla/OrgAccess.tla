------------------------------ MODULE OrgAccess ------------------------------
(* The people of one organisation: memberships and their roles, invitations, *)
(* and the seats that its plan allows.                                       *)
(*                                                                           *)
(* A request reads the role of whoever makes it, then checks the operation,  *)
(* then commits; other requests may come in between (READ COMMITTED, no row  *)
(* locks).  The plan is what BillingWebhooks makes of it.                    *)
EXTENDS Integers, Sequences, FiniteSets

CONSTANTS
  Users,          \* accounts; an account is its email address
  Creator,        \* the user who creates the organisation
  Requests,       \* requests that can be served at the same time
  Granted,        \* the roles that are given, by invitation or by change
  Plans,          \* plans
  MaxMembers,     \* seats of each plan
  MaxInvites,     \* bound: invitations
  MaxFaults       \* bound: overlapping requests and downgrades

RoleRank == [none |-> 0, viewer |-> 1, member |-> 2, admin |-> 3, owner |-> 4]
Roles == {"viewer", "member", "admin", "owner"}

ASSUME UserAssumption == Creator \in Users /\ IsFiniteSet(Users)
ASSUME RequestAssumption == IsFiniteSet(Requests) /\ Requests # {}
ASSUME GrantAssumption == Granted \subseteq Roles
ASSUME PlanAssumption == "free" \in Plans /\ MaxMembers \in [Plans -> Nat \ {0}]
ASSUME BoundAssumption == MaxInvites \in Nat /\ MaxFaults \in Nat

VARIABLES
  exists,       \* the organisation has not been deleted
  plan,         \* organizations.plan
  membership,   \* memberships: each user's role, and which of his rows it is
  invites,      \* invitations, by id
  request,      \* the requests
  spent,        \* history: what MaxFaults bounds
  odd           \* history: the unusual things that have happened

vars == <<exists, plan, membership, invites, request, spent, odd>>

Nobody == [role |-> "none", row |-> 0]
\* What a request is to do: a kind of operation, who asks, on whom.
Op(kind, by, user, role, invite) == [kind |-> kind, by |-> by, user |-> user, role |-> role, invite |-> invite]
NoOp == Op("none", Creator, Creator, "viewer", 0)
Idle == [pc |-> "idle", op |-> NoOp, plan |-> "free", target |-> Nobody]

\* create_org.
Init ==
  /\ exists = TRUE /\ plan = "free"
  /\ membership = [u \in Users |-> IF u = Creator THEN [role |-> "owner", row |-> 1] ELSE Nobody]
  /\ invites = <<>>
  /\ request = [c \in Requests |-> Idle]
  /\ spent = 0 /\ odd = {}
------------------------------------------------------------------------------
(* What is counted.                                                          *)

Members == {u \in Users : membership[u].role # "none"}
Owners == {u \in Users : membership[u].role = "owner"}
AtLeast(u, role) == RoleRank[membership[u].role] >= RoleRank[role]

\* Mutant of member_count: owners take no seat.
OthersCount == Cardinality(Members \ Owners)
member_count == Cardinality(Members)

\* pending_invite_count: not accepted and not expired.
Pending == {i \in DOMAIN invites : ~invites[i].accepted /\ ~invites[i].expired}

\* require_member_capacity, of somebody who accepts and of an invitation.
RoomToAccept(p) == member_count < MaxMembers[p]
\* Mutant of RoomToInvite: pending invitations hold no seat.
RoomBesideInvites(p) == member_count < MaxMembers[p]
RoomToInvite(p) == member_count + Cardinality(Pending) < MaxMembers[p]
------------------------------------------------------------------------------
(* A request arrives.                                                        *)

Operations ==
  {Op(kind, by, u, r, 0) : kind \in {"invite", "change"}, by \in Users, u \in Users, r \in Granted}
  \cup {Op("accept", by, by, "viewer", i) : by \in Users, i \in DOMAIN invites}
  \cup {Op("remove", by, u, "viewer", 0) : by \in Users, u \in Users}
  \cup {Op("delete", by, by, "viewer", 0) : by \in Users}

\* require_role: an account of any kind may accept an invitation.
MinimumRole == [invite |-> "admin", change |-> "admin", remove |-> "admin", delete |-> "owner", accept |-> "none"]
Allowed(op) == AtLeast(op.by, MinimumRole[op.kind])

Busy == {c \in Requests : request[c].pc # "idle"}

\* Unusual things happen, MaxFaults times at most.
Happens(strange) ==
  /\ odd' = odd \cup strange
  /\ IF strange = {} THEN UNCHANGED spent ELSE spent < MaxFaults /\ spent' = spent + 1

\* The session keeps the organisation and the caller's own membership as
\* get_org_context has read them: what follows goes by that plan and that role.
Arrive(c, op) ==
  /\ request[c].pc = "idle"
  /\ exists /\ Allowed(op)
  /\ request' = [request EXCEPT ![c] = [pc |-> "allowed", op |-> op, plan |-> plan, target |-> membership[op.user]]]
  /\ Happens(IF Busy = {} THEN {} ELSE {"overlap"})
  /\ UNCHANGED <<exists, plan, membership, invites>>
------------------------------------------------------------------------------
(* The checks of the operation.                                              *)

\* Mutant of MayLeave: nobody counts the owners.
AnyoneMayLeave(m) == TRUE
\* The last owner is neither demoted nor removed.
MayLeave(m) == m.role = "owner" => Cardinality(Owners) > 1

\* accept_invitation: not accepted, not expired, for this email, and a seat for
\* a new member.  Its route has no organisation to begin with: it reads it here.
MayAccept(op) ==
  /\ op.invite \in Pending
  /\ invites[op.invite].user = op.by
  /\ op.by \in Members \/ RoomToAccept(plan)

\* The target's membership as the session knows it: one's own is not read again.
Target(r) ==
  IF r.op.kind # "accept" /\ r.op.by = r.op.user /\ membership[r.op.user].row = r.target.row
    THEN r.target ELSE membership[r.op.user]

Passes(r) ==
  CASE r.op.kind = "invite" -> r.op.user \notin Members /\ RoomToInvite(r.plan)
    [] r.op.kind = "accept" -> MayAccept(r.op)
    [] r.op.kind = "change" -> r.op.user \in Members /\ Target(r).role # r.op.role /\ MayLeave(Target(r))
    [] r.op.kind = "remove" -> r.op.user \in Members /\ MayLeave(Target(r))
    [] OTHER -> TRUE

Check(c) ==
  /\ request[c].pc = "allowed"
  /\ exists /\ Passes(request[c])
  /\ request' = [request EXCEPT ![c].pc = "checked", ![c].target = Target(request[c])]
  /\ UNCHANGED <<exists, plan, membership, invites, spent, odd>>

\* A check says no (404, 409, 402), or the request fails before it commits.
RequestFails(c) ==
  /\ request[c].pc # "idle"
  /\ request' = [request EXCEPT ![c] = Idle]
  /\ UNCHANGED <<exists, plan, membership, invites, spent, odd>>
------------------------------------------------------------------------------
(* The commit of each operation.  A row that is written for an organisation  *)
(* that is gone, a second membership of one user and a change of a row that  *)
(* is gone do not commit: the request fails.                                 *)

\* c commits an operation of this kind.
Commits(c, kind) ==
  /\ request[c].pc = "checked" /\ request[c].op.kind = kind
  /\ exists
  /\ request' = [request EXCEPT ![c] = Idle]
  /\ UNCHANGED <<plan, spent, odd>>

CommitInvite(c) ==
  LET op == request[c].op IN
  /\ Len(invites) < MaxInvites
  /\ Commits(c, "invite")
  /\ invites' = Append(invites, [user |-> op.user, role |-> op.role, accepted |-> FALSE, expired |-> FALSE])
  /\ UNCHANGED <<exists, membership>>

\* Rows are numbered for each user, from 1.
Joins(c) == request[c].target.role = "none"
CommitAccept(c) ==
  LET op == request[c].op IN
  /\ Commits(c, "accept")
  /\ Joins(c) => op.user \notin Members
  /\ invites' = [invites EXCEPT ![op.invite].accepted = TRUE]
  /\ IF Joins(c)
       THEN membership' = [membership EXCEPT ![op.user] = [role |-> invites[op.invite].role, row |-> @.row + 1]]
       ELSE UNCHANGED membership
  /\ UNCHANGED exists

\* The row that the request has found is still there.
SameRow(c) ==
  /\ request[c].op.user \in Members
  /\ membership[request[c].op.user].row = request[c].target.row

CommitChange(c) ==
  /\ Commits(c, "change")
  /\ SameRow(c)
  /\ membership' = [membership EXCEPT ![request[c].op.user].role = request[c].op.role]
  /\ UNCHANGED <<exists, invites>>

CommitRemove(c) ==
  /\ Commits(c, "remove")
  /\ SameRow(c)
  /\ membership' = [membership EXCEPT ![request[c].op.user].role = "none"]
  /\ UNCHANGED <<exists, invites>>

\* Mutant of Cascade: the invitations stay.
MembershipsOnly ==
  /\ membership' = [u \in Users |-> [membership[u] EXCEPT !.role = "none"]]
  /\ UNCHANGED invites
\* Memberships and invitations go with the organisation.
Cascade ==
  /\ membership' = [u \in Users |-> [membership[u] EXCEPT !.role = "none"]]
  /\ invites' = <<>>

CommitDelete(c) ==
  /\ Commits(c, "delete")
  /\ exists' = FALSE
  /\ Cascade
------------------------------------------------------------------------------
(* What happens by itself.                                                   *)

\* INVITE_TTL_DAYS go by.
Expire(i) ==
  /\ invites[i].expired = FALSE
  /\ invites' = [invites EXCEPT ![i].expired = TRUE]
  /\ UNCHANGED <<exists, plan, membership, request, spent, odd>>

\* Billing changes the plan.
SetPlan(p) ==
  /\ exists /\ p # plan
  /\ plan' = p
  /\ Happens(IF MaxMembers[p] < MaxMembers[plan] THEN {"downgrade"} ELSE {})
  /\ UNCHANGED <<exists, membership, invites, request>>

Next ==
  \/ \E c \in Requests, op \in Operations : Arrive(c, op)
  \/ \E c \in Requests :
       \/ Check(c) \/ RequestFails(c)
       \/ CommitInvite(c) \/ CommitAccept(c) \/ CommitChange(c)
       \/ CommitRemove(c) \/ CommitDelete(c)
  \/ \E i \in DOMAIN invites : Expire(i)
  \/ \E p \in Plans : SetPlan(p)

Spec == Init /\ [][Next]_vars
------------------------------------------------------------------------------
(* Properties.                                                               *)

Ops == [kind : DOMAIN MinimumRole \cup {"none"}, by : Users, user : Users,
        role : Roles, invite : 0 .. MaxInvites]
MembershipRows == [role : DOMAIN RoleRank, row : Nat]

\* The type invariant, and what a deletion leaves: nobody and no invitation.
TypeOK ==
  /\ exists \in BOOLEAN /\ plan \in Plans
  /\ membership \in [Users -> MembershipRows]
  /\ invites \in Seq([user : Users, role : Roles, accepted : BOOLEAN, expired : BOOLEAN])
  /\ Len(invites) <= MaxInvites
  /\ request \in [Requests -> [pc : {"idle", "allowed", "checked"}, op : Ops, plan : Plans, target : MembershipRows]]
  /\ spent \in 0 .. MaxFaults /\ odd \subseteq {"overlap", "downgrade"}
  /\ (~exists => Members = {} /\ invites = <<>>)

HeldSeats == Cardinality(Members) + Cardinality(Pending)
\* Members and pending invitations never hold more seats than the plan has: an
\* accepted invitation takes the seat it held and no other, whatever expires
\* meanwhile (entitlements.require_member_capacity).
SeatsHeld == odd = {} => HeldSeats <= MaxMembers[plan]

\* Seats are counted before they are taken: requests that overlap can pass the
\* limit, by one member for each of them but the first and no more.
Accepting == {c \in Requests : request[c].pc = "checked" /\ request[c].op.kind = "accept" /\ Joins(c)}
SoftSeats ==
  "downgrade" \notin odd =>
    Cardinality(Members) + Cardinality(Accepting) <= MaxMembers[plan] + Cardinality(Requests) - 1

\* An organisation that exists has an owner: the last one cannot leave, be
\* removed or be demoted (set_member_role, remove_member).
OwnerRemains == exists /\ "overlap" \notin odd => Owners # {}
------------------------------------------------------------------------------
(* What they rest on.                                                        *)

\* A request accepts in its own name, an invitation that is still there.
AcceptInv ==
  \A c \in Requests : request[c].op.kind = "accept" =>
    request[c].op.user = request[c].op.by /\ (exists => request[c].op.invite \in DOMAIN invites)

\* While requests do not overlap, what the only one has read is how things are.
SoloInv ==
  "overlap" \notin odd =>
    /\ \A c, d \in Busy : c = d
    /\ exists => \A c \in Busy : request[c].target = membership[request[c].op.user]

\* ... and who was allowed to leave still is.
LeaveInv ==
  /\ OwnerRemains
  /\ exists /\ "overlap" \notin odd =>
       \A c \in Busy : request[c].pc = "checked" /\ request[c].op.kind \in {"change", "remove"} => MayLeave(request[c].target)

\* Who was given a seat still has it, by an invitation or a free one.
SeatInv ==
  /\ SeatsHeld
  /\ odd = {} =>
       \A c \in Busy :
         /\ MaxMembers[request[c].plan] <= MaxMembers[plan]
         /\ request[c].pc = "checked" /\ request[c].op.kind = "invite" => HeldSeats < MaxMembers[plan]
         /\ c \in Accepting => request[c].op.invite \in Pending \/ HeldSeats < MaxMembers[plan]
=============================================================================
