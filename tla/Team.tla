-------------------------------- MODULE Team --------------------------------
(***************************************************************************)
(* The members of one team and its invitations: apps/web/lib/              *)
(* invites-core.ts behind the routes of apps/web/app/api/teams and         *)
(* apps/web/app/api/invitations, which let owners in (requireOwner).       *)
(*                                                                         *)
(* Grain of atomicity: one action per statement (read committed).  Only    *)
(* acceptInvitation takes a row lock, on the team; creating an invitation, *)
(* changing a role and removing a member read, decide and write without    *)
(* one.  Answers that change nothing (not found, expired, wrong address,   *)
(* limit reached) end the request.  requireOwner and the first read of the *)
(* handler are one step: as long as the team has an owner at all, an       *)
(* answer that is older by a moment lets in what another owner may do.     *)
(*                                                                         *)
(* An invitation is addressed to a user: an e-mail address and the account *)
(* that has it are one here.  The row of an invitation that is gone or     *)
(* accepted, and that no request has in hand, can change nothing any more: *)
(* its id is used again, so that no bound on the history is needed.        *)
(***************************************************************************)
EXTENDS Integers, FiniteSets

CONSTANTS Users,       \* accounts; one of them founded the team
          Founder,     \* the owner ensureUserTeam made
          Invites,     \* ids of rows of invitations
          Requests,    \* requests the web server handles at a time
          Limits,      \* the seats of the plans: features.seats ?? maxMembers
          None         \* no user, no invitation, no request

ASSUME TeamAssumption ==
    /\ IsFiniteSet(Users)
    /\ Founder \in Users
    /\ Limits \subseteq Nat \ {0}
    /\ None \notin Users \union Invites \union Requests

VARIABLES
    role,      \* [Users -> Roles]: memberships of the team ("none": no row)
    invite,    \* [Invites -> [state, email, role]]: invitations
    seats,     \* the seat limit of the team's plan
    teamLock,  \* Requests \union {None}: FOR UPDATE lock on the row of teams
    req,       \* [Requests -> [pc, user, invite, role, free]]: what each request is at
    peak,      \* history: the largest seat limit the team has had
    raced      \* history: a role was written while another request had read its own

vars == <<role, invite, seats, teamLock, req, peak, raced>>

Roles        == {"none", "member", "owner"}
InviteStates == {"absent", "open", "expired", "accepted"}
Steps        == {"idle",
                 "isPending", "countMembers", "countPending", "insertInvite",
                 "lockTeam", "countSeats", "join",
                 "countOwners", "writeRole"}

Members == {u \in Users : role[u] # "none"}
Owners  == {u \in Users : role[u] = "owner"}

\* invitations_pending_unique counts an invitation until it is accepted, also when expired.
Pending(u) == {i \in Invites : invite[i].state \in {"open", "expired"} /\ invite[i].email = u}
Open       == {i \in Invites : invite[i].state = "open"}

NoInvite == [state |-> "absent", email |-> None, role |-> "member"]

Asks(pc, u, i, ro) == [pc |-> pc, user |-> u, invite |-> i, role |-> ro, free |-> 0]
Idle               == Asks("idle", None, None, "none")

(***************************************************************************)
(* Types.  The seats a creation found free are a number: the comparison    *)
(* >= also ends the requests of a team that a smaller plan left too large. *)
(***************************************************************************)
TypeOK ==
    /\ role \in [Users -> Roles]
    /\ invite \in [Invites -> [state: InviteStates, email: Users \union {None},
                               role: {"member", "owner"}]]
    /\ seats \in Limits
    /\ teamLock \in Requests \union {None}
    /\ req \in [Requests -> [pc: Steps, user: Users \union {None},
                             invite: Invites \union {None}, role: Roles, free: Nat]]
    /\ peak \in Limits
    /\ raced \in BOOLEAN

Init ==
    /\ role = [u \in Users |-> IF u = Founder THEN "owner" ELSE "none"]
    /\ invite = [i \in Invites |-> NoInvite]
    /\ seats \in Limits
    /\ teamLock = None
    /\ req = [r \in Requests |-> Idle]
    /\ peak = seats
    /\ raced = FALSE

At(r, pc) == req[r].pc = pc
Goto(r, pc) == req' = [req EXCEPT ![r].pc = pc]
End(r) == req' = [req EXCEPT ![r] = Idle]

\* requireOwner: the caller is an owner, any of them.
Authorized == Owners # {}

-----------------------------------------------------------------------------
(***************************************************************************)
(* createInvitation: one transaction, no lock.                             *)
(***************************************************************************)
StartInvite(r, u, ro) ==
    /\ At(r, "idle")
    /\ Authorized
    /\ u \notin Members
    /\ req' = [req EXCEPT ![r] = Asks("isPending", u, None, ro)]
    /\ UNCHANGED <<role, invite, seats, teamLock, peak, raced>>

CheckPending(r) ==
    /\ At(r, "isPending")
    /\ IF Pending(req[r].user) # {} THEN End(r) ELSE Goto(r, "countMembers")
    /\ UNCHANGED <<role, invite, seats, teamLock, peak, raced>>

\* The plan and the members; when these fill the seats, the open invitations cannot help.
CountMembers(r) ==
    /\ At(r, "countMembers")
    /\ IF Cardinality(Members) >= seats
       THEN End(r)
       ELSE req' = [req EXCEPT ![r].pc = "countPending",
                               ![r].free = seats - Cardinality(Members)]
    /\ UNCHANGED <<role, invite, seats, teamLock, peak, raced>>

CountPending(r) ==
    /\ At(r, "countPending")
    /\ IF Cardinality(Open) >= req[r].free THEN End(r) ELSE Goto(r, "insertInvite")
    /\ UNCHANGED <<role, invite, seats, teamLock, peak, raced>>

\* A row that is gone or accepted and that no request has in hand.
Reusable(i) ==
    /\ invite[i].state \in {"absent", "accepted"}
    /\ \A r \in Requests : req[r].invite # i

\* The unique index refuses a second pending invitation of the same address.
InsertInvite(r) ==
    /\ At(r, "insertInvite")
    /\ IF Pending(req[r].user) # {}
       THEN UNCHANGED invite
       ELSE \E i \in Invites :
                /\ Reusable(i)
                /\ invite' = [invite EXCEPT ![i] = [state |-> "open", email |-> req[r].user,
                                                   role |-> req[r].role]]
    /\ End(r)
    /\ UNCHANGED <<role, seats, teamLock, peak, raced>>

\* deleteInvitation
DeleteInvitation(i) ==
    /\ Authorized
    /\ invite[i].state # "absent"
    /\ invite' = [invite EXCEPT ![i] = NoInvite]
    /\ UNCHANGED <<role, seats, teamLock, req, peak, raced>>

\* expires_at passes.
Expire(i) ==
    /\ invite[i].state = "open"
    /\ invite' = [invite EXCEPT ![i].state = "expired"]
    /\ UNCHANGED <<role, seats, teamLock, req, peak, raced>>

-----------------------------------------------------------------------------
(***************************************************************************)
(* acceptInvitation: the invitation is read and judged before the          *)
(* transaction, which never looks at it again.                             *)
(***************************************************************************)
ReadInvitation(r, i) ==
    /\ At(r, "idle")
    /\ invite[i].state = "open"
    /\ req' = [req EXCEPT ![r] = Asks("lockTeam", invite[i].email, i, invite[i].role)]
    /\ UNCHANGED <<role, invite, seats, teamLock, peak, raced>>

LockTeam_NoLock(r) ==
    /\ At(r, "lockTeam")
    /\ teamLock' = r
    /\ Goto(r, IF req[r].user \in Members THEN "join" ELSE "countSeats")
    /\ UNCHANGED <<role, invite, seats, peak, raced>>

\* select 1 from teams ... for update, then: is he a member already?
LockTeam(r) ==
    /\ At(r, "lockTeam")
    /\ teamLock = None
    /\ teamLock' = r
    /\ Goto(r, IF req[r].user \in Members THEN "join" ELSE "countSeats")
    /\ UNCHANGED <<role, invite, seats, peak, raced>>

CountSeats(r) ==
    /\ At(r, "countSeats")
    /\ IF Cardinality(Members) >= seats
       THEN End(r) /\ teamLock' = None
       ELSE Goto(r, "join") /\ UNCHANGED teamLock
    /\ UNCHANGED <<role, invite, seats, peak, raced>>

\* insert ... on conflict do nothing; accepted_at (if the row is still there); commit.
Join(r) ==
    /\ At(r, "join")
    /\ role' = [role EXCEPT ![req[r].user] = IF @ = "none" THEN req[r].role ELSE @]
    /\ invite' = IF invite[req[r].invite].state = "absent" THEN invite
                 ELSE [invite EXCEPT ![req[r].invite].state = "accepted"]
    /\ teamLock' = None
    /\ End(r)
    /\ UNCHANGED <<seats, peak, raced>>

-----------------------------------------------------------------------------
(***************************************************************************)
(* updateMemberRole and removeMember (the role "none"): three statements,  *)
(* no transaction and no lock.                                             *)
(***************************************************************************)
TakesOwnerAway(u, ro) == role[u] = "owner" /\ ro # "owner"

ReadRole(r, u, ro) ==
    /\ At(r, "idle")
    /\ Authorized
    /\ role[u] \notin {"none", ro}
    /\ req' = [req EXCEPT ![r] = Asks(IF TakesOwnerAway(u, ro) THEN "countOwners" ELSE "writeRole",
                                      u, None, ro)]
    /\ UNCHANGED <<role, invite, seats, teamLock, peak, raced>>

LastOwner_OffByOne == Cardinality(Owners) < 1

LastOwner == Cardinality(Owners) <= 1

CountOwners(r) ==
    /\ At(r, "countOwners")
    /\ IF LastOwner THEN End(r) ELSE Goto(r, "writeRole")
    /\ UNCHANGED <<role, invite, seats, teamLock, peak, raced>>

\* The update or delete finds no row when the member has left meanwhile.
WriteRole(r) ==
    /\ At(r, "writeRole")
    /\ role' = [role EXCEPT ![req[r].user] = IF @ = "none" THEN @ ELSE req[r].role]
    /\ raced' = (raced \/ \E s \in Requests \ {r} : req[s].pc \in {"countOwners", "writeRole"})
    /\ End(r)
    /\ UNCHANGED <<invite, seats, teamLock, peak>>

-----------------------------------------------------------------------------
\* The web server dies: Postgres rolls back and releases the lock.
RequestDies(r) ==
    /\ ~ At(r, "idle")
    /\ End(r)
    /\ teamLock' = IF teamLock = r THEN None ELSE teamLock
    /\ UNCHANGED <<role, invite, seats, peak, raced>>

\* A Stripe event changes the plan; no member is sent away.
PlanChanges(l) ==
    /\ l # seats
    /\ seats' = l
    /\ peak' = IF l > peak THEN l ELSE peak
    /\ UNCHANGED <<role, invite, teamLock, req, raced>>

Step(r) ==
    \/ CheckPending(r) \/ CountMembers(r) \/ CountPending(r) \/ InsertInvite(r)
    \/ LockTeam(r) \/ CountSeats(r) \/ Join(r)
    \/ CountOwners(r) \/ WriteRole(r)

Start(r) ==
    \/ \E u \in Users, ro \in {"member", "owner"} : StartInvite(r, u, ro)
    \/ \E u \in Users, ro \in Roles : ReadRole(r, u, ro)
    \/ \E i \in Invites : ReadInvitation(r, i)

Next ==
    \/ \E r \in Requests : Start(r) \/ Step(r) \/ RequestDies(r)
    \/ \E i \in Invites : DeleteInvitation(i) \/ Expire(i)
    \/ \E l \in Limits : PlanChanges(l)

Spec == Init /\ [][Next]_vars

-----------------------------------------------------------------------------
(***************************************************************************)
(* Paid seats: however many invitations are accepted at once, created too  *)
(* many, revoked or expired on the way, and whoever is removed between the *)
(* count and the insert, the team never has more members than the largest  *)
(* seat limit its plans gave it (acceptInvitation's lock on the team).     *)
(***************************************************************************)
SeatsRespected == Cardinality(Members) <= peak

(***************************************************************************)
(* As long as no two changes of roles overlap, the team keeps an owner,    *)
(* whatever joins, invitations, plan changes and crashes come between      *)
(* (the last_owner guards of updateMemberRole and removeMember).           *)
(***************************************************************************)
KeepsOwner == raced \/ Owners # {}

(***************************************************************************)
(* docs/plans/02-team-invites.md:116: the last owner cannot be removed or  *)
(* demoted.                                                                *)
(***************************************************************************)
TeamHasOwner == Owners # {}
=============================================================================
