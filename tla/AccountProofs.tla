---------------------------- MODULE AccountProofs ----------------------------
(***************************************************************************)
(* Theorems about what belongs to an account: Team, for any number of      *)
(* accounts, invitations, concurrent requests and plans, and Billing, for  *)
(* any number of subscriptions, plans, events, deliveries and faults.      *)
(***************************************************************************)
EXTENDS Team, Billing, FiniteSetTheorems, TLAPS

(***************************************************************************)
(* What a request carries: the account it is about, and for an invitation  *)
(* a role that can be given; a row of invitations has an address.          *)
(***************************************************************************)
DataInv ==
    /\ \A r \in Requests :
          /\ req[r].pc # "idle" => req[r].user \in Users
          /\ req[r].pc \in {"isPending", "countMembers", "countPending", "insertInvite"} =>
                req[r].role \in {"member", "owner"}
    /\ \A i \in Invites : invite[i].state # "absent" => invite[i].email \in Users

Types == TypeOK /\ DataInv

(***************************************************************************)
(* Only the holder of the lock on the team is between count and insert.    *)
(***************************************************************************)
LockInv == \A r \in Requests : req[r].pc \in {"countSeats", "join"} => teamLock = r

(***************************************************************************)
(* A request that goes on to the insert has a seat for its user, also when *)
(* members leave, roles and plan change before it inserts.                 *)
(***************************************************************************)
SeatInv ==
    /\ seats <= peak
    /\ SeatsRespected
    /\ \A r \in Requests :
          req[r].pc = "join" => Cardinality(Members \union {req[r].user}) <= peak

OtherOwner(u) == \E o \in Owners : o # u

(***************************************************************************)
(* While role changes have not overlapped, the member a request is about   *)
(* to change is still there, and if he is an owner it takes away, there is *)
(* another one.                                                            *)
(***************************************************************************)
OwnerInv ==
    raced \/ /\ Owners # {}
             /\ \A r \in Requests :
                   /\ req[r].pc \in {"countOwners", "writeRole"} =>
                         role[req[r].user] # "none"
                   /\ req[r].pc = "writeRole" /\ TakesOwnerAway(req[r].user, req[r].role) =>
                         OtherOwner(req[r].user)

TeamInv == Types /\ LockInv /\ SeatInv /\ OwnerInv

LEMMA FiniteMembers ==
    ASSUME NEW S \in SUBSET Users PROVE IsFiniteSet(S) /\ Cardinality(S) \in Nat
  BY FS_Subset, FS_CardinalityType, TeamAssumption

LEMMA InvInit == Init => TeamInv
<1> SUFFICES ASSUME Init PROVE TeamInv
  OBVIOUS
<1> USE DEF Init
<1>1. Types
  BY TeamAssumption DEF Types, TypeOK, DataInv, NoInvite, Idle, Asks, InviteStates, Roles, Steps
<1>2. LockInv
  BY DEF LockInv, Idle, Asks
<1>3. Members = {Founder} /\ Owners = {Founder}
  BY TeamAssumption DEF Members, Owners
<1>4. SeatInv
  <2>1. Cardinality(Members) = 1
    BY <1>3, FS_Singleton
  <2>2. seats \in Nat \ {0}
    BY TeamAssumption
  <2>3. QED
    BY <2>1, <2>2 DEF SeatInv, SeatsRespected, Idle, Asks
<1>5. OwnerInv
  BY <1>3 DEF OwnerInv, Idle, Asks
<1>6. QED
  BY <1>1, <1>2, <1>4, <1>5 DEF TeamInv

(***************************************************************************)
(* Types.                                                                  *)
(***************************************************************************)
LEMMA TypesStep == Types /\ [Next]_vars => TypeOK'
<1> SUFFICES ASSUME Types, [Next]_vars PROVE TypeOK'
  OBVIOUS
<1> DEFINE Records == [pc: Steps, user: Users \union {None},
                       invite: Invites \union {None}, role: Roles, free: Nat]
<1> USE TeamAssumption DEF Types, TypeOK
<1>1. Idle \in Records
  BY DEF Idle, Asks, Roles, Steps
<1>2. ASSUME NEW r \in Requests, End(r) PROVE req' \in [Requests -> Records]
  BY <1>1, <1>2 DEF End
<1>3. ASSUME NEW r \in Requests, NEW pc \in Steps, Goto(r, pc) PROVE req' \in [Requests -> Records]
  BY <1>3 DEF Goto
<1>4. ASSUME NEW r \in Requests, Start(r) PROVE TypeOK'
  <2>1. ASSUME NEW u \in Users, NEW ro \in {"member", "owner"}, StartInvite(r, u, ro)
        PROVE TypeOK'
    BY <2>1 DEF StartInvite, Asks, Roles, Steps
  <2>2. ASSUME NEW u \in Users, NEW ro \in Roles, ReadRole(r, u, ro) PROVE TypeOK'
    BY <2>2 DEF ReadRole, Asks, Roles, Steps
  <2>3. ASSUME NEW i \in Invites, ReadInvitation(r, i) PROVE TypeOK'
    BY <2>3 DEF ReadInvitation, Asks, Roles, Steps
  <2>4. QED
    BY <1>4, <2>1, <2>2, <2>3 DEF Start
<1>5. ASSUME NEW r \in Requests, Step(r) PROVE TypeOK'
  <2>1. CASE CheckPending(r)
    BY <1>2, <1>3, <2>1 DEF CheckPending, Steps
  <2>2. CASE CountMembers(r)
    <3>1. CASE Cardinality(Members) >= seats
      BY <1>2, <2>2, <3>1 DEF CountMembers
    <3>2. CASE ~ (Cardinality(Members) >= seats)
      <4>1. seats - Cardinality(Members) \in Nat
        BY <3>2, FiniteMembers DEF Members
      <4>2. ASSUME NEW n \in Nat, NEW q \in Records
            PROVE  [q EXCEPT !.pc = "countPending", !.free = n] \in Records
        BY DEF Steps
      <4>3. /\ req' = [req EXCEPT ![r] = [req[r] EXCEPT !.pc = "countPending",
                                          !.free = seats - Cardinality(Members)]]
            /\ UNCHANGED <<role, invite, seats, teamLock, peak, raced>>
        BY <2>2, <3>2 DEF CountMembers
      <4>4. req' \in [Requests -> Records]
        BY <4>1, <4>2, <4>3
      <4>5. QED
        BY <4>3, <4>4
    <3>3. QED
      BY <3>1, <3>2
  <2>3. CASE CountPending(r)
    BY <1>2, <1>3, <2>3 DEF CountPending, Steps
  <2>4. CASE InsertInvite(r)
    <3>1. /\ req' \in [Requests -> Records]
          /\ UNCHANGED <<role, seats, teamLock, peak, raced>>
      BY <1>2, <2>4 DEF InsertInvite
    <3>2. invite' \in [Invites -> [state: InviteStates, email: Users \union {None},
                                   role: {"member", "owner"}]]
      BY <2>4 DEF InsertInvite, InviteStates, DataInv, At
    <3>3. QED
      BY <3>1, <3>2
  <2>5. CASE LockTeam(r)
    BY <1>3, <2>5 DEF LockTeam, Steps
  <2>6. CASE CountSeats(r)
    BY <1>2, <1>3, <2>6 DEF CountSeats, Steps
  <2>7. CASE Join(r)
    <3>1. req' \in [Requests -> Records]
      BY <1>2, <2>7 DEF Join
    <3>2. role' \in [Users -> Roles]
      BY <2>7 DEF Join
    <3>3. invite' \in [Invites -> [state: InviteStates, email: Users \union {None},
                                   role: {"member", "owner"}]]
      <4>1. \/ invite' = invite
            \/ invite' = [invite EXCEPT ![req[r].invite].state = "accepted"]
        BY <2>7 DEF Join
      <4>2. QED
        BY <4>1 DEF InviteStates
    <3>4. QED
      BY <2>7, <3>1, <3>2, <3>3 DEF Join
  <2>8. CASE CountOwners(r)
    BY <1>2, <1>3, <2>8 DEF CountOwners, Steps
  <2>9. CASE WriteRole(r)
    BY <1>2, <2>9 DEF WriteRole
  <2>10. QED
    BY <1>5, <2>1, <2>2, <2>3, <2>4, <2>5, <2>6, <2>7, <2>8, <2>9 DEF Step
<1>6. ASSUME NEW r \in Requests, RequestDies(r) PROVE TypeOK'
  BY <1>2, <1>6 DEF RequestDies
<1>7. ASSUME NEW i \in Invites, DeleteInvitation(i) \/ Expire(i) PROVE TypeOK'
  BY <1>7 DEF DeleteInvitation, Expire, NoInvite, InviteStates
<1>8. ASSUME NEW l \in Limits, PlanChanges(l) PROVE TypeOK'
  BY <1>8 DEF PlanChanges
<1>9. ASSUME UNCHANGED vars PROVE TypeOK'
  BY <1>9 DEF vars
<1>10. QED
  BY <1>4, <1>5, <1>6, <1>7, <1>8, <1>9 DEF Next

(***************************************************************************)
(* What the first step of a request leaves behind.                         *)
(***************************************************************************)
LEMMA StartFacts ==
  ASSUME Types, NEW r \in Requests, Start(r)
  PROVE  /\ \A s \in Requests \ {r} : req'[s] = req[s]
         /\ req'[r].user \in Users
         /\ req'[r].pc \in {"isPending", "lockTeam", "countOwners", "writeRole"}
         /\ req'[r].pc = "isPending" => req'[r].role \in {"member", "owner"}
         /\ req'[r].pc \in {"countOwners", "writeRole"} => role[req'[r].user] # "none"
         /\ req'[r].pc = "writeRole" => ~ TakesOwnerAway(req'[r].user, req'[r].role)
         /\ UNCHANGED <<role, invite, seats, teamLock, peak, raced>>
<1> USE DEF Types, TypeOK, DataInv
<1>1. ASSUME NEW pc, NEW u, NEW i, NEW ro, req' = [req EXCEPT ![r] = Asks(pc, u, i, ro)]
      PROVE  /\ \A s \in Requests \ {r} : req'[s] = req[s]
             /\ req'[r].pc = pc /\ req'[r].user = u /\ req'[r].role = ro
  BY <1>1 DEF Asks
<1>2. ASSUME NEW u \in Users, NEW ro \in {"member", "owner"}, StartInvite(r, u, ro)
      PROVE  /\ req' = [req EXCEPT ![r] = Asks("isPending", u, None, ro)]
             /\ UNCHANGED <<role, invite, seats, teamLock, peak, raced>>
  BY <1>2 DEF StartInvite
<1>3. ASSUME NEW u \in Users, NEW ro \in Roles, ReadRole(r, u, ro)
      PROVE  /\ req' = [req EXCEPT ![r] = Asks(IF TakesOwnerAway(u, ro) THEN "countOwners"
                                              ELSE "writeRole", u, None, ro)]
             /\ role[u] # "none"
             /\ UNCHANGED <<role, invite, seats, teamLock, peak, raced>>
  BY <1>3 DEF ReadRole
<1>4. ASSUME NEW i \in Invites, ReadInvitation(r, i)
      PROVE  /\ req' = [req EXCEPT ![r] = Asks("lockTeam", invite[i].email, i, invite[i].role)]
             /\ invite[i].email \in Users
             /\ UNCHANGED <<role, invite, seats, teamLock, peak, raced>>
  BY <1>4 DEF ReadInvitation
<1>5. CASE \E u \in Users, ro \in {"member", "owner"} : StartInvite(r, u, ro)
  BY <1>1, <1>2, <1>5
<1>6. CASE \E u \in Users, ro \in Roles : ReadRole(r, u, ro)
  <2>1. PICK u \in Users, ro \in Roles : ReadRole(r, u, ro)
    BY <1>6
  <2>2. CASE TakesOwnerAway(u, ro)
    BY <1>1, <1>3, <2>1, <2>2
  <2>3. CASE ~ TakesOwnerAway(u, ro)
    BY <1>1, <1>3, <2>1, <2>3
  <2>4. QED
    BY <2>2, <2>3
<1>7. CASE \E i \in Invites : ReadInvitation(r, i)
  BY <1>1, <1>4, <1>7
<1>8. QED
  BY <1>5, <1>6, <1>7 DEF Start

LEMMA DataStep == Types /\ [Next]_vars => DataInv'
<1> SUFFICES ASSUME Types, [Next]_vars PROVE DataInv'
  OBVIOUS
<1> USE TeamAssumption DEF Types, TypeOK, DataInv
<1>1. ASSUME NEW r \in Requests, Start(r) PROVE DataInv'
  BY <1>1, StartFacts
<1>2. ASSUME NEW r \in Requests, Step(r) PROVE DataInv'
  <2>1. CASE CheckPending(r)
    BY <2>1 DEF CheckPending, At, Goto, End, Idle, Asks
  <2>2. CASE CountMembers(r)
    BY <2>2 DEF CountMembers, At, End, Idle, Asks
  <2>3. CASE CountPending(r)
    BY <2>3 DEF CountPending, At, Goto, End, Idle, Asks
  <2>4. CASE InsertInvite(r)
    <3>1. \A s \in Requests : req'[s] = IF s = r THEN Idle ELSE req[s]
      BY <2>4 DEF InsertInvite, End
    <3>2. \A i \in Invites : invite'[i].state # "absent" => invite'[i].email \in Users
      BY <2>4 DEF InsertInvite, At
    <3>3. QED
      BY <3>1, <3>2 DEF Idle, Asks
  <2>5. CASE LockTeam(r)
    BY <2>5 DEF LockTeam, At, Goto
  <2>6. CASE CountSeats(r)
    BY <2>6 DEF CountSeats, At, Goto, End, Idle, Asks
  <2>7. CASE Join(r)
    <3>1. \A s \in Requests : req'[s] = IF s = r THEN Idle ELSE req[s]
      BY <2>7 DEF Join, End
    <3>2. \A i \in Invites : /\ invite'[i].email = invite[i].email
                             /\ invite[i].state = "absent" => invite'[i].state = "absent"
      BY <2>7 DEF Join
    <3>3. QED
      BY <3>1, <3>2 DEF Idle, Asks
  <2>8. CASE CountOwners(r)
    BY <2>8 DEF CountOwners, At, Goto, End, Idle, Asks
  <2>9. CASE WriteRole(r)
    BY <2>9 DEF WriteRole, End, Idle, Asks
  <2>10. QED
    BY <1>2, <2>1, <2>2, <2>3, <2>4, <2>5, <2>6, <2>7, <2>8, <2>9 DEF Step
<1>3. ASSUME NEW r \in Requests, RequestDies(r) PROVE DataInv'
  BY <1>3 DEF RequestDies, End, Idle, Asks
<1>4. ASSUME NEW i \in Invites, DeleteInvitation(i) \/ Expire(i) PROVE DataInv'
  <2>1. CASE DeleteInvitation(i)
    BY <2>1 DEF DeleteInvitation, NoInvite
  <2>2. CASE Expire(i)
    BY <2>2 DEF Expire
  <2>3. QED
    BY <1>4, <2>1, <2>2
<1>5. ASSUME NEW l \in Limits, PlanChanges(l) PROVE DataInv'
  BY <1>5 DEF PlanChanges
<1>6. ASSUME UNCHANGED vars PROVE DataInv'
  BY <1>6 DEF vars
<1>7. QED
  BY <1>1, <1>2, <1>3, <1>4, <1>5, <1>6 DEF Next

(***************************************************************************)
(* The lock on the team.                                                   *)
(***************************************************************************)
LEMMA LockStep == Types /\ LockInv /\ [Next]_vars => LockInv'
<1> SUFFICES ASSUME Types, LockInv, [Next]_vars PROVE LockInv'
  OBVIOUS
<1> USE DEF Types, TypeOK, LockInv
<1>1. ASSUME NEW r \in Requests, Start(r) PROVE LockInv'
  BY <1>1, StartFacts
<1>2. ASSUME NEW r \in Requests, LockTeam(r) PROVE LockInv'
  BY <1>2, TeamAssumption DEF LockTeam, Goto
<1>3. ASSUME NEW r \in Requests, CountSeats(r) \/ Join(r) PROVE LockInv'
  BY <1>3 DEF CountSeats, Join, At, Goto, End, Idle, Asks
<1>4. ASSUME NEW r \in Requests, RequestDies(r) PROVE LockInv'
  BY <1>4 DEF RequestDies, End, Idle, Asks
<1>5. ASSUME NEW r \in Requests, CheckPending(r) \/ CountMembers(r) \/ CountPending(r)
                                 \/ InsertInvite(r) \/ CountOwners(r) \/ WriteRole(r)
      PROVE LockInv'
  <2>1. UNCHANGED teamLock
    BY <1>5 DEF CheckPending, CountMembers, CountPending, InsertInvite, CountOwners, WriteRole
  <2>2. /\ \A s \in Requests \ {r} : req'[s] = req[s]
        /\ req'[r].pc \notin {"countSeats", "join"}
    BY <1>5 DEF CheckPending, CountMembers, CountPending, InsertInvite, CountOwners, WriteRole,
       Goto, End, Idle, Asks
  <2>3. QED
    BY <2>1, <2>2
<1>6. ASSUME UNCHANGED <<req, teamLock>> PROVE LockInv'
  BY <1>6
<1>7. QED
  BY <1>1, <1>2, <1>3, <1>4, <1>5, <1>6
     DEF Next, Step, DeleteInvitation, Expire, PlanChanges, vars

(***************************************************************************)
(* Seats.                                                                  *)
(***************************************************************************)
LEMMA Shrink ==
  ASSUME NEW S \in SUBSET Users, NEW T \in SUBSET S, NEW n \in Nat, Cardinality(S) <= n
  PROVE  Cardinality(T) <= n
<1>1. IsFiniteSet(S) /\ IsFiniteSet(T)
  BY FiniteMembers
<1>2. Cardinality(T) <= Cardinality(S)
  BY <1>1, FS_Subset
<1>3. QED
  BY <1>2, FiniteMembers

LEMMA SeatStep == Types /\ LockInv /\ SeatInv /\ [Next]_vars => SeatInv'
<1> SUFFICES ASSUME Types, LockInv, SeatInv, [Next]_vars PROVE SeatInv'
  OBVIOUS
<1> USE DEF Types
<1>0. /\ Members \in SUBSET Users /\ Limits \subseteq Nat /\ peak \in Nat /\ seats \in Nat
      /\ seats <= peak /\ Cardinality(Members) <= peak
      /\ \A r \in Requests : req[r].pc = "join" =>
            Cardinality(Members \union {req[r].user}) <= peak
      /\ \A r \in Requests : req[r].pc # "idle" => req[r].user \in Users
  BY TeamAssumption DEF TypeOK, DataInv, SeatInv, SeatsRespected, Members
<1>1. ASSUME UNCHANGED <<role, seats, peak>>,
             \A r \in Requests : \/ req'[r].pc # "join"
                                 \/ req'[r] = req[r]
      PROVE  SeatInv'
  <2>1. Members' = Members
    BY <1>1 DEF Members
  <2>2. QED
    BY <1>0, <1>1, <2>1 DEF SeatInv, SeatsRespected
<1>2. ASSUME NEW r \in Requests, Start(r) PROVE SeatInv'
  BY <1>1, <1>2, StartFacts
<1>3. ASSUME NEW r \in Requests, LockTeam(r) PROVE SeatInv'
  <2>1. CASE req[r].user \in Members
    <3>1. /\ \A s \in Requests \ {r} : req'[s] = req[s]
          /\ req'[r].user = req[r].user
          /\ UNCHANGED <<role, seats, peak>>
      BY <1>3 DEF LockTeam, Goto, TypeOK
    <3>2. Members' = Members /\ Members \union {req[r].user} = Members
      BY <2>1, <3>1 DEF Members
    <3>3. QED
      BY <1>0, <3>1, <3>2 DEF SeatInv, SeatsRespected
  <2>2. CASE req[r].user \notin Members
    <3>1. /\ \A s \in Requests \ {r} : req'[s] = req[s]
          /\ req'[r].pc = "countSeats"
          /\ UNCHANGED <<role, seats, peak>>
      BY <1>3, <2>2 DEF LockTeam, Goto, TypeOK
    <3>2. QED
      BY <1>1, <3>1
  <2>3. QED
    BY <2>1, <2>2
<1>4. ASSUME NEW r \in Requests, CountSeats(r) PROVE SeatInv'
  <2>1. CASE Cardinality(Members) >= seats
    BY <1>1, <1>4, <2>1 DEF CountSeats, End, Idle, Asks, TypeOK
  <2>2. CASE ~ (Cardinality(Members) >= seats)
    <3>1. /\ \A s \in Requests \ {r} : req'[s] = req[s]
          /\ req'[r].user = req[r].user
          /\ UNCHANGED <<role, seats, peak>>
      BY <1>4, <2>2 DEF CountSeats, Goto, TypeOK
    <3>2. Members' = Members
      BY <3>1 DEF Members
    <3>3. Cardinality(Members \union {req[r].user}) <= Cardinality(Members) + 1
      <4>1. IsFiniteSet(Members) /\ Cardinality(Members) \in Nat
        BY <1>0, FiniteMembers
      <4>2. \/ Cardinality(Members \union {req[r].user}) = Cardinality(Members)
            \/ Cardinality(Members \union {req[r].user}) = Cardinality(Members) + 1
        BY <4>1, FS_AddElement
      <4>3. QED
        BY <4>1, <4>2
    <3>4. req[r].user \in Users
      BY <1>0, <1>4 DEF CountSeats, At
    <3>5. Members \union {req[r].user} \in SUBSET Users
      BY <1>0, <3>4
    <3>6. Cardinality(Members \union {req[r].user}) <= peak
      BY <1>0, <2>2, <3>3, <3>5, FiniteMembers
    <3>7. QED
      BY <1>0, <3>1, <3>2, <3>6 DEF SeatInv, SeatsRespected
  <2>3. QED
    BY <2>1, <2>2
<1>5. ASSUME NEW r \in Requests, Join(r) PROVE SeatInv'
  <2>1. /\ \A s \in Requests \ {r} : req'[s] = req[s]
        /\ req'[r].pc # "join"
        /\ UNCHANGED <<seats, peak>>
    BY <1>5 DEF Join, End, Idle, Asks, TypeOK
  <2>2. Members' \subseteq Members \union {req[r].user}
    BY <1>5 DEF Join, Members, TypeOK
  <2>3. Members \union {req[r].user} \in SUBSET Users
    BY <1>0, <1>5 DEF Join, At
  <2>4. Cardinality(Members') <= peak
    BY <1>0, <1>5, <2>2, <2>3, Shrink DEF Join, At
  <2>5. \A s \in Requests : req'[s].pc # "join"
    BY <1>5, <2>1, TeamAssumption DEF Join, At, LockInv
  <2>6. QED
    BY <1>0, <2>1, <2>4, <2>5 DEF SeatInv, SeatsRespected
<1>6. ASSUME NEW r \in Requests, WriteRole(r) PROVE SeatInv'
  <2>1. /\ \A s \in Requests \ {r} : req'[s] = req[s]
        /\ req'[r].pc # "join"
        /\ UNCHANGED <<seats, peak>>
    BY <1>6 DEF WriteRole, End, Idle, Asks, TypeOK
  <2>2. Members' \subseteq Members
    BY <1>6 DEF WriteRole, Members, TypeOK
  <2>3. Cardinality(Members') <= peak
    BY <1>0, <2>2, Shrink
  <2>4. ASSUME NEW s \in Requests, req'[s].pc = "join"
        PROVE  Cardinality(Members' \union {req'[s].user}) <= peak'
    <3>1. req'[s] = req[s] /\ req[s].user \in Users
      BY <1>0, <2>1, <2>4
    <3>2. /\ Members \union {req[s].user} \in SUBSET Users
          /\ Members' \union {req[s].user} \subseteq Members \union {req[s].user}
      BY <1>0, <2>2, <3>1
    <3>3. Cardinality(Members \union {req[s].user}) <= peak
      BY <1>0, <2>4, <3>1
    <3>4. Cardinality(Members' \union {req[s].user}) <= peak
      BY <1>0, <3>2, <3>3, Shrink
    <3>5. QED
      BY <2>1, <3>1, <3>4
  <2>5. QED
    BY <1>0, <2>1, <2>3, <2>4 DEF SeatInv, SeatsRespected
<1>7. ASSUME NEW r \in Requests, CheckPending(r) \/ CountMembers(r) \/ CountPending(r)
                                 \/ InsertInvite(r) \/ CountOwners(r) \/ RequestDies(r)
      PROVE SeatInv'
  <2>1. /\ \A s \in Requests \ {r} : req'[s] = req[s]
        /\ req'[r].pc # "join"
        /\ UNCHANGED <<role, seats, peak>>
    BY <1>7 DEF CheckPending, CountMembers, CountPending, InsertInvite, CountOwners, RequestDies,
       Goto, End, Idle, Asks, TypeOK
  <2>2. QED
    BY <1>1, <2>1
<1>8. ASSUME NEW i \in Invites, DeleteInvitation(i) \/ Expire(i) PROVE SeatInv'
  BY <1>1, <1>8 DEF DeleteInvitation, Expire
<1>9. ASSUME NEW l \in Limits, PlanChanges(l) PROVE SeatInv'
  <2>1. /\ UNCHANGED <<role, req>> /\ seats' = l /\ peak' = IF l > peak THEN l ELSE peak
    BY <1>9 DEF PlanChanges
  <2>2. Members' = Members /\ l \in Nat /\ peak' \in Nat /\ peak <= peak' /\ l <= peak'
    BY <1>0, <2>1 DEF Members
  <2>3. \A r \in Requests : req[r].pc = "join" =>
            Cardinality(Members \union {req[r].user}) \in Nat
    BY <1>0, FiniteMembers
  <2>4. Cardinality(Members) \in Nat
    BY <1>0, FiniteMembers
  <2>5. QED
    BY <1>0, <2>1, <2>2, <2>3, <2>4 DEF SeatInv, SeatsRespected
<1>10. ASSUME UNCHANGED vars PROVE SeatInv'
  BY <1>1, <1>10 DEF vars
<1>11. QED
  BY <1>2, <1>3, <1>4, <1>5, <1>6, <1>7, <1>8, <1>9, <1>10 DEF Next, Step

(***************************************************************************)
(* Owners.                                                                 *)
(***************************************************************************)
LEMMA OwnerStep == Types /\ OwnerInv /\ [Next]_vars => OwnerInv'
<1> SUFFICES ASSUME Types, OwnerInv, [Next]_vars, ~ raced' PROVE OwnerInv'
  BY DEF OwnerInv
<1> USE DEF Types
<1>0. ~ raced
  BY DEF Next, Start, Step, StartInvite, ReadRole, ReadInvitation, CheckPending, CountMembers,
     CountPending, InsertInvite, LockTeam, CountSeats, Join, CountOwners, WriteRole,
     RequestDies, DeleteInvitation, Expire, PlanChanges, vars
<1>1. /\ Owners # {}
      /\ \A r \in Requests :
            /\ req[r].pc \in {"countOwners", "writeRole"} => role[req[r].user] # "none"
            /\ req[r].pc = "writeRole" /\ TakesOwnerAway(req[r].user, req[r].role) =>
                  OtherOwner(req[r].user)
            /\ req[r].pc # "idle" => req[r].user \in Users
  BY <1>0 DEF OwnerInv, DataInv
<1>2. ASSUME role' = role,
             \A r \in Requests : \/ req'[r].pc \notin {"countOwners", "writeRole"}
                                 \/ req'[r] = req[r]
      PROVE  OwnerInv'
  BY <1>1, <1>2 DEF OwnerInv, Owners, TakesOwnerAway, OtherOwner
<1>3. ASSUME NEW r \in Requests, Start(r) PROVE OwnerInv'
  <2>1. /\ role' = role
        /\ \A s \in Requests \ {r} : req'[s] = req[s]
        /\ req'[r].pc \in {"countOwners", "writeRole"} => role[req'[r].user] # "none"
        /\ req'[r].pc = "writeRole" => ~ TakesOwnerAway(req'[r].user, req'[r].role)
    BY <1>3, StartFacts
  <2>2. QED
    BY <1>1, <2>1 DEF OwnerInv, Owners, TakesOwnerAway, OtherOwner
<1>4. ASSUME NEW r \in Requests, CountOwners(r) PROVE OwnerInv'
  <2>1. CASE LastOwner
    BY <1>2, <1>4, <2>1 DEF CountOwners, End, Idle, Asks, TypeOK
  <2>2. CASE ~ LastOwner
    <3>1. /\ role' = role
          /\ \A s \in Requests \ {r} : req'[s] = req[s]
          /\ req'[r].user = req[r].user /\ req'[r].role = req[r].role
          /\ req[r].pc = "countOwners"
      BY <1>4, <2>2 DEF CountOwners, At, Goto, TypeOK
    <3>2. ASSUME ~ OtherOwner(req[r].user) PROVE FALSE
      <4>1. Owners \subseteq {req[r].user}
        BY <3>2 DEF OtherOwner
      <4>2. IsFiniteSet({req[r].user}) /\ Cardinality({req[r].user}) = 1
        BY FS_Singleton
      <4>3. Cardinality(Owners) <= 1
        BY <4>1, <4>2, FS_Subset
      <4>4. QED
        BY <2>2, <4>3 DEF LastOwner
    <3>3. QED
      BY <1>1, <3>1, <3>2 DEF OwnerInv, Owners, TakesOwnerAway, OtherOwner
  <2>3. QED
    BY <2>1, <2>2
<1>5. ASSUME NEW r \in Requests, Join(r) PROVE OwnerInv'
  <2>1. /\ \A s \in Requests \ {r} : req'[s] = req[s]
        /\ req'[r].pc = "idle"
    BY <1>5 DEF Join, End, Idle, Asks, TypeOK
  <2>2. \A u \in Users : role[u] # "none" => role'[u] = role[u]
    BY <1>5 DEF Join, TypeOK
  <2>3. Owners \subseteq Owners'
    BY <2>2 DEF Owners
  <2>4. QED
    BY <1>1, <2>1, <2>2, <2>3 DEF OwnerInv, TakesOwnerAway, OtherOwner
<1>6. ASSUME NEW r \in Requests, WriteRole(r) PROVE OwnerInv'
  <2>1. /\ req[r].pc = "writeRole"
        /\ \A u \in Users \ {req[r].user} : role'[u] = role[u]
        /\ req[r].user \in Users
        /\ role[req[r].user] # "none"
        /\ role'[req[r].user] = req[r].role
    BY <1>1, <1>6 DEF WriteRole, At, TypeOK
  <2>2. \A s \in Requests : req'[s].pc \notin {"countOwners", "writeRole"}
    BY <1>6 DEF WriteRole, End, Idle, Asks, TypeOK
  <2>3. Owners' # {}
    <3>1. CASE OtherOwner(req[r].user)
      BY <2>1, <3>1 DEF OtherOwner, Owners
    <3>2. CASE ~ OtherOwner(req[r].user)
      <4>1. role[req[r].user] = "owner"
        BY <1>1, <3>2 DEF OtherOwner, Owners
      <4>2. req[r].role = "owner"
        BY <1>1, <2>1, <3>2, <4>1 DEF TakesOwnerAway
      <4>3. QED
        BY <2>1, <4>2 DEF Owners
    <3>3. QED
      BY <3>1, <3>2
  <2>4. QED
    BY <2>2, <2>3 DEF OwnerInv
<1>7. ASSUME NEW r \in Requests,
             CheckPending(r) \/ CountMembers(r) \/ CountPending(r) \/ InsertInvite(r)
                \/ LockTeam(r) \/ CountSeats(r) \/ RequestDies(r)
      PROVE OwnerInv'
  <2>1. /\ role' = role
        /\ \A s \in Requests \ {r} : req'[s] = req[s]
        /\ req'[r].pc \notin {"countOwners", "writeRole"}
    BY <1>7 DEF CheckPending, CountMembers, CountPending, InsertInvite, LockTeam, CountSeats,
       RequestDies, Goto, End, Idle, Asks, TypeOK
  <2>2. QED
    BY <1>2, <2>1
<1>8. ASSUME UNCHANGED <<role, req>> PROVE OwnerInv'
  BY <1>2, <1>8
<1>9. QED
  BY <1>3, <1>4, <1>5, <1>6, <1>7, <1>8 DEF Next, Step, DeleteInvitation, Expire, PlanChanges, vars

(***************************************************************************)
(* The theorems.                                                           *)
(***************************************************************************)
LEMMA InvStep == TeamInv /\ [Next]_vars => TeamInv'
  BY TypesStep, DataStep, LockStep, SeatStep, OwnerStep DEF TeamInv, Types

LEMMA Invariance == Spec => []TeamInv
<1>1. QED
  BY InvInit, InvStep, PTL DEF Spec

(***************************************************************************)
(* Every variable keeps its type (invites-core.ts).                        *)
(***************************************************************************)
THEOREM TeamTypes == Spec => []TypeOK
<1>1. TeamInv => TypeOK
  BY DEF TeamInv, Types
<1>2. QED
  BY <1>1, Invariance, PTL

(***************************************************************************)
(* However many invitations are accepted at once, the team never outgrows  *)
(* the largest seat limit it has had (acceptInvitation).                   *)
(***************************************************************************)
THEOREM SeatsAreRespected == Spec => []SeatsRespected
<1>1. TeamInv => SeatsRespected
  BY DEF TeamInv, SeatInv
<1>2. QED
  BY <1>1, Invariance, PTL

(***************************************************************************)
(* Unless two role changes overlap, the team keeps an owner                *)
(* (updateMemberRole, removeMember).                                       *)
(***************************************************************************)
THEOREM OwnerIsKept == Spec => []KeepsOwner
<1>1. TeamInv => KeepsOwner
  BY DEF TeamInv, OwnerInv, KeepsOwner
<1>2. QED
  BY <1>1, Invariance, PTL

-----------------------------------------------------------------------------
(* Billing.                                                                *)

Objects == [state : {"none", "live", "ended"}, plan : Paid, status : Statuses, cancels : BOOLEAN]
Events  == [kind : Kinds, sub : Subs, plan : Paid, status : Statuses, cancels : BOOLEAN]
Rows    == [plan : Paid \union {"free"}, status : Statuses \union {"canceled"},
            sub : Subs \union {NoSub}, customer : BOOLEAN, cancels : BOOLEAN]

BillingTypes ==
    /\ sold \in [Subs -> Objects]
    /\ events \in Seq(Events)
    /\ unanswered \subseteq DOMAIN events
    /\ row \in Rows
    /\ seen \subseteq DOMAIN events
    /\ at \in [Deliveries -> [pc : {"idle", "found", "notify"}, event : Nat, hit : BOOLEAN]]
    /\ told \subseteq DOMAIN events
    /\ faults \in 0..MaxFaults
    /\ inOrder \in BOOLEAN

-----------------------------------------------------------------------------
(* What a sequence of Stripe's events says.                                *)

\* j is the last of the first k events that says anything but that a payment failed.
LastChange(es, j, k) ==
    /\ j \in 1..k /\ es[j].kind # "invoice"
    /\ \A i \in (j + 1)..k : es[i].kind = "invoice"

\* A checkout is among the first k events, so the customer is known.
Known(es, k) == \E i \in 1..k : es[i].kind = "checkout"

(***************************************************************************)
(* A checkout announces an active subscription and follows on nothing, on  *)
(* a deletion or on the announcement of the same subscription; a deletion  *)
(* ends the subscription of the last change, and neither it nor a failed   *)
(* payment comes before a checkout.                                        *)
(***************************************************************************)
Orderly(es, i) ==
    /\ es[i].kind = "checkout" =>
          /\ es[i].status = "active" /\ ~ es[i].cancels
          /\ i = 1 \/ es[i - 1].kind = "deleted" \/ es[i - 1].kind = "subscription"
          /\ i # 1 /\ es[i - 1].kind = "subscription" => ~ es[i - 1].cancels
    /\ es[i].kind \in {"deleted", "invoice"} => Known(es, i - 1)
    /\ es[i].kind = "deleted" =>
          \E j \in 1..(i - 1) : /\ LastChange(es, j, i - 1)
                                /\ es[j].kind # "deleted" /\ es[j].sub = es[i].sub

HistoryInv == \A i \in DOMAIN events : Orderly(events, i)

\* The event announces the subscription s as o.
Tells(e, s, o) == /\ e.kind # "deleted" /\ e.sub = s
                  /\ e.plan = o.plan /\ e.status = o.status /\ e.cancels = o.cancels

Live == {s \in Subs : sold[s].state = "live"}

(***************************************************************************)
(* At most one subscription is live, and the last change tells its state.  *)
(***************************************************************************)
SoldInv ==
    /\ Live = {} => events = <<>> \/ events[Len(events)].kind = "deleted"
    /\ \A s \in Live :
          /\ Live = {s}
          /\ Known(events, Len(events))
          /\ \E j \in 1..Len(events) :
                LastChange(events, j, Len(events)) /\ Tells(events[j], s, sold[s])

-----------------------------------------------------------------------------
(* What the route has made of them.                                        *)

(***************************************************************************)
(* A delivery holds an event nobody else holds and that is not in          *)
(* webhook_events yet.                                                     *)
(***************************************************************************)
HoldInv ==
    /\ \A d \in Deliveries : at[d].pc = "found" =>
          /\ at[d].event \in DOMAIN events \ seen
          /\ inOrder => 1..(at[d].event - 1) \subseteq seen
          /\ \A x \in Deliveries : at[x].pc = "found" /\ at[x].event = at[d].event => x = d
    /\ \A d \in Deliveries : at[d].pc = "notify" =>
          at[d].event \in seen /\ events[at[d].event].kind = "invoice"

\* The row an event asks for.
Asked(e) == IF e.kind = "deleted"
            THEN [plan |-> "free", status |-> "active", sub |-> NoSub, customer |-> TRUE, cancels |-> FALSE]
            ELSE SubscriptionChanged(e)

(***************************************************************************)
(* The row is what the last change of the first k events asks for, once    *)
(* the customer is known.                                                  *)
(***************************************************************************)
Agrees(k) ==
    /\ ~ Known(events, k) => row = Free
    /\ Known(events, k) =>
          /\ row.customer = TRUE
          /\ \A j \in 1..k : LastChange(events, j, k) => row = Asked(events[j])

(***************************************************************************)
(* In order, what was handled is a prefix, the row agrees with it, and     *)
(* what the delivery of the next event has found still holds.              *)
(***************************************************************************)
PrefixInv ==
    inOrder =>
        \E k \in 0..Len(events) :
            /\ seen = 1..k
            /\ Agrees(k)
            /\ \A d \in Deliveries :
                  at[d].pc = "found" => (at[d].hit <=> Matches(events[at[d].event]))

BillingInv == BillingTypes /\ HistoryInv /\ SoldInv /\ HoldInv /\ PrefixInv /\ PaymentFailureIsTold

-----------------------------------------------------------------------------
(* Lemmas about sequences of events.                                       *)

(***************************************************************************)
(* What is said of the first k events depends on these only.               *)
(***************************************************************************)
LEMMA SamePrefix ==
  ASSUME NEW es, NEW fs, NEW k \in Nat, \A i \in 1..k : fs[i] = es[i]
  PROVE  /\ Known(fs, k) <=> Known(es, k)
         /\ \A j \in 1..k : LastChange(fs, j, k) <=> LastChange(es, j, k)
BY DEF Known, LastChange

LEMMA SameOrderly ==
  ASSUME NEW es, NEW fs, NEW n \in Nat, \A i \in 1..n : fs[i] = es[i],
         NEW i \in 1..n, Orderly(es, i)
  PROVE  Orderly(fs, i)
<1>1. \A j \in 1..(i - 1) : fs[j] = es[j]
  OBVIOUS
<1>2. /\ Known(fs, i - 1) <=> Known(es, i - 1)
      /\ \A j \in 1..(i - 1) : LastChange(fs, j, i - 1) <=> LastChange(es, j, i - 1)
  BY <1>1, SamePrefix
<1>3. fs[i] = es[i] /\ (i # 1 => fs[i - 1] = es[i - 1])
  OBVIOUS
<1>4. QED
  BY <1>1, <1>2, <1>3 DEF Orderly

LEMMA LastIsLast ==
  ASSUME NEW es, NEW k \in Nat \ {0}, es[k].kind # "invoice"
  PROVE  /\ LastChange(es, k, k)
         /\ \A j \in 1..k : LastChange(es, j, k) => j = k
BY DEF LastChange

LEMMA NextIsInvoice ==
  ASSUME NEW es, NEW k \in Nat, es[k + 1].kind = "invoice"
  PROVE  \A j \in 1..(k + 1) : LastChange(es, j, k + 1) <=> j \in 1..k /\ LastChange(es, j, k)
BY DEF LastChange

LEMMA KnownGrows ==
  ASSUME NEW es, NEW k \in Nat
  PROVE  /\ Known(es, k + 1) <=> Known(es, k) \/ es[k + 1].kind = "checkout"
         /\ \A m \in Nat : m >= k /\ Known(es, k) => Known(es, m)
BY DEF Known

(***************************************************************************)
(* New events leave the older ones as they are.                            *)
(***************************************************************************)
LEMMA EmitAppends ==
  ASSUME events \in Seq(Events), NEW new \in Seq(Events), events' = events \o new
  PROVE  /\ events' \in Seq(Events)
         /\ Len(events') = Len(events) + Len(new)
         /\ Len(events) \in Nat /\ DOMAIN events = 1..Len(events)
         /\ DOMAIN events' = 1..Len(events')
         /\ \A i \in 1..Len(events) : events'[i] = events[i]
         /\ \A i \in 1..Len(new) : events'[Len(events) + i] = new[i]
OBVIOUS

LEMMA EmitOne ==
  ASSUME events \in Seq(Events), NEW e \in Events, events' = events \o <<e>>, NEW n, n = Len(events)
  PROVE  /\ events' \in Seq(Events) /\ Len(events') = n + 1 /\ n \in Nat
         /\ DOMAIN events = 1..n /\ DOMAIN events' = 1..(n + 1)
         /\ \A i \in 1..n : events'[i] = events[i]
         /\ events'[n + 1] = e
<1>1. PICK new : new = <<e>>
  OBVIOUS
<1>2. new \in Seq(Events) /\ Len(new) = 1 /\ new[1] = e
  BY <1>1
<1>3. QED
  BY <1>1, <1>2, EmitAppends

LEMMA EmitTwo ==
  ASSUME events \in Seq(Events), NEW e \in Events, NEW f \in Events, events' = events \o <<e, f>>,
         NEW n, n = Len(events)
  PROVE  /\ events' \in Seq(Events) /\ Len(events') = n + 2 /\ n \in Nat
         /\ DOMAIN events = 1..n /\ DOMAIN events' = 1..(n + 2)
         /\ \A i \in 1..n : events'[i] = events[i]
         /\ events'[n + 1] = e /\ events'[n + 2] = f
<1>1. PICK new : new = <<e, f>>
  OBVIOUS
<1>2. new \in Seq(Events) /\ Len(new) = 2 /\ new[1] = e /\ new[2] = f
  BY <1>1
<1>3. QED
  BY <1>1, <1>2, EmitAppends

LEMMA ShownIs ==
  ASSUME NEW s \in Subs
  PROVE  Shown[s] = [plan |-> sold[s].plan, status |-> StatusOf(sold[s].status), sub |-> s,
                     customer |-> TRUE, cancels |-> sold[s].cancels]
BY DEF Shown, Free

-----------------------------------------------------------------------------
(* Stripe's steps.                                                         *)

LEMMA CheckoutKeeps ==
  ASSUME BillingTypes, HistoryInv, SoldInv, NEW s \in Subs, NEW p \in Paid, Checkout(s, p)
  PROVE  /\ sold' \in [Subs -> Objects] /\ events' \in Seq(Events)
         /\ HistoryInv' /\ SoldInv'
<1> DEFINE o       == [state |-> "live", plan |-> p, status |-> "active", cancels |-> FALSE]
           session == Event("checkout", s, o)
           created == Event("subscription", s, o)
           n       == Len(events)
<1>1. /\ sold' = [sold EXCEPT ![s] = o]
      /\ \A t \in Subs : sold[t].state # "live"
  BY DEF Checkout
<1>2. o \in Objects /\ session \in Events /\ created \in Events
  BY BillingAssumption DEF Objects, Events, Event, Kinds
<1>3. /\ session.kind = "checkout" /\ session.status = "active" /\ session.cancels = FALSE
      /\ created.kind = "subscription" /\ created.cancels = FALSE
      /\ \A e \in {session, created} :
            e.sub = s /\ e.plan = p /\ e.status = "active" /\ e.cancels = FALSE
  BY DEF Event
<1>4. PICK first \in {session, created}, second \in {session, created} :
         first # second /\ events' = events \o <<first, second>>
  BY <1>3 DEF Checkout, Emit
<1> HIDE DEF session, created
<1>5. /\ events' \in Seq(Events) /\ Len(events') = n + 2 /\ n \in Nat
      /\ DOMAIN events = 1..n /\ DOMAIN events' = 1..(n + 2)
      /\ \A i \in 1..n : events'[i] = events[i]
      /\ events'[n + 1] = first /\ events'[n + 2] = second
  BY <1>2, <1>4, EmitTwo DEF BillingTypes
<1>6. n = 0 \/ events[n].kind = "deleted"
  <2>1. Live = {}
    BY <1>1 DEF Live
  <2>2. QED
    BY <1>5, <2>1 DEF SoldInv
<1>7. HistoryInv'
  <2>1. ASSUME NEW i \in 1..n PROVE Orderly(events', i)
    BY <1>5, SameOrderly DEF HistoryInv
  <2>2. Orderly(events', n + 1)
    <3>1. n + 1 # 1 => events'[(n + 1) - 1].kind = "deleted"
      BY <1>5, <1>6
    <3>2. QED
      BY <1>5, <1>3, <3>1 DEF Orderly
  <2>3. Orderly(events', n + 2)
    <3>1. events'[(n + 2) - 1] = first
      BY <1>5
    <3>2. second = session => first = created
      BY <1>4
    <3>3. QED
      BY <1>5, <1>3, <3>1, <3>2 DEF Orderly
  <2>4. QED
    BY <1>5, <2>1, <2>2, <2>3 DEF HistoryInv
<1>8. SoldInv'
  <2>1. sold' \in [Subs -> Objects] /\ sold'[s] = o /\ Live' = {s}
    BY <1>1, <1>2 DEF Live, BillingTypes
  <2>2. Known(events', n + 2)
    BY <1>4, <1>5, <1>3 DEF Known
  <2>3. LastChange(events', n + 2, n + 2) /\ n + 2 \in 1..(n + 2)
    BY <1>5, <1>3, LastIsLast
  <2>4. Tells(second, s, sold'[s])
    <3>1. second.kind # "deleted" /\ second.sub = s /\ second.plan = p
          /\ second.status = "active" /\ second.cancels = FALSE
      BY <1>3
    <3>2. o.plan = p /\ o.status = "active" /\ o.cancels = FALSE
      OBVIOUS
    <3>3. QED
      BY <2>1, <3>1, <3>2 DEF Tells
  <2>5. QED
    BY <1>5, <2>1, <2>2, <2>3, <2>4 DEF SoldInv
<1>9. QED
  BY <1>1, <1>2, <1>5, <1>7, <1>8 DEF BillingTypes

(***************************************************************************)
(* A change of the live subscription is the last change from then on.      *)
(***************************************************************************)
LEMMA UpdateKeeps ==
  ASSUME BillingTypes, HistoryInv, SoldInv, NEW s \in Subs, NEW p \in Paid,
         NEW status \in Statuses, NEW cancels \in BOOLEAN, Update(s, p, status, cancels)
  PROVE  /\ sold' \in [Subs -> Objects] /\ events' \in Seq(Events)
         /\ HistoryInv' /\ SoldInv'
<1> DEFINE o == [state |-> "live", plan |-> p, status |-> status, cancels |-> cancels]
           e == Event("subscription", s, o)
           n == Len(events)
<1>1. sold' = [sold EXCEPT ![s] = o] /\ s \in Live /\ events' = events \o <<e>>
  BY DEF Update, Live, Emit
<1>2. o \in Objects /\ e \in Events
  BY DEF Objects, Events, Event, Kinds
<1>3. e.kind = "subscription" /\ e.sub = s /\ e.plan = p /\ e.status = status /\ e.cancels = cancels
  BY DEF Event
<1> HIDE DEF e
<1>4. /\ events' \in Seq(Events) /\ Len(events') = n + 1 /\ n \in Nat
      /\ DOMAIN events = 1..n /\ DOMAIN events' = 1..(n + 1)
      /\ \A i \in 1..n : events'[i] = events[i]
      /\ events'[n + 1] = e
  BY <1>1, <1>2, EmitOne DEF BillingTypes
<1>5. HistoryInv'
  <2>1. ASSUME NEW i \in 1..n PROVE Orderly(events', i)
    BY <1>4, SameOrderly DEF HistoryInv
  <2>2. Orderly(events', n + 1)
    BY <1>4, <1>3 DEF Orderly
  <2>3. QED
    BY <1>4, <2>1, <2>2 DEF HistoryInv
<1>6. SoldInv'
  <2>1. sold' \in [Subs -> Objects] /\ sold'[s] = o /\ Live' = {s}
    BY <1>1, <1>2 DEF Live, BillingTypes, SoldInv
  <2>2. Known(events', n + 1)
    BY <1>1, <1>4, SamePrefix, KnownGrows DEF SoldInv
  <2>3. LastChange(events', n + 1, n + 1) /\ n + 1 \in 1..(n + 1)
    BY <1>4, <1>3, LastIsLast
  <2>4. Tells(e, s, sold'[s])
    BY <1>3, <2>1 DEF Tells
  <2>5. QED
    BY <1>4, <2>1, <2>2, <2>3, <2>4 DEF SoldInv
<1>7. QED
  BY <1>1, <1>2, <1>4, <1>5, <1>6 DEF BillingTypes

(***************************************************************************)
(* The end of the live subscription leaves none, and a last change that    *)
(* says so.                                                                *)
(***************************************************************************)
LEMMA DeleteKeeps ==
  ASSUME BillingTypes, HistoryInv, SoldInv, NEW s \in Subs, Delete(s)
  PROVE  /\ sold' \in [Subs -> Objects] /\ events' \in Seq(Events)
         /\ HistoryInv' /\ SoldInv'
<1> DEFINE e == Event("deleted", s, sold[s])
           n == Len(events)
<1>1. s \in Live /\ events' = events \o <<e>>
  BY DEF Delete, Live, Emit
<1>2. e \in Events
  BY DEF Objects, Events, Event, Kinds, BillingTypes
<1>3. e.kind = "deleted" /\ e.sub = s
  BY DEF Event
<1> HIDE DEF e
<1>4. /\ events' \in Seq(Events) /\ Len(events') = n + 1 /\ n \in Nat
      /\ DOMAIN events = 1..n /\ DOMAIN events' = 1..(n + 1)
      /\ \A i \in 1..n : events'[i] = events[i]
      /\ events'[n + 1] = e
  BY <1>1, <1>2, EmitOne DEF BillingTypes
<1>5. sold' \in [Subs -> Objects] /\ sold'[s].state = "ended"
      /\ \A t \in Subs : t # s => sold'[t] = sold[t]
  <2>1. sold' = [sold EXCEPT ![s] = [sold[s] EXCEPT !.state = "ended"]]
    BY DEF Delete
  <2>2. [sold[s] EXCEPT !.state = "ended"] \in Objects
    BY DEF BillingTypes, Objects
  <2>3. QED
    BY <2>1, <2>2 DEF BillingTypes, Objects
<1>6. HistoryInv'
  <2>1. ASSUME NEW i \in 1..n PROVE Orderly(events', i)
    BY <1>4, SameOrderly DEF HistoryInv
  <2>2. Orderly(events', n + 1)
    <3>1. Known(events', n)
      BY <1>1, <1>4, SamePrefix DEF SoldInv
    <3>2. PICK j \in 1..n : LastChange(events, j, n) /\ events[j].kind # "deleted" /\ events[j].sub = s
      BY <1>1 DEF SoldInv, Tells
    <3>3. LastChange(events', j, n) /\ events'[j] = events[j]
      BY <1>4, <3>2, SamePrefix
    <3>4. (n + 1) - 1 = n
      BY <1>4
    <3>5. QED
      BY <1>4, <1>3, <3>1, <3>2, <3>3, <3>4 DEF Orderly
  <2>3. QED
    BY <1>4, <2>1, <2>2 DEF HistoryInv
<1>7. Live' = {}
  BY <1>1, <1>5 DEF Live, SoldInv
<1>8. SoldInv'
  BY <1>4, <1>3, <1>7 DEF SoldInv
<1>9. QED
  BY <1>4, <1>5, <1>6, <1>8

(***************************************************************************)
(* A failed payment changes no subscription, and comes after a checkout.   *)
(***************************************************************************)
LEMMA PaymentFailsKeeps ==
  ASSUME BillingTypes, HistoryInv, SoldInv, NEW s \in Subs, PaymentFails(s)
  PROVE  /\ sold' \in [Subs -> Objects] /\ events' \in Seq(Events)
         /\ HistoryInv' /\ SoldInv'
<1> DEFINE e == Event("invoice", s, sold[s])
           n == Len(events)
<1>1. s \in Live /\ events' = events \o <<e>> /\ sold' = sold
  BY DEF PaymentFails, Live, Emit
<1>2. e \in Events
  BY DEF Objects, Events, Event, Kinds, BillingTypes
<1>3. e.kind = "invoice"
  BY DEF Event
<1> HIDE DEF e
<1>4. /\ events' \in Seq(Events) /\ Len(events') = n + 1 /\ n \in Nat
      /\ DOMAIN events = 1..n /\ DOMAIN events' = 1..(n + 1)
      /\ \A i \in 1..n : events'[i] = events[i]
      /\ events'[n + 1] = e
  BY <1>1, <1>2, EmitOne DEF BillingTypes
<1>5. Known(events', n)
  BY <1>1, <1>4, SamePrefix DEF SoldInv
<1>6. HistoryInv'
  <2>1. ASSUME NEW i \in 1..n PROVE Orderly(events', i)
    BY <1>4, SameOrderly DEF HistoryInv
  <2>2. Orderly(events', n + 1)
    <3>1. (n + 1) - 1 = n
      BY <1>4
    <3>2. QED
      BY <1>4, <1>3, <1>5, <3>1 DEF Orderly
  <2>3. QED
    BY <1>4, <2>1, <2>2 DEF HistoryInv
<1>7. SoldInv'
  <2>1. Live' = {s} /\ Live = {s}
    BY <1>1 DEF Live, SoldInv
  <2>2. PICK j \in 1..n : LastChange(events, j, n) /\ Tells(events[j], s, sold[s])
    BY <2>1 DEF SoldInv
  <2>3. /\ LastChange(events', j, n)
        /\ events'[j] = events[j] /\ j \in 1..(n + 1)
    <3>1. n \in Nat /\ \A i \in 1..n : events'[i] = events[i]
      BY <1>4
    <3>2. LastChange(events', j, n) <=> LastChange(events, j, n)
      BY <3>1, SamePrefix
    <3>3. QED
      BY <1>4, <2>2, <3>2
  <2>4. LastChange(events', j, n + 1)
    BY <1>3, <1>4, <2>3, NextIsInvoice
  <2>5. Known(events', n + 1)
    BY <1>4, <1>5, KnownGrows
  <2>6. QED
    BY <1>1, <1>4, <2>1, <2>2, <2>3, <2>4, <2>5 DEF SoldInv
<1>8. QED
  BY <1>1, <1>4, <1>6, <1>7 DEF BillingTypes

LEMMA StripeStep ==
  ASSUME BillingTypes, HistoryInv, SoldInv, Stripe
  PROVE  /\ sold' \in [Subs -> Objects] /\ events' \in Seq(Events)
         /\ HistoryInv' /\ SoldInv'
         /\ Len(events) <= Len(events')
         /\ \A i \in 1..Len(events) : events'[i] = events[i]
         /\ unanswered' \subseteq DOMAIN events'
         /\ UNCHANGED app
<1>1. PICK s \in Subs :
         \/ \E p \in Paid : Checkout(s, p)
         \/ \E p \in Paid, status \in Statuses, cancels \in BOOLEAN : Update(s, p, status, cancels)
         \/ Delete(s)
         \/ PaymentFails(s)
  BY DEF Stripe
<1>2. /\ sold' \in [Subs -> Objects] /\ events' \in Seq(Events)
      /\ HistoryInv' /\ SoldInv'
  BY <1>1, CheckoutKeeps, UpdateKeeps, DeleteKeeps, PaymentFailsKeeps
<1>3. (\E e : Emit(<<e>>)) \/ (\E e, f : Emit(<<e, f>>))
  BY <1>1 DEF Checkout, Update, Delete, PaymentFails
<1>4. PICK new : /\ events' = events \o new /\ Len(new) \in {1, 2} /\ new \in Seq({new[1], new[2]})
                 /\ unanswered' = unanswered \union ((Len(events) + 1)..(Len(events) + Len(new)))
  <2>1. ASSUME NEW e, Emit(<<e>>)
        PROVE  <<e>> \in Seq({<<e>>[1], <<e>>[2]}) /\ Len(<<e>>) = 1
    OBVIOUS
  <2>2. ASSUME NEW e, NEW f, Emit(<<e, f>>)
        PROVE  <<e, f>> \in Seq({<<e, f>>[1], <<e, f>>[2]}) /\ Len(<<e, f>>) = 2
    OBVIOUS
  <2>3. QED
    BY <1>3, <2>1, <2>2 DEF Emit
<1>5. /\ Len(events') = Len(events) + Len(new) /\ Len(events) \in Nat
      /\ \A i \in 1..Len(events) : events'[i] = events[i]
      /\ DOMAIN events = 1..Len(events) /\ DOMAIN events' = 1..Len(events')
  BY <1>2, <1>4 DEF BillingTypes
<1>6. unanswered' \subseteq DOMAIN events'
  BY <1>4, <1>5 DEF BillingTypes
<1>7. UNCHANGED app
  BY <1>1 DEF Checkout, Update, Delete, PaymentFails, app
<1>8. QED
  BY <1>2, <1>4, <1>5, <1>6, <1>7

-----------------------------------------------------------------------------
(* The steps of the route.                                                 *)

LEMMA Bools ==
  ASSUME BillingTypes, NEW i \in DOMAIN events
  PROVE  Matches(events[i]) \in BOOLEAN
<1>1. events[i] \in Events
  BY DEF BillingTypes
<1>2. QED
  BY <1>1 DEF Matches, Events, Kinds, BillingTypes, Rows

(***************************************************************************)
(* What the write makes of the row.                                        *)
(***************************************************************************)
Written(e, hit) ==
    IF hit
    THEN CASE e.kind = "checkout"     -> CheckoutCompleted(e)
           [] e.kind = "subscription" -> SubscriptionChanged(e)
           [] OTHER                   -> SubscriptionDeleted
    ELSE row

LEMMA WrittenType ==
  ASSUME BillingTypes, NEW e \in Events, NEW hit
  PROVE  Written(e, hit) \in Rows
<1> USE DEF BillingTypes, Events, Rows
<1>1. CheckoutCompleted(e) \in Rows
  BY BillingAssumption DEF CheckoutCompleted
<1>2. SubscriptionChanged(e) \in Rows
  BY DEF SubscriptionChanged, StatusOf
<1>3. SubscriptionDeleted \in Rows
  BY BillingAssumption DEF SubscriptionDeleted
<1>4. QED
  BY <1>1, <1>2, <1>3 DEF Written

LEMMA ApplyIs ==
  ASSUME BillingTypes, NEW d \in Deliveries, Apply(d)
  PROVE  /\ at[d].pc = "found"
         /\ row' = Written(events[at[d].event], at[d].hit)
         /\ seen' = seen \union {at[d].event}
         /\ \A x \in Deliveries : x # d => at'[x] = at[x]
         /\ at' \in [Deliveries -> [pc : {"idle", "found", "notify"}, event : Nat, hit : BOOLEAN]]
         /\ IF events[at[d].event].kind = "invoice"
            THEN /\ at'[d].pc = "notify" /\ at'[d].event = at[d].event
                 /\ UNCHANGED unanswered
            ELSE /\ at'[d].pc = "idle"
                 /\ unanswered' = unanswered \ {at[d].event}
         /\ UNCHANGED <<sold, events, told, faults, inOrder>>
<1>1. /\ at[d].pc = "found"
      /\ row' = Written(events[at[d].event], at[d].hit)
      /\ seen' = seen \union {at[d].event}
      /\ UNCHANGED <<sold, events, told, faults, inOrder>>
  BY DEF Apply, Handled, Written
<1>2. CASE events[at[d].event].kind = "invoice"
  <2>1. /\ at' = [at EXCEPT ![d] = [at[d] EXCEPT !.pc = "notify"]]
        /\ UNCHANGED unanswered
    BY <1>2 DEF Apply, Handled
  <2>2. /\ [at[d] EXCEPT !.pc = "notify"]
              \in [pc : {"idle", "found", "notify"}, event : Nat, hit : BOOLEAN]
        /\ [at[d] EXCEPT !.pc = "notify"].pc = "notify"
        /\ [at[d] EXCEPT !.pc = "notify"].event = at[d].event
    BY DEF BillingTypes
  <2>3. QED
    BY <1>1, <1>2, <2>1, <2>2 DEF BillingTypes
<1>3. CASE events[at[d].event].kind # "invoice"
  <2>1. at' = [at EXCEPT ![d] = Resting] /\ unanswered' = unanswered \ {at[d].event}
    BY <1>3 DEF Apply, Handled
  <2>2. QED
    BY <1>1, <1>3, <2>1 DEF BillingTypes, Resting
<1>4. QED
  BY <1>2, <1>3

LEMMA BillingTypesStep == BillingInv /\ [BillingNext]_billingVars => BillingTypes'
<1> SUFFICES ASSUME BillingInv, [BillingNext]_billingVars PROVE BillingTypes'
  OBVIOUS
<1> USE DEF BillingInv
<1>1. ASSUME Stripe PROVE BillingTypes'
  <2>1. DOMAIN events \subseteq DOMAIN events'
    BY <1>1, StripeStep DEF BillingTypes
  <2>2. QED
    BY <1>1, <2>1, StripeStep DEF BillingTypes, app
<1>2. ASSUME NEW e \in DOMAIN events, NEW d \in Deliveries, Receive(d, e) PROVE BillingTypes'
  <2>1. e \in Nat /\ Matches(events[e]) \in BOOLEAN
    BY Bools DEF BillingTypes
  <2>2. [pc |-> "found", event |-> e, hit |-> Matches(events[e])]
            \in [pc : {"idle", "found", "notify"}, event : Nat, hit : BOOLEAN]
    BY <2>1
  <2>3. at' \in [Deliveries -> [pc : {"idle", "found", "notify"}, event : Nat, hit : BOOLEAN]]
    BY <1>2, <2>2 DEF Receive, BillingTypes
  <2>4. inOrder' \in BOOLEAN
    BY <1>2, Zenon DEF Receive
  <2>5. UNCHANGED <<sold, events, unanswered, row, seen, told, faults>>
    BY <1>2 DEF Receive
  <2>6. QED
    BY <2>3, <2>4, <2>5 DEF BillingTypes
<1>3. ASSUME NEW e \in DOMAIN events, ReceiveAgain(e) PROVE BillingTypes'
  BY <1>3 DEF ReceiveAgain, BillingTypes, app
<1>4. ASSUME NEW e \in DOMAIN events, AnswerIsLost(e) PROVE BillingTypes'
  BY <1>4, BillingAssumption DEF AnswerIsLost, BillingTypes
<1>5. ASSUME NEW d \in Deliveries, Apply(d) PROVE BillingTypes'
  <2>1. at[d].event \in DOMAIN events
    BY <1>5 DEF HoldInv, Apply
  <2>2. events[at[d].event] \in Events
    BY <2>1 DEF BillingTypes
  <2>3. row' \in Rows
    BY <1>5, <2>2, ApplyIs, WrittenType
  <2>4. QED
    BY <1>5, <2>1, <2>3, ApplyIs DEF BillingTypes
<1>6. ASSUME NEW d \in Deliveries, Notify(d) PROVE BillingTypes'
  <2>1. at[d].event \in DOMAIN events
    BY <1>6 DEF HoldInv, Notify, BillingTypes
  <2>2. QED
    BY <1>6, <2>1 DEF Notify, BillingTypes, Resting
<1>7. ASSUME NEW d \in Deliveries, DeliveryDies(d) PROVE BillingTypes'
  BY <1>7, BillingAssumption DEF DeliveryDies, BillingTypes, Resting
<1>8. ASSUME UNCHANGED billingVars PROVE BillingTypes'
  BY <1>8 DEF billingVars, BillingTypes
<1>9. QED
  BY <1>1, <1>2, <1>3, <1>4, <1>5, <1>6, <1>7, <1>8 DEF BillingNext

LEMMA StripeHistoryStep == BillingInv /\ [BillingNext]_billingVars => HistoryInv' /\ SoldInv'
<1> SUFFICES ASSUME BillingInv, [BillingNext]_billingVars PROVE HistoryInv' /\ SoldInv'
  OBVIOUS
<1>1. ASSUME Stripe PROVE HistoryInv' /\ SoldInv'
  BY <1>1, StripeStep DEF BillingInv
<1>2. ASSUME UNCHANGED <<sold, events>> PROVE HistoryInv' /\ SoldInv'
  BY <1>2 DEF BillingInv, HistoryInv, SoldInv, Live
<1>3. ASSUME NEW d \in Deliveries, Apply(d) \/ Notify(d) \/ DeliveryDies(d)
      PROVE  UNCHANGED <<sold, events>>
  BY <1>3 DEF Apply, Notify, DeliveryDies
<1>4. ASSUME NEW e \in DOMAIN events,
             (\E d \in Deliveries : Receive(d, e)) \/ ReceiveAgain(e) \/ AnswerIsLost(e)
      PROVE  UNCHANGED <<sold, events>>
  BY <1>4 DEF Receive, ReceiveAgain, AnswerIsLost
<1>5. QED
  BY <1>1, <1>2, <1>3, <1>4 DEF BillingNext, billingVars

(***************************************************************************)
(* A delivery that goes away leaves the others as they are.                *)
(***************************************************************************)
LEMMA HoldStep == BillingInv /\ [BillingNext]_billingVars => HoldInv'
<1> SUFFICES ASSUME BillingInv, [BillingNext]_billingVars PROVE HoldInv'
  OBVIOUS
<1> USE DEF BillingInv, HoldInv
<1>1. ASSUME Stripe PROVE HoldInv'
  <2>1. /\ UNCHANGED <<seen, at, inOrder>>
        /\ DOMAIN events \subseteq DOMAIN events'
        /\ \A i \in DOMAIN events : events'[i] = events[i]
    BY <1>1, StripeStep DEF app, BillingTypes
  <2>2. QED
    BY <2>1 DEF BillingTypes
<1>2. ASSUME NEW e \in DOMAIN events, NEW d \in Deliveries, Receive(d, e) PROVE HoldInv'
  <2>1. /\ at'[d].pc = "found" /\ at'[d].event = e
        /\ \A x \in Deliveries : x # d => at'[x] = at[x]
        /\ at[d].pc = "idle" /\ e \notin seen
        /\ \A x \in Deliveries : at[x].pc = "found" => at[x].event # e
        /\ UNCHANGED <<events, seen>>
    BY <1>2 DEF Receive, Duplicate, BillingTypes
  <2>2. inOrder' => inOrder /\ 1..(e - 1) \subseteq seen
    BY <1>2, Zenon DEF Receive
  <2>3. QED
    BY <2>1, <2>2
<1>3. ASSUME NEW d \in Deliveries, Apply(d) PROVE HoldInv'
  <2>1. /\ at[d].pc = "found" /\ seen' = seen \union {at[d].event}
        /\ at'[d].pc # "found" /\ (at'[d].pc = "notify" =>
              at'[d].event = at[d].event /\ events[at[d].event].kind = "invoice")
        /\ \A x \in Deliveries : x # d => at'[x] = at[x]
        /\ UNCHANGED <<events, inOrder>>
    BY <1>3, ApplyIs
  <2>2. QED
    BY <2>1
<1>4. ASSUME NEW d \in Deliveries, Notify(d) \/ DeliveryDies(d) PROVE HoldInv'
  <2>1. /\ at'[d].pc = "idle" /\ \A x \in Deliveries : x # d => at'[x] = at[x]
        /\ UNCHANGED <<events, seen, inOrder>>
    BY <1>4 DEF Notify, DeliveryDies, Resting, BillingTypes
  <2>2. QED
    BY <2>1
<1>5. ASSUME UNCHANGED <<events, seen, at, inOrder>> PROVE HoldInv'
  BY <1>5
<1>6. ASSUME NEW e \in DOMAIN events, ReceiveAgain(e) \/ AnswerIsLost(e)
      PROVE  UNCHANGED <<events, seen, at, inOrder>>
  BY <1>6 DEF ReceiveAgain, AnswerIsLost, app
<1>7. QED
  BY <1>1, <1>2, <1>3, <1>4, <1>5, <1>6 DEF BillingNext, billingVars

-----------------------------------------------------------------------------
(* The row, along the prefix that was handled.                             *)

(***************************************************************************)
(* Handling the next event makes the row agree with one event more: the    *)
(* case of each kind of event.                                             *)
(***************************************************************************)
LEMMA NextAgrees ==
  ASSUME BillingTypes, HistoryInv, NEW k \in Nat, k + 1 \in DOMAIN events, Agrees(k),
         NEW hit, hit <=> Matches(events[k + 1]), row' = Written(events[k + 1], hit), events' = events
  PROVE  Agrees(k + 1)'
<1> DEFINE e == events[k + 1]
<1>1. e \in Events /\ Orderly(events, k + 1) /\ (k + 1) - 1 = k
  BY DEF BillingTypes, HistoryInv
<1>2. Known(events, k + 1) <=> Known(events, k) \/ e.kind = "checkout"
  BY KnownGrows
<1>3. e.kind # "invoice" => /\ k + 1 \in Nat \ {0}
                            /\ \A j \in 1..(k + 1) : LastChange(events, j, k + 1) => j = k + 1
  BY LastIsLast
<1>4. \A i \in 1..k : events[i] \in Events
  BY DEF BillingTypes
<1>5. CASE e.kind = "invoice"
  <2>1. row' = row
    BY <1>5 DEF Matches, Written
  <2>2. \A j \in 1..(k + 1) : LastChange(events, j, k + 1) <=> j \in 1..k /\ LastChange(events, j, k)
    BY <1>5, NextIsInvoice
  <2>3. QED
    BY <1>2, <1>5, <2>1, <2>2 DEF Agrees
<1>6. CASE e.kind = "subscription"
  <2>1. Matches(e) <=> row.sub = e.sub \/ row.customer
    BY <1>6 DEF Matches
  <2>2. CASE Known(events, k)
    <3>1. row' = SubscriptionChanged(e)
      BY <1>6, <2>1, <2>2 DEF Agrees, Written
    <3>2. row' = Asked(e) /\ row'.customer = TRUE
      BY <1>6, <3>1 DEF Asked, SubscriptionChanged
    <3>3. QED
      BY <1>2, <1>3, <1>6, <2>2, <3>2 DEF Agrees
  <2>3. CASE ~ Known(events, k)
    <3>1. row = Free
      BY <2>3 DEF Agrees
    <3>2. row.sub = NoSub /\ ~ row.customer /\ e.sub # NoSub
      BY <1>1, <3>1, BillingAssumption DEF Free, Events
    <3>3. ~ hit
      BY <2>1, <3>2
    <3>4. row' = row
      BY <3>3 DEF Written
    <3>5. QED
      BY <1>2, <1>6, <2>3, <3>1, <3>4 DEF Agrees
  <2>4. QED
    BY <2>2, <2>3
<1>7. CASE e.kind = "checkout"
  <2>1. Matches(e)
    BY <1>7 DEF Matches
  <2>2. row' = CheckoutCompleted(e)
    BY <1>7, <2>1 DEF Written
  <2>3. row.cancels = FALSE
    <3>1. CASE ~ Known(events, k)
      BY <3>1 DEF Agrees, Free
    <3>2. CASE Known(events, k)
      <4>1. k # 0 /\ k \in 1..k /\ k + 1 # 1
        BY <3>2 DEF Known
      <4>2. events[k].kind \in {"deleted", "subscription"}
        BY <1>1, <1>7, <4>1 DEF Orderly
      <4>3. LastChange(events, k, k)
        BY <4>1, <4>2, LastIsLast
      <4>4. row = Asked(events[k])
        BY <3>2, <4>1, <4>3 DEF Agrees
      <4>5. CASE events[k].kind = "deleted"
        BY <4>4, <4>5 DEF Asked
      <4>6. CASE events[k].kind = "subscription"
        <5>1. ~ events[k].cancels /\ events[k].cancels \in BOOLEAN
          BY <1>1, <1>4, <1>7, <4>1, <4>6 DEF Orderly, Events
        <5>2. QED
          BY <4>4, <4>6, <5>1 DEF Asked, SubscriptionChanged
      <4>7. QED
        BY <4>2, <4>5, <4>6
    <3>3. QED
      BY <3>1, <3>2
  <2>4. e.status = "active" /\ e.cancels = FALSE
    BY <1>1, <1>7 DEF Orderly, Events
  <2>5. row' = Asked(e) /\ row'.customer = TRUE
    <3>1. CheckoutCompleted(e) = [plan |-> e.plan, status |-> "active", sub |-> e.sub,
                                  customer |-> TRUE, cancels |-> FALSE]
      <4>1. row.cancels \in BOOLEAN
        BY DEF BillingTypes, Rows
      <4>2. QED
        BY <2>3, <4>1 DEF CheckoutCompleted
    <3>2. Asked(e) = [plan |-> e.plan, status |-> "active", sub |-> e.sub,
                      customer |-> TRUE, cancels |-> FALSE]
      <4>1. e.cancels \in BOOLEAN
        BY <1>1 DEF Events
      <4>2. QED
        BY <1>7, <2>4, <4>1 DEF Asked, SubscriptionChanged, StatusOf
    <3>3. QED
      BY <2>2, <3>1, <3>2
  <2>6. QED
    BY <1>2, <1>3, <1>7, <2>5 DEF Agrees
<1>8. CASE e.kind = "deleted"
  <2>1. PICK j \in 1..k : LastChange(events, j, k) /\ events[j].kind # "deleted" /\ events[j].sub = e.sub
    BY <1>1, <1>8 DEF Orderly
  <2>2. Known(events, k)
    BY <1>1, <1>8 DEF Orderly
  <2>3. row = Asked(events[j]) /\ row.customer = TRUE
    BY <2>1, <2>2 DEF Agrees
  <2>4. row.sub = e.sub
    BY <2>1, <2>3 DEF Asked, SubscriptionChanged
  <2>5. Matches(e)
    BY <1>8, <2>4 DEF Matches
  <2>6. row' = SubscriptionDeleted
    BY <1>8, <2>5 DEF Written
  <2>7. row' = Asked(e) /\ row'.customer = TRUE
    <3>1. row.customer \in BOOLEAN
      BY DEF BillingTypes, Rows
    <3>2. SubscriptionDeleted = [plan |-> "free", status |-> "active", sub |-> NoSub,
                                 customer |-> TRUE, cancels |-> FALSE]
      BY <2>3, <3>1 DEF SubscriptionDeleted
    <3>3. QED
      BY <1>8, <2>6, <3>2 DEF Asked
  <2>8. QED
    BY <1>2, <1>3, <1>8, <2>2, <2>7 DEF Agrees
<1>9. QED
  BY <1>1, <1>5, <1>6, <1>7, <1>8 DEF Events, Kinds

(***************************************************************************)
(* In order, the event a delivery has found is the next one.               *)
(***************************************************************************)
LEMMA FoundIsNext ==
  ASSUME BillingTypes, HoldInv, inOrder, NEW k \in Nat, seen = 1..k,
         NEW d \in Deliveries, at[d].pc = "found"
  PROVE  at[d].event = k + 1
<1>1. /\ at[d].event \in Nat /\ at[d].event \in DOMAIN events /\ at[d].event \notin 1..k
      /\ 1..(at[d].event - 1) \subseteq 1..k
  BY DEF BillingTypes, HoldInv
<1>2. at[d].event >= 1
  BY <1>1 DEF BillingTypes
<1>3. PICK m \in Nat : m = at[d].event
  BY <1>1
<1>4. m >= 1 /\ m \notin 1..k /\ 1..(m - 1) \subseteq 1..k
  BY <1>1, <1>2, <1>3
<1>5. m = 1 \/ m - 1 \in 1..(m - 1)
  BY <1>4
<1>6. m > k /\ m - 1 <= k
  BY <1>4, <1>5
<1>7. QED
  BY <1>3, <1>6

(***************************************************************************)
(* A step that leaves the row and what is handled alone keeps PrefixInv    *)
(* when it keeps the order and what the deliveries have found.             *)
(***************************************************************************)
LEMMA PrefixStays ==
  ASSUME PrefixInv, inOrder' => inOrder, UNCHANGED <<events, row, seen>>,
         \A d \in Deliveries : at'[d].pc = "found" =>
            \/ at'[d] = at[d]
            \/ at'[d].hit <=> Matches(events[at'[d].event])
  PROVE  PrefixInv'
BY DEF PrefixInv, Agrees, Matches

LEMMA PrefixStep == BillingInv /\ [BillingNext]_billingVars => PrefixInv'
<1> SUFFICES ASSUME BillingInv, [BillingNext]_billingVars PROVE PrefixInv'
  OBVIOUS
<1> USE DEF BillingInv
<1>1. ASSUME Stripe PROVE PrefixInv'
  <2>1. /\ UNCHANGED <<row, seen, at, inOrder>>
        /\ Len(events) \in Nat /\ Len(events') \in Nat /\ Len(events) <= Len(events')
        /\ DOMAIN events = 1..Len(events)
        /\ \A i \in 1..Len(events) : events'[i] = events[i]
    BY <1>1, StripeStep DEF app, BillingTypes
  <2>2. SUFFICES ASSUME inOrder PROVE PrefixInv'
    BY <2>1 DEF PrefixInv
  <2>3. PICK k \in 0..Len(events) :
           /\ seen = 1..k
           /\ Agrees(k)
           /\ \A d \in Deliveries :
                 at[d].pc = "found" => (at[d].hit <=> Matches(events[at[d].event]))
    BY <2>2 DEF PrefixInv
  <2>4. k \in Nat /\ k \in 0..Len(events') /\ \A i \in 1..k : events'[i] = events[i]
    BY <2>1
  <2>5. /\ Known(events', k) <=> Known(events, k)
        /\ \A j \in 1..k : LastChange(events', j, k) <=> LastChange(events, j, k)
    BY <2>4, SamePrefix
  <2>6. Agrees(k)'
    BY <2>1, <2>3, <2>4, <2>5 DEF Agrees, Asked, SubscriptionChanged
  <2>7. ASSUME NEW d \in Deliveries, at'[d].pc = "found"
        PROVE  (at[d].hit <=> Matches(events[at[d].event]))'
    <3>1. PICK e : e = events[at[d].event]
      OBVIOUS
    <3>2. at'[d] = at[d] /\ events'[at'[d].event] = e
      BY <2>1, <2>7, <3>1 DEF HoldInv
    <3>3. Matches(e)' <=> Matches(e)
      BY <2>1 DEF Matches
    <3>4. at[d].hit <=> Matches(e)
      BY <2>1, <2>3, <2>7, <3>1
    <3>5. at'[d].hit <=> Matches(e)'
      BY <3>2, <3>3, <3>4
    <3>6. QED
      BY <3>2, <3>5
  <2>8. QED
    BY <2>1, <2>3, <2>4, <2>6, <2>7 DEF PrefixInv
<1>2. ASSUME NEW e \in DOMAIN events, NEW d \in Deliveries, Receive(d, e) PROVE PrefixInv'
  <2>1. /\ at'[d].event = e /\ (at'[d].hit <=> Matches(events[e]))
        /\ \A x \in Deliveries : x # d => at'[x] = at[x]
        /\ UNCHANGED <<events, row, seen>>
    BY <1>2, Bools DEF Receive, BillingTypes
  <2>2. inOrder' => inOrder
    BY <1>2, Zenon DEF Receive
  <2>3. QED
    BY <2>1, <2>2, PrefixStays
<1>3. ASSUME NEW d \in Deliveries, Apply(d) PROVE PrefixInv'
  <2>1. /\ at[d].pc = "found" /\ seen' = seen \union {at[d].event}
        /\ row' = Written(events[at[d].event], at[d].hit)
        /\ at'[d].pc # "found"
        /\ \A x \in Deliveries : x # d => at'[x] = at[x]
        /\ UNCHANGED <<events, inOrder>>
    BY <1>3, ApplyIs
  <2>2. SUFFICES ASSUME inOrder PROVE PrefixInv'
    BY <2>1 DEF PrefixInv
  <2>3. PICK k \in 0..Len(events) :
           /\ seen = 1..k
           /\ Agrees(k)
           /\ \A x \in Deliveries :
                 at[x].pc = "found" => (at[x].hit <=> Matches(events[at[x].event]))
    BY <2>2 DEF PrefixInv
  <2>4. k \in Nat
    BY DEF BillingTypes
  <2>5. at[d].event = k + 1 /\ k + 1 \in DOMAIN events
    BY <2>1, <2>2, <2>3, <2>4, FoundIsNext DEF HoldInv
  <2>6. Agrees(k + 1)'
    <3>1. PICK hit : hit = at[d].hit
      OBVIOUS
    <3>2. (hit <=> Matches(events[k + 1])) /\ row' = Written(events[k + 1], hit) /\ events' = events
      BY <2>1, <2>3, <2>5, <3>1
    <3>3. QED
      BY <2>3, <2>4, <2>5, <3>2, NextAgrees
  <2>7. seen' = 1..(k + 1)
    BY <2>1, <2>3, <2>4, <2>5
  <2>8. \A x \in Deliveries : at'[x].pc # "found"
    <3>1. ASSUME NEW x \in Deliveries, x # d, at'[x].pc = "found" PROVE FALSE
      <4>1. at[x].pc = "found"
        BY <2>1, <3>1
      <4>2. at[x].event = k + 1
        BY <2>2, <2>3, <2>4, <4>1, FoundIsNext
      <4>3. QED
        BY <2>1, <2>5, <3>1, <4>1, <4>2 DEF HoldInv
    <3>2. QED
      BY <2>1, <3>1
  <2>9. k + 1 \in 0..Len(events')
    BY <2>1, <2>4, <2>5 DEF BillingTypes
  <2>10. QED
    BY <2>6, <2>7, <2>8, <2>9 DEF PrefixInv
<1>4. ASSUME NEW d \in Deliveries, Notify(d) \/ DeliveryDies(d) PROVE PrefixInv'
  <2>1. /\ at'[d].pc = "idle" /\ \A x \in Deliveries : x # d => at'[x] = at[x]
        /\ UNCHANGED <<events, row, seen, inOrder>>
    BY <1>4 DEF Notify, DeliveryDies, Resting, BillingTypes
  <2>2. QED
    BY <2>1, PrefixStays
<1>5. ASSUME UNCHANGED <<events, row, seen, at, inOrder>> PROVE PrefixInv'
  BY <1>5, PrefixStays
<1>6. ASSUME NEW e \in DOMAIN events, ReceiveAgain(e) \/ AnswerIsLost(e)
      PROVE  UNCHANGED <<events, row, seen, at, inOrder>>
  BY <1>6 DEF ReceiveAgain, AnswerIsLost, app
<1>7. QED
  BY <1>1, <1>2, <1>3, <1>4, <1>5, <1>6 DEF BillingNext, billingVars

-----------------------------------------------------------------------------
(* A failed payment that was handled in order finds the customer.          *)

LEMMA NotifyTells ==
  ASSUME BillingInv, inOrder, NEW e \in seen, events[e].kind = "invoice"
  PROVE  row.customer
<1>1. PICK k \in 0..Len(events) : seen = 1..k /\ Agrees(k)
  BY DEF BillingInv, PrefixInv
<1>2. k \in Nat /\ e \in 1..k /\ e \in DOMAIN events
  BY <1>1 DEF BillingInv, BillingTypes
<1>3. Known(events, e - 1)
  BY <1>2 DEF BillingInv, HistoryInv, Orderly
<1>4. Known(events, k)
  BY <1>2, <1>3, KnownGrows
<1>5. QED
  BY <1>1, <1>4 DEF Agrees

LEMMA ToldStep == BillingInv /\ [BillingNext]_billingVars => PaymentFailureIsTold'
<1> SUFFICES ASSUME BillingInv, [BillingNext]_billingVars PROVE PaymentFailureIsTold'
  OBVIOUS
<1> USE DEF BillingInv
<1>1. ASSUME Stripe PROVE PaymentFailureIsTold'
  <2>1. /\ UNCHANGED app /\ \A i \in DOMAIN events : events'[i] = events[i]
    BY <1>1, StripeStep DEF BillingTypes
  <2>2. QED
    BY <2>1 DEF PaymentFailureIsTold, app, BillingTypes
<1>2. ASSUME NEW e \in DOMAIN events, NEW d \in Deliveries, Receive(d, e) PROVE PaymentFailureIsTold'
  <2>1. /\ at[d].pc = "idle" /\ \A x \in Deliveries : x # d => at'[x] = at[x]
        /\ UNCHANGED <<events, seen, told, faults>>
    BY <1>2 DEF Receive, BillingTypes
  <2>2. inOrder' => inOrder
    BY <1>2, Zenon DEF Receive
  <2>3. QED
    BY <2>1, <2>2 DEF PaymentFailureIsTold
<1>3. ASSUME NEW d \in Deliveries, Apply(d) PROVE PaymentFailureIsTold'
  <2>1. /\ at[d].pc = "found" /\ seen' = seen \union {at[d].event}
        /\ events[at[d].event].kind = "invoice" =>
              at'[d].pc = "notify" /\ at'[d].event = at[d].event
        /\ \A x \in Deliveries : x # d => at'[x] = at[x]
        /\ UNCHANGED <<events, told, faults, inOrder>>
    BY <1>3, ApplyIs
  <2>2. QED
    BY <2>1 DEF PaymentFailureIsTold
<1>4. ASSUME NEW d \in Deliveries, Notify(d) PROVE PaymentFailureIsTold'
  <2>1. /\ at[d].pc = "notify" /\ \A x \in Deliveries : x # d => at'[x] = at[x]
        /\ UNCHANGED <<events, seen, faults, inOrder, row>>
        /\ told' = IF row.customer THEN told \union {at[d].event} ELSE told
    BY <1>4 DEF Notify, Resting, BillingTypes
  <2>2. at[d].event \in seen /\ events[at[d].event].kind = "invoice"
    BY <2>1 DEF HoldInv
  <2>3. inOrder => told' = told \union {at[d].event}
    BY <2>1, <2>2, NotifyTells
  <2>4. told \subseteq told'
    BY <2>1
  <2>5. QED
    BY <2>1, <2>3, <2>4 DEF PaymentFailureIsTold
<1>5. ASSUME NEW d \in Deliveries, DeliveryDies(d) PROVE PaymentFailureIsTold'
  <2>1. faults' > 0
    BY <1>5, BillingAssumption DEF DeliveryDies, BillingTypes
  <2>2. QED
    BY <2>1 DEF PaymentFailureIsTold
<1>6. ASSUME NEW e \in DOMAIN events, AnswerIsLost(e) PROVE PaymentFailureIsTold'
  <2>1. faults' > 0
    BY <1>6, BillingAssumption DEF AnswerIsLost, BillingTypes
  <2>2. QED
    BY <2>1 DEF PaymentFailureIsTold
<1>7. ASSUME UNCHANGED <<events, app>> PROVE PaymentFailureIsTold'
  BY <1>7 DEF PaymentFailureIsTold, app
<1>8. ASSUME NEW e \in DOMAIN events, ReceiveAgain(e) PROVE UNCHANGED <<events, app>>
  BY <1>8 DEF ReceiveAgain
<1>9. QED
  BY <1>1, <1>2, <1>3, <1>4, <1>5, <1>6, <1>7, <1>8 DEF BillingNext, billingVars, app

-----------------------------------------------------------------------------
(* The theorems.                                                           *)

LEMMA BillingInitInv == BillingInit => BillingInv
<1> SUFFICES ASSUME BillingInit PROVE BillingInv
  OBVIOUS
<1> USE BillingAssumption DEF BillingInit
<1>1. events = <<>> /\ Len(events) = 0 /\ DOMAIN events = {} /\ events \in Seq(Events)
  OBVIOUS
<1>2. NotSold \in Objects /\ NotSold.state = "none"
  BY DEF NotSold, Objects
<1>3. Free \in Rows
  BY DEF Free, Rows
<1>4. Resting \in [pc : {"idle", "found", "notify"}, event : Nat, hit : BOOLEAN] /\ Resting.pc = "idle"
  BY DEF Resting
<1>5. BillingTypes
  BY <1>1, <1>2, <1>3, <1>4 DEF BillingTypes
<1>6. HistoryInv
  BY <1>1 DEF HistoryInv
<1>7. SoldInv
  BY <1>1, <1>2 DEF SoldInv, Live
<1>8. HoldInv
  BY <1>4 DEF HoldInv
<1>9. PrefixInv
  <2>1. ~ Known(events, 0) /\ 0 \in 0..Len(events) /\ seen = 1..0
    BY <1>1 DEF Known
  <2>2. Agrees(0)
    BY <2>1 DEF Agrees
  <2>3. QED
    BY <1>4, <2>1, <2>2 DEF PrefixInv
<1>10. PaymentFailureIsTold
  BY DEF PaymentFailureIsTold
<1>11. QED
  BY <1>5, <1>6, <1>7, <1>8, <1>9, <1>10 DEF BillingInv

LEMMA BillingInvariance == BillingSpec => []BillingInv
<1>1. BillingInv /\ [BillingNext]_billingVars => BillingInv'
  BY BillingTypesStep, StripeHistoryStep, HoldStep, PrefixStep, ToldStep DEF BillingInv
<1>2. QED
  BY <1>1, BillingInitInv, PTL DEF BillingSpec

(***************************************************************************)
(* The row, the events and the deliveries have the types the route gives   *)
(* them; only events Stripe made are handled, answered or told of.         *)
(***************************************************************************)
THEOREM BillingIsTyped == BillingSpec => []BillingTypes
<1>1. BillingInv => BillingTypes
  BY DEF BillingInv
<1>2. QED
  BY <1>1, BillingInvariance, PTL

LEMMA FreeExcept ==
  ASSUME NEW b
  PROVE  [Free EXCEPT !.customer = b]
            = [plan |-> "free", status |-> "active", sub |-> NoSub, customer |-> b, cancels |-> FALSE]
<1>1. ASSUME NEW f, NEW g, NEW p, NEW q, NEW r
      PROVE  [[plan |-> p, status |-> q, sub |-> r, customer |-> f, cancels |-> g] EXCEPT !.customer = b]
                = [plan |-> p, status |-> q, sub |-> r, customer |-> b, cancels |-> g]
  OBVIOUS
<1>2. PICK no : no = FALSE
  OBVIOUS
<1>3. Free = [plan |-> "free", status |-> "active", sub |-> NoSub, customer |-> no, cancels |-> no]
  BY <1>2, Zenon DEF Free
<1>4. [plan |-> "free", status |-> "active", sub |-> NoSub, customer |-> b, cancels |-> FALSE]
         = [plan |-> "free", status |-> "active", sub |-> NoSub, customer |-> b, cancels |-> no]
  BY <1>2, Zenon
<1>5. QED
  BY <1>1, <1>3, <1>4

LEMMA InvAgrees == BillingInv => AgreesInOrder
<1> SUFFICES ASSUME BillingInv, inOrder, seen = DOMAIN events
             PROVE  \/ \E s \in Subs : sold[s].state = "live" /\ row = Shown[s]
                    \/ /\ \A s \in Subs : sold[s].state # "live"
                       /\ row = [Free EXCEPT !.customer = row.customer]
  BY DEF AgreesInOrder
<1> DEFINE n == Len(events)
<1>1. n \in Nat /\ DOMAIN events = 1..n /\ \A i \in 1..n : events[i] \in Events
  BY DEF BillingInv, BillingTypes
<1>2. Agrees(n)
  <2>1. PICK k \in 0..n : seen = 1..k /\ Agrees(k)
    BY DEF BillingInv, PrefixInv
  <2>2. k = n
    <3>1. PICK m \in Nat : m = n
      BY <1>1
    <3>2. 1..k = 1..m
      BY <1>1, <2>1, <3>1
    <3>3. k \in Nat /\ k <= m
      BY <3>1
    <3>4. m = 0 \/ m \in 1..m
      OBVIOUS
    <3>5. QED
      BY <3>1, <3>2, <3>3, <3>4
  <2>3. QED
    BY <2>1, <2>2
<1>3. CASE Live # {}
  <2>1. PICK s \in Live : TRUE
    BY <1>3
  <2>2. s \in Subs /\ sold[s].state = "live" /\ Known(events, n)
    BY <2>1 DEF Live, BillingInv, SoldInv
  <2>3. PICK j \in 1..n : LastChange(events, j, n) /\ Tells(events[j], s, sold[s])
    BY <2>1 DEF BillingInv, SoldInv
  <2>4. row = Asked(events[j])
    BY <1>2, <2>2, <2>3 DEF Agrees
  <2>5. Asked(events[j]) = Shown[s]
    BY <2>2, <2>3, ShownIs DEF Tells, Asked, SubscriptionChanged
  <2>6. QED
    BY <2>2, <2>4, <2>5
<1>4. CASE Live = {}
  <2>1. \A s \in Subs : sold[s].state # "live"
    BY <1>4 DEF Live
  <2>2. row = [Free EXCEPT !.customer = row.customer]
    <3>1. CASE ~ Known(events, n)
      <4>1. row = Free
        BY <1>2, <3>1 DEF Agrees
      <4>2. QED
        BY <4>1 DEF Free
    <3>2. CASE Known(events, n)
      <4>1. n \in Nat \ {0} /\ n \in 1..n
        BY <1>1, <3>2 DEF Known
      <4>2. events[n].kind = "deleted"
        BY <1>4, <4>1 DEF BillingInv, SoldInv
      <4>3. LastChange(events, n, n)
        BY <4>1, <4>2, LastIsLast
      <4>4. row = Asked(events[n]) /\ row.customer = TRUE
        BY <1>2, <3>2, <4>1, <4>3 DEF Agrees
      <4>5. row = [plan |-> "free", status |-> "active", sub |-> NoSub, customer |-> TRUE, cancels |-> FALSE]
        BY <4>2, <4>4 DEF Asked
      <4>6. QED
        BY <4>4, <4>5, FreeExcept
    <3>3. QED
      BY <3>1, <3>2
  <2>3. QED
    BY <2>1, <2>2
<1>5. QED
  BY <1>3, <1>4

(***************************************************************************)
(* Events handled in Stripe's order leave the team with what it pays for,  *)
(* whatever is sent twice and wherever a delivery dies.                    *)
(***************************************************************************)
THEOREM TeamGetsWhatItPaysFor == BillingSpec => []AgreesInOrder
BY InvAgrees, BillingInvariance, PTL

(***************************************************************************)
(* Only a fault or an event out of order can swallow the notification of a *)
(* failed payment that Stripe does not send again.                         *)
(***************************************************************************)
THEOREM FailedPaymentIsTold == BillingSpec => []PaymentFailureIsTold
<1>1. BillingInv => PaymentFailureIsTold
  BY DEF BillingInv
<1>2. QED
  BY <1>1, BillingInvariance, PTL
=============================================================================
