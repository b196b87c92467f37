---------------------------- MODULE WebhookProofs ----------------------------
(***************************************************************************)
(* For any number of deliveries, ticks, attempts and faults, and for any   *)
(* lease that outlasts the requests of a batch: the lease is a lock, a     *)
(* webhook is switched off with cause, and its team is told.               *)
(***************************************************************************)
EXTENDS WebhookDelivery, FiniteSetTheorems, WellFoundedInduction, TLAPS

\* One request may take a timeout for each redirect and one for the last address.
LeaseOutlasts == Lease > (Hops + 1) * Cardinality(Deliveries)

Places == {"idle", "read", "post", "disable", "notify"}

DeliveryTypes ==
    /\ hook \in {"active", "inactive", "deleted"}
    /\ status \in [Deliveries -> Statuses]
    /\ attempts \in [Deliveries -> Nat]
    /\ dueIn \in [Deliveries -> Nat]
    /\ batch \in [Processes -> SUBSET Deliveries]
    /\ cur \in [Processes -> Deliveries \union {0}]
    /\ at \in [Processes -> Places]
    /\ tryNo \in [Processes -> Nat]
    /\ timer \in [Processes -> Nat]
    /\ disables \in Nat /\ notices \in Nat /\ toggles \in Nat /\ faults \in Nat

\* A process is at a delivery unless it is idle; what it holds is in the outbox; only the test button
\* holds without a lease, and only tests.
ShapeInv ==
    /\ \A p \in Processes : /\ at[p] = "idle" <=> cur[p] = 0
                            /\ timer[p] <= Hops + 1
                            /\ cur[p] \notin batch[p]
                            /\ \A d \in Holds(p) : status[d] # "absent"
    /\ batch[Web] = {} /\ cur[Web] \in Tests \union {0}

\* What the requests that p has still to make can take.
Left(p) ==
    (Hops + 1) * Cardinality(batch[p]) + (IF at[p] \in {"read", "post"} THEN Hops + 1 - timer[p] ELSE 0)

\* As long as an event that is held has not ended, its lease has more time left than its holder needs.
LeaseInv ==
    \A p \in Processes : \A d \in Holds(p) \intersect Events : status[d] \in Due => dueIn[d] > Left(p)

\* A row that is not there has no attempts, one that is due has one left, and a try is the next one.
AttemptsInv ==
    /\ \A d \in Deliveries : status[d] = "absent" => attempts[d] = 0
    /\ \A d \in Events : status[d] \in Due => attempts[d] < MaxAttempts
    /\ \A p \in Processes : at[p] = "post" /\ cur[p] \in Events =>
          /\ status[cur[p]] \in Due \union {"gone"}
          /\ tryNo[p] = attempts[cur[p]] + 1
          /\ attempts[cur[p]] < MaxAttempts

\* A webhook that was switched off has its notice, or the notice is on its way.
NoticeInv ==
    faults = 0 /\ disables > 0 => notices = 1 \/ \E p \in Processes : at[p] \in {"disable", "notify"}

CoreInv     == DeliveryTypes /\ ShapeInv /\ LeaseInv /\ OneSender /\ AttemptsInv
DeliveryInv == CoreInv /\ NoticeInv

USE DeliveryAssumption

\* The smallest of a set of deliveries is one of them.
LEMMA MinIsMember == ASSUME NEW S \in SUBSET Deliveries, S # {} PROVE Min(S) \in S
<1>1. PICK x \in S : \A y \in S : ~(<<y, x>> \in OpToRel(<, Nat))
  BY NatLessThanWellFounded, WFMin, Zenon
<1>2. \A y \in S : x <= y
  <2> TAKE y \in S
  <2>1. x \in Nat /\ y \in Nat
    OBVIOUS
  <2>2. ~(y < x)
    BY <1>1, <2>1 DEF OpToRel
  <2>3. QED BY <2>1, <2>2
<1>3. QED BY <1>2 DEF Min

\* A batch is a finite set.
LEMMA BatchSize ==
    ASSUME NEW B \in SUBSET Deliveries
    PROVE  IsFiniteSet(B) /\ Cardinality(B) \in Nat /\ Cardinality(B) <= Cardinality(Deliveries)
<1>1. IsFiniteSet(B) /\ Cardinality(B) <= Cardinality(Deliveries)
  BY FS_Subset
<1>2. QED BY <1>1, FS_CardinalityType

\* A process at a delivery is at one of the outbox.
LEMMA AtARow ==
    ASSUME DeliveryTypes, ShapeInv, NEW p \in Processes, at[p] # "idle"
    PROVE  cur[p] \in Deliveries /\ cur[p] \in Holds(p) /\ status[cur[p]] # "absent"
BY DEF DeliveryTypes, ShapeInv, Holds

\* What is left to do is a number.
LEMMA LeftType == ASSUME DeliveryTypes, ShapeInv, NEW p \in Processes PROVE Left(p) \in Nat
<1>1. Cardinality(batch[p]) \in Nat
  BY BatchSize DEF DeliveryTypes
<1>2. (Hops + 1) * Cardinality(batch[p]) \in Nat
  BY <1>1
<1>3. Hops + 1 - timer[p] \in Nat
  BY DEF DeliveryTypes, ShapeInv
<1>4. QED BY <1>2, <1>3 DEF Left

\* An update of one row changes that row, unless it is gone.
LEMMA WriteEffect ==
    ASSUME DeliveryTypes, NEW d \in Deliveries, NEW s \in Due \union Ended, NEW n \in Nat, NEW wait \in Nat,
           Write(d, s, n, wait)
    PROVE  /\ status' \in [Deliveries -> Statuses]
           /\ attempts' \in [Deliveries -> Nat]
           /\ dueIn' \in [Deliveries -> Nat]
           /\ \A e \in Deliveries : e # d => status'[e] = status[e] /\ attempts'[e] = attempts[e] /\ dueIn'[e] = dueIn[e]
           /\ \/ status[d] = "gone" /\ UNCHANGED rows
              \/ status[d] # "gone" /\ status'[d] = s /\ attempts'[d] = n
<1>1. CASE status[d] = "gone"
  BY <1>1 DEF Write, rows, DeliveryTypes
<1>2. CASE status[d] # "gone"
  <2>1. /\ status' = [status EXCEPT ![d] = s]
        /\ attempts' = [attempts EXCEPT ![d] = n]
        /\ dueIn' = [dueIn EXCEPT ![d] = IF s \in Due THEN wait ELSE 0]
    BY <1>2 DEF Write
  <2>2. s \in Statuses /\ (IF s \in Due THEN wait ELSE 0) \in Nat
    BY DEF Statuses
  <2>3. QED BY <1>2, <2>1, <2>2 DEF DeliveryTypes
<1>3. QED BY <1>1, <1>2

(***************************************************************************)
(* What one process does at its delivery.                                  *)
(***************************************************************************)
Others(p) ==
    \A q \in Processes : q # p =>
        /\ batch'[q] = batch[q] /\ cur'[q] = cur[q] /\ at'[q] = at[q]
        /\ tryNo'[q] = tryNo[q] /\ timer'[q] = timer[q]

OtherRows(p) ==
    \A e \in Deliveries : e # cur[p] =>
        status'[e] = status[e] /\ attempts'[e] = attempts[e] /\ dueIn'[e] = dueIn[e]

\* A step of p that takes hold of nothing, does not get later and writes no other row than that of its
\* delivery keeps what does not speak of notices.
LEMMA ProcessStep ==
    ASSUME DeliveryTypes, ShapeInv, LeaseInv, OneSender, AttemptsInv, DeliveryTypes',
           NEW p \in Processes, Others(p), OtherRows(p),
           Holds(p)' \subseteq Holds(p), Left(p)' <= Left(p), Left(p)' \in Int,
           at'[p] = "idle" <=> cur'[p] = 0, timer'[p] <= Hops + 1, cur'[p] \notin batch'[p],
           p = Web => batch'[p] = {} /\ cur'[p] \in Tests \union {0},
           cur[p] \in Deliveries => status'[cur[p]] # "absent",
           cur[p] \in Events /\ status'[cur[p]] \in Due =>
              /\ attempts'[cur[p]] < MaxAttempts
              /\ cur[p] \in Holds(p)' => status[cur[p]] \in Due /\ dueIn'[cur[p]] = dueIn[cur[p]],
           at'[p] = "post" /\ cur'[p] \in Events =>
              /\ status'[cur'[p]] \in Due \union {"gone"}
              /\ tryNo'[p] = attempts'[cur'[p]] + 1
              /\ attempts'[cur'[p]] < MaxAttempts
    PROVE  ShapeInv' /\ LeaseInv' /\ OneSender' /\ AttemptsInv'
<1>1. \A q \in Processes : Holds(q)' \subseteq Holds(q) /\ Holds(q) \subseteq Deliveries
  <2> TAKE q \in Processes
  <2>1. Holds(q)' \subseteq Holds(q)
    <3>1. CASE q = p
      BY <3>1
    <3>2. CASE q # p
      BY <3>2 DEF Others, Holds
    <3>3. QED BY <3>1, <3>2
  <2>2. Holds(q) \subseteq Deliveries
    BY DEF Holds, DeliveryTypes
  <2>3. QED BY <2>1, <2>2
<1>2. \A q \in Processes : q # p => Left(q)' = Left(q)
  BY DEF Others, Left
<1>3. ShapeInv'
  <2>1. ASSUME NEW q \in Processes
        PROVE  /\ at'[q] = "idle" <=> cur'[q] = 0
               /\ timer'[q] <= Hops + 1
               /\ cur'[q] \notin batch'[q]
    BY <2>1 DEF Others, ShapeInv
  <2>2. ASSUME NEW q \in Processes, NEW d \in Holds(q)' PROVE status'[d] # "absent"
    <3>1. d \in Deliveries /\ status[d] # "absent"
      BY <1>1, <2>2 DEF ShapeInv
    <3>2. QED BY <3>1 DEF OtherRows
  <2>3. batch'[Web] = {} /\ cur'[Web] \in Tests \union {0}
    BY DEF Others, ShapeInv, Processes
  <2>4. QED BY <2>1, <2>2, <2>3 DEF ShapeInv
<1>4. OneSender'
  BY <1>1 DEF OneSender, Events
<1>5. LeaseInv'
  <2>1. ASSUME NEW q \in Processes, NEW d \in Holds(q)' \intersect Events, status'[d] \in Due
        PROVE  dueIn'[d] > Left(q)'
    <3>1. d \in Deliveries /\ d \in Holds(q)
      BY <1>1, <2>1
    <3>2. status[d] \in Due /\ dueIn'[d] = dueIn[d]
      <4>1. CASE d # cur[p]
        BY <2>1, <3>1, <4>1 DEF OtherRows
      <4>2. CASE d = cur[p] /\ q = p
        BY <2>1, <4>2
      <4>3. CASE d = cur[p] /\ q # p
        <5>1. d \in Holds(p)
          BY <3>1, <4>3 DEF Holds
        <5>2. QED BY <2>1, <3>1, <4>3, <5>1 DEF OneSender
      <4>4. QED BY <4>1, <4>2, <4>3
    <3>3. dueIn[d] > Left(q)
      BY <2>1, <3>1, <3>2 DEF LeaseInv
    <3>4. dueIn[d] \in Nat /\ Left(q) \in Nat
      BY <3>1, LeftType DEF DeliveryTypes
    <3>5. Left(q)' <= Left(q) /\ Left(q)' \in Int
      <4>1. CASE q = p
        BY <4>1
      <4>2. CASE q # p
        BY <1>2, <3>4, <4>2
      <4>3. QED BY <4>1, <4>2
    <3>6. QED BY <3>2, <3>3, <3>4, <3>5
  <2>2. QED BY <2>1 DEF LeaseInv, Events
<1>6. AttemptsInv'
  <2>1. \A d \in Deliveries : status'[d] = "absent" => attempts'[d] = 0
    BY DEF OtherRows, AttemptsInv
  <2>2. \A d \in Events : status'[d] \in Due => attempts'[d] < MaxAttempts
    BY DEF OtherRows, AttemptsInv, Events
  <2>3. ASSUME NEW q \in Processes, q # p, at'[q] = "post", cur'[q] \in Events
        PROVE  /\ status'[cur'[q]] \in Due \union {"gone"}
               /\ tryNo'[q] = attempts'[cur'[q]] + 1
               /\ attempts'[cur'[q]] < MaxAttempts
    <3>1. at[q] = "post" /\ cur[q] = cur'[q] /\ tryNo'[q] = tryNo[q]
      BY <2>3 DEF Others
    <3>2. cur[q] # cur[p]
      <4>1. cur[q] \in Holds(q) /\ (cur[p] = cur[q] => cur[q] \in Holds(p))
        BY <2>3, <3>1, AtARow DEF Holds, DeliveryTypes, Events
      <4>2. QED BY <2>3, <3>1, <4>1 DEF OneSender
    <3>3. cur[q] \in Deliveries
      BY <2>3, <3>1 DEF Events
    <3>4. QED BY <2>3, <3>1, <3>2, <3>3 DEF OtherRows, AttemptsInv
  <2>4. QED BY <2>1, <2>2, <2>3 DEF AttemptsInv, Events
<1>7. QED BY <1>3, <1>4, <1>5, <1>6
\* A process that is done with its delivery is idle.
LEMMA RestEffect ==
    ASSUME DeliveryTypes, NEW p \in Processes, Rest(p)
    PROVE  /\ at' \in [Processes -> Places] /\ cur' \in [Processes -> Deliveries \union {0}]
           /\ tryNo' \in [Processes -> Nat] /\ timer' \in [Processes -> Nat]
           /\ at'[p] = "idle" /\ cur'[p] = 0 /\ timer'[p] = 0
           /\ \A q \in Processes : q # p =>
                 cur'[q] = cur[q] /\ at'[q] = at[q] /\ tryNo'[q] = tryNo[q] /\ timer'[q] = timer[q]
BY DEF Rest, DeliveryTypes, Places

\* The end of a delivery, or of a batch, keeps what does not speak of notices.
LEMMA RestStep ==
    ASSUME CoreInv, NEW p \in Processes, Rest(p),
           batch' = batch \/ batch' = [batch EXCEPT ![p] = {}],
           status' \in [Deliveries -> Statuses], attempts' \in [Deliveries -> Nat],
           dueIn' \in [Deliveries -> Nat], hook' \in {"active", "inactive", "deleted"},
           disables' \in Nat, notices' \in Nat, toggles' \in Nat, faults' \in Nat,
           OtherRows(p),
           cur[p] \in Deliveries => status'[cur[p]] # "absent",
           cur[p] \in Events /\ status'[cur[p]] \in Due => attempts'[cur[p]] < MaxAttempts
    PROVE  CoreInv'
<1> USE DEF CoreInv
<1>1. batch' \in [Processes -> SUBSET Deliveries]
  BY DEF DeliveryTypes
<1>2. DeliveryTypes'
  BY <1>1, RestEffect DEF DeliveryTypes
<1>3. batch'[p] \in {batch[p], {}} /\ \A q \in Processes : q # p => batch'[q] = batch[q]
  BY DEF DeliveryTypes
<1>4. Others(p)
  BY <1>3, RestEffect DEF Others
<1>5. Holds(p)' = batch'[p]
  BY RestEffect DEF Holds
<1>6. Holds(p)' \subseteq Holds(p) /\ cur[p] \notin Holds(p)'
  BY <1>3, <1>5 DEF Holds, ShapeInv
<1>7. Left(p)' <= Left(p) /\ Left(p)' \in Int
  <2>1. Left(p)' = (Hops + 1) * Cardinality(batch'[p])
    <3>1. Cardinality(batch'[p]) \in Nat
      BY <1>1, BatchSize
    <3>2. (Hops + 1) * Cardinality(batch'[p]) \in Nat
      BY <3>1
    <3>3. QED BY <3>2, RestEffect DEF Left
  <2>2. CASE batch'[p] = batch[p]
    <3>1. Cardinality(batch[p]) \in Nat
      BY BatchSize DEF DeliveryTypes
    <3>2. (Hops + 1) * Cardinality(batch[p]) \in Nat
      BY <3>1
    <3>3. Hops + 1 - timer[p] \in Nat
      BY DEF DeliveryTypes, ShapeInv
    <3>4. (Hops + 1) * Cardinality(batch[p]) <= Left(p)
      BY <3>2, <3>3 DEF Left
    <3>5. QED BY <2>1, <2>2, <3>2, <3>4
  <2>3. CASE batch'[p] = {}
    <3>1. Left(p)' = 0
      BY <2>1, <2>3, FS_EmptySet
    <3>2. QED BY <3>1, LeftType
  <2>4. QED BY <1>3, <2>2, <2>3
<1>8. /\ at'[p] = "idle" <=> cur'[p] = 0
      /\ timer'[p] <= Hops + 1
      /\ cur'[p] \notin batch'[p]
      /\ at'[p] # "post"
  BY <1>1, RestEffect
<1>9. p = Web => batch'[p] = {} /\ cur'[p] \in Tests \union {0}
  BY <1>3, RestEffect DEF ShapeInv
<1>10. QED BY <1>2, <1>4, <1>6, <1>7, <1>8, <1>9, ProcessStep

(***************************************************************************)
(* The actions of a process, one by one.                                   *)
(***************************************************************************)
\* A row that is written last keeps what does not speak of notices.
LEMMA WriteAndRest ==
    ASSUME CoreInv, NEW p \in Processes, at[p] # "idle", Rest(p), UNCHANGED <<batch, counts>>,
           hook' \in {"active", "inactive", "deleted"},
           NEW s \in Due \union Ended, NEW n \in Nat, NEW wait \in Nat, Write(cur[p], s, n, wait),
           cur[p] \in Events /\ s \in Due => n < MaxAttempts
    PROVE  CoreInv'
<1> USE DEF CoreInv
<1>1. cur[p] \in Deliveries /\ status[cur[p]] # "absent"
  BY AtARow
<1>2. /\ status' \in [Deliveries -> Statuses] /\ attempts' \in [Deliveries -> Nat]
      /\ dueIn' \in [Deliveries -> Nat] /\ OtherRows(p)
  BY <1>1, WriteEffect DEF OtherRows
<1>3. status'[cur[p]] # "absent"
  BY <1>1, WriteEffect DEF rows, Due, Ended
<1>4. ASSUME cur[p] \in Events, status'[cur[p]] \in Due PROVE attempts'[cur[p]] < MaxAttempts
  <2>1. PICK d \in Deliveries : d = cur[p]
    BY <1>1
  <2>2. UNCHANGED rows \/ (status'[d] = s /\ attempts'[d] = n)
    <3>1. Write(d, s, n, wait) /\ DeliveryTypes
      BY <2>1
    <3>2. QED BY <3>1, WriteEffect, SMTT(30)
  <2>3. CASE UNCHANGED rows
    BY <1>4, <2>1, <2>3 DEF rows, AttemptsInv
  <2>4. CASE status'[d] = s /\ attempts'[d] = n
    BY <1>4, <2>1, <2>4
  <2>5. QED BY <2>2, <2>3, <2>4
<1>5. disables' \in Nat /\ notices' \in Nat /\ toggles' \in Nat /\ faults' \in Nat /\ batch' = batch
  BY DEF counts, DeliveryTypes
<1>6. QED BY <1>2, <1>3, <1>4, <1>5, RestStep

\* Without a write there is nothing to keep.
LEMMA OnlyRest ==
    ASSUME CoreInv, NEW p \in Processes, Rest(p), UNCHANGED <<hook, rows>>,
           batch' = batch \/ batch' = [batch EXCEPT ![p] = {}],
           disables' \in Nat, notices' \in Nat, toggles' \in Nat, faults' \in Nat
    PROVE  CoreInv'
<1> USE DEF CoreInv
<1>1. status' = status /\ attempts' = attempts /\ dueIn' = dueIn /\ hook' = hook
  BY DEF rows
<1>2. cur[p] \in Deliveries => status[cur[p]] # "absent"
  BY DEF ShapeInv, Holds
<1>3. cur[p] \in Events /\ status[cur[p]] \in Due => attempts[cur[p]] < MaxAttempts
  BY DEF AttemptsInv
<1>4. OtherRows(p)
  BY <1>1 DEF OtherRows
<1>5. QED BY <1>1, <1>2, <1>3, <1>4, RestStep DEF DeliveryTypes

\* The smaller of two numbers is one of them.
LEMMA MinOfTwo == ASSUME NEW m \in Nat PROVE Min({2, m}) \in Nat
<1>1. \E x \in {2, m} : \A y \in {2, m} : x <= y
  <2>1. CASE m <= 2
    BY <2>1
  <2>2. CASE ~(m <= 2)
    BY <2>2
  <2>3. QED BY <2>1, <2>2
<1>2. Min({2, m}) \in {2, m}
  BY <1>1 DEF Min
<1>3. QED BY <1>2

\* The row is read again: it ends here, or the request goes out as the next try.
LEMMA ReadKeeps == ASSUME CoreInv, NEW p \in Processes, ReadDelivery(p) PROVE CoreInv'
<1> USE DEF CoreInv
<1>1. cur[p] \in Deliveries /\ cur[p] \in Holds(p) /\ status[cur[p]] # "absent" /\ at[p] = "read"
  BY AtARow DEF ReadDelivery
<1>2. /\ hook' = hook /\ batch' = batch
      /\ disables' = disables /\ notices' = notices /\ toggles' = toggles /\ faults' = faults
  BY DEF ReadDelivery, counts
<1>3. CASE Rest(p) /\ UNCHANGED rows
  BY <1>2, <1>3, OnlyRest DEF DeliveryTypes
<1>4. CASE Rest(p) /\ Write(cur[p], "disabled", attempts[cur[p]], 0)
  <2>1. "disabled" \in Due \union Ended /\ "disabled" \notin Due /\ attempts[cur[p]] \in Nat
    BY <1>1 DEF Due, Ended, DeliveryTypes
  <2>2. QED BY <1>1, <1>2, <1>4, <2>1, WriteAndRest DEF counts, DeliveryTypes
<1>5. CASE /\ MayStillSend(cur[p])
           /\ at' = [at EXCEPT ![p] = "post"]
           /\ tryNo' = [tryNo EXCEPT ![p] = IF cur[p] \in Tests THEN Min({2, attempts[cur[p]] + 1})
                                           ELSE attempts[cur[p]] + 1]
           /\ UNCHANGED <<rows, cur, timer>>
  <2>1. status' = status /\ attempts' = attempts /\ dueIn' = dueIn /\ cur' = cur /\ timer' = timer
    BY <1>5 DEF rows
  <2>2. at'[p] = "post" /\ at' \in [Processes -> Places]
    BY <1>5 DEF DeliveryTypes, Places
  <2>3. attempts[cur[p]] \in Nat
    BY <1>1 DEF DeliveryTypes
  <2>4. (IF cur[p] \in Tests THEN Min({2, attempts[cur[p]] + 1}) ELSE attempts[cur[p]] + 1) \in Nat
    BY <2>3, MinOfTwo
  <2>5. tryNo' \in [Processes -> Nat]
    BY <1>5, <2>4 DEF DeliveryTypes
  <2>6. DeliveryTypes'
    BY <1>2, <2>1, <2>2, <2>5 DEF DeliveryTypes
  <2>7. Others(p) /\ OtherRows(p)
    BY <1>2, <1>5, <2>1 DEF Others, OtherRows, DeliveryTypes
  <2>8. Holds(p)' = Holds(p)
    BY <1>2, <2>1 DEF Holds
  <2>9. Left(p)' = Left(p) /\ Left(p) \in Nat
    BY <1>1, <1>2, <2>1, <2>2, LeftType DEF Left
  <2>10. /\ at'[p] = "idle" <=> cur'[p] = 0
         /\ timer'[p] <= Hops + 1
         /\ cur'[p] \notin batch'[p]
         /\ p = Web => batch'[p] = {} /\ cur'[p] \in Tests \union {0}
         /\ status'[cur[p]] # "absent"
    BY <1>1, <1>2, <2>1, <2>2 DEF ShapeInv
  <2>11. cur[p] \in Events /\ status'[cur[p]] \in Due =>
            attempts'[cur[p]] < MaxAttempts /\ status[cur[p]] \in Due /\ dueIn'[cur[p]] = dueIn[cur[p]]
    BY <2>1 DEF AttemptsInv
  <2>12. cur'[p] \in Events =>
            /\ status'[cur'[p]] \in Due \union {"gone"}
            /\ tryNo'[p] = attempts'[cur'[p]] + 1
            /\ attempts'[cur'[p]] < MaxAttempts
    BY <1>5, <2>1 DEF MayStillSend, AttemptsInv, Events, DeliveryTypes
  <2>13. QED BY <2>6, <2>7, <2>8, <2>9, <2>10, <2>11, <2>12, ProcessStep
<1>6. QED BY <1>3, <1>4, <1>5 DEF ReadDelivery
\* An answer ends the delivery.
LEMMA AnswerKeeps ==
    ASSUME CoreInv, NEW p \in Processes, AnswerOk(p) \/ AnswerPermanent(p) PROVE CoreInv'
<1>1. /\ at[p] # "idle" /\ Rest(p) /\ UNCHANGED <<batch, counts>> /\ hook' = hook
      /\ \E s \in {"ok", "rejected"} : Write(cur[p], s, tryNo[p], 0)
  BY DEF AnswerOk, AnswerPermanent
<1>2. \A s \in {"ok", "rejected"} : s \in Due \union Ended /\ s \notin Due
  BY DEF Due, Ended
<1>3. tryNo[p] \in Nat /\ hook \in {"active", "inactive", "deleted"}
  BY DEF CoreInv, DeliveryTypes
<1>4. QED BY <1>1, <1>2, <1>3, WriteAndRest

\* A step of p that leaves what it holds and its batch alone, and is no request any more.
LEMMA StaysAtRow ==
    ASSUME CoreInv, NEW p \in Processes, at[p] # "idle", NEW where \in {"disable", "notify"},
           at' = [at EXCEPT ![p] = where],
           UNCHANGED <<batch, cur, tryNo>>,
           timer' \in [Processes -> Nat], timer'[p] <= Hops + 1, \A q \in Processes : q # p => timer'[q] = timer[q],
           hook' \in {"active", "inactive", "deleted"},
           disables' \in Nat, notices' \in Nat, toggles' \in Nat, faults' \in Nat,
           \/ UNCHANGED rows
           \/ \E n \in Nat : Write(cur[p], "disabled", n, 0)
    PROVE  CoreInv'
<1> USE DEF CoreInv
<1>1. cur[p] \in Deliveries /\ status[cur[p]] # "absent"
  BY AtARow
<1>2. /\ status' \in [Deliveries -> Statuses] /\ attempts' \in [Deliveries -> Nat]
      /\ dueIn' \in [Deliveries -> Nat] /\ OtherRows(p)
      /\ status'[cur[p]] # "absent"
      /\ status'[cur[p]] \in Due => UNCHANGED rows
  <2>1. CASE UNCHANGED rows
    BY <1>1, <2>1 DEF rows, OtherRows, DeliveryTypes
  <2>2. ASSUME NEW n \in Nat, Write(cur[p], "disabled", n, 0)
        PROVE  /\ status' \in [Deliveries -> Statuses] /\ attempts' \in [Deliveries -> Nat]
               /\ dueIn' \in [Deliveries -> Nat] /\ OtherRows(p)
               /\ status'[cur[p]] # "absent"
               /\ status'[cur[p]] \in Due => UNCHANGED rows
    <3>1. "disabled" \in Due \union Ended /\ "disabled" \notin Due
      BY DEF Due, Ended
    <3>2. /\ status' \in [Deliveries -> Statuses] /\ attempts' \in [Deliveries -> Nat]
          /\ dueIn' \in [Deliveries -> Nat] /\ OtherRows(p)
          /\ UNCHANGED rows \/ status'[cur[p]] = "disabled"
      BY <1>1, <2>2, <3>1, WriteEffect DEF OtherRows
    <3>3. QED BY <1>1, <3>1, <3>2 DEF rows
  <2>3. QED BY <2>1, <2>2
<1>3. at'[p] = where /\ at' \in [Processes -> Places]
  BY DEF DeliveryTypes, Places
<1>4. DeliveryTypes'
  BY <1>2, <1>3 DEF DeliveryTypes
<1>5. Others(p)
  BY DEF Others, DeliveryTypes
<1>6. Holds(p)' = Holds(p)
  BY DEF Holds
<1>7. Left(p)' <= Left(p) /\ Left(p)' \in Int
  <2>1. (Hops + 1) * Cardinality(batch[p]) \in Nat
    <3>1. Cardinality(batch[p]) \in Nat
      BY BatchSize DEF DeliveryTypes
    <3>2. QED BY <3>1
  <2>2. Left(p)' = (Hops + 1) * Cardinality(batch[p])
    BY <1>3, <2>1 DEF Left
  <2>3. Hops + 1 - timer[p] \in Nat
    BY DEF DeliveryTypes, ShapeInv
  <2>4. QED BY <2>1, <2>2, <2>3 DEF Left
<1>8. /\ at'[p] = "idle" <=> cur'[p] = 0
      /\ cur'[p] \notin batch'[p]
      /\ p = Web => batch'[p] = {} /\ cur'[p] \in Tests \union {0}
      /\ at'[p] # "post"
  BY <1>1, <1>3 DEF ShapeInv
<1>9. cur[p] \in Events /\ status'[cur[p]] \in Due =>
         attempts'[cur[p]] < MaxAttempts /\ status[cur[p]] \in Due /\ dueIn'[cur[p]] = dueIn[cur[p]]
  BY <1>2 DEF rows, AttemptsInv
<1>10. QED BY <1>2, <1>4, <1>5, <1>6, <1>7, <1>8, <1>9, ProcessStep

\* A failure is tried again later, or is the last and begins to switch the webhook off.
LEMMA FailureKeeps == ASSUME CoreInv, NEW p \in Processes, HandleFailure(p) PROVE CoreInv'
<1> USE DEF CoreInv
<1>1. /\ cur[p] \in Deliveries /\ at[p] = "post" /\ batch' = batch
      /\ notices' = notices /\ toggles' = toggles /\ faults' = faults
  BY AtARow DEF HandleFailure
<1>2. tryNo[p] \in Nat /\ dueIn[cur[p]] \in Nat /\ hook \in {"active", "inactive", "deleted"}
      /\ disables \in Nat /\ notices \in Nat /\ toggles \in Nat /\ faults \in Nat
  BY <1>1 DEF DeliveryTypes
<1>3. "failed" \in Due \union Ended
  BY DEF Due
<1>4. CASE /\ cur[p] \in Tests /\ Write(cur[p], "failed", tryNo[p], dueIn[cur[p]])
           /\ Rest(p) /\ UNCHANGED <<hook, disables>>
  <2>1. UNCHANGED <<batch, counts>> /\ cur[p] \notin Events
    BY <1>1, <1>4 DEF counts, Events
  <2>2. QED BY <1>1, <1>2, <1>3, <1>4, <2>1, WriteAndRest
<1>5. CASE /\ cur[p] \notin Tests /\ ~GivesUp(tryNo[p])
           /\ Write(cur[p], "failed", tryNo[p], Backoff[IF tryNo[p] < MaxAttempts THEN tryNo[p]
                                                       ELSE MaxAttempts - 1])
           /\ Rest(p) /\ UNCHANGED <<hook, disables>>
  <2>1. tryNo[p] < MaxAttempts
    BY <1>2, <1>5 DEF GivesUp
  <2>2. attempts[cur[p]] \in Nat /\ tryNo[p] = attempts[cur[p]] + 1
    BY <1>1, <1>5 DEF AttemptsInv, Events, DeliveryTypes
  <2>3. tryNo[p] \in 1..(MaxAttempts - 1)
    BY <1>2, <2>1, <2>2
  <2>4. Backoff[tryNo[p]] \in Nat
    BY <2>3
  <2>5. Write(cur[p], "failed", tryNo[p], Backoff[tryNo[p]])
    BY <1>5, <2>1
  <2>6. UNCHANGED <<batch, counts>>
    BY <1>1, <1>5 DEF counts
  <2>7. QED BY <1>1, <1>2, <1>3, <1>5, <2>1, <2>4, <2>5, <2>6, WriteAndRest
<1>6. CASE /\ cur[p] \notin Tests /\ GivesUp(tryNo[p])
           /\ hook' = IF hook = "deleted" THEN hook ELSE "inactive"
           /\ disables' = IF hook = "active" THEN disables + 1 ELSE disables
           /\ at' = [at EXCEPT ![p] = "disable"]
           /\ timer' = [timer EXCEPT ![p] = 0]
           /\ UNCHANGED <<rows, cur, tryNo>>
  <2>1. hook' \in {"active", "inactive", "deleted"} /\ disables' \in Nat
    BY <1>2, <1>6
  <2>2. /\ timer' \in [Processes -> Nat] /\ timer'[p] <= Hops + 1
        /\ \A q \in Processes : q # p => timer'[q] = timer[q]
    BY <1>6 DEF DeliveryTypes
  <2>3. UNCHANGED <<batch, cur, tryNo>> /\ UNCHANGED rows /\ at' = [at EXCEPT ![p] = "disable"]
    BY <1>1, <1>6
  <2>4. notices' \in Nat /\ toggles' \in Nat /\ faults' \in Nat
    BY <1>1, <1>2
  <2>5. at[p] # "idle"
    BY <1>1
  <2>6. QED BY <2>1, <2>2, <2>3, <2>4, <2>5, StaysAtRow
<1>7. QED BY <1>4, <1>5, <1>6 DEF HandleFailure

\* The second statement of disableWebhook.
LEMMA DisableKeeps == ASSUME CoreInv, NEW p \in Processes, DisableDelivery(p) PROVE CoreInv'
<1> USE DEF CoreInv
<1>1. /\ at[p] # "idle" /\ at' = [at EXCEPT ![p] = "notify"] /\ UNCHANGED <<batch, cur, tryNo>>
      /\ hook' = hook /\ timer' = timer
      /\ disables' = disables /\ notices' = notices /\ toggles' = toggles /\ faults' = faults
  BY DEF DisableDelivery, counts
<1>2. \E n \in Nat : Write(cur[p], "disabled", n, 0)
  BY DEF DisableDelivery, DeliveryTypes
<1>3. /\ timer' \in [Processes -> Nat] /\ timer'[p] <= Hops + 1
      /\ \A q \in Processes : q # p => timer'[q] = timer[q]
  BY <1>1 DEF DeliveryTypes, ShapeInv
<1>4. /\ hook' \in {"active", "inactive", "deleted"}
      /\ disables' \in Nat /\ notices' \in Nat /\ toggles' \in Nat /\ faults' \in Nat
  BY <1>1 DEF DeliveryTypes
<1>5. QED BY <1>1, <1>2, <1>3, <1>4, StaysAtRow
\* One request less.
LEMMA OneLess ==
    ASSUME NEW n \in Nat
    PROVE  (Hops + 1) * n \in Nat /\ (Hops + 1) * (n - 1) = (Hops + 1) * n - (Hops + 1)
OBVIOUS

\* A tick turns to the next delivery of its batch: it holds what it held.
LEMMA NextKeeps == ASSUME CoreInv, NEW t \in Ticks, NextOfBatch(t) PROVE CoreInv'
<1> USE DEF CoreInv
<1>1. PICK d \in batch[t] : d = Min(batch[t])
  BY MinIsMember DEF NextOfBatch, DeliveryTypes, Processes
<1>2. /\ t \in Processes /\ t # Web /\ at[t] = "idle" /\ cur[t] = 0 /\ d \in Deliveries /\ d # 0
      /\ batch' = [batch EXCEPT ![t] = @ \ {d}] /\ cur' = [cur EXCEPT ![t] = d]
      /\ at' = [at EXCEPT ![t] = "read"]
      /\ hook' = hook /\ status' = status /\ attempts' = attempts /\ dueIn' = dueIn
      /\ tryNo' = tryNo /\ timer' = timer
      /\ disables' = disables /\ notices' = notices /\ toggles' = toggles /\ faults' = faults
  BY <1>1 DEF NextOfBatch, ShapeInv, DeliveryTypes, Processes, rows, counts
<1>3. batch'[t] = batch[t] \ {d} /\ cur'[t] = d /\ at'[t] = "read"
  BY <1>2 DEF DeliveryTypes
<1>4. /\ batch' \in [Processes -> SUBSET Deliveries]
      /\ cur' \in [Processes -> Deliveries \union {0}]
      /\ at' \in [Processes -> Places]
  BY <1>2 DEF DeliveryTypes, Places
<1>5. DeliveryTypes'
  BY <1>2, <1>4 DEF DeliveryTypes
<1>6. Others(t) /\ OtherRows(t)
  BY <1>2 DEF Others, OtherRows, DeliveryTypes
<1>7. Holds(t)' \subseteq Holds(t)
  BY <1>2, <1>3 DEF Holds
<1>8. Left(t)' <= Left(t) /\ Left(t)' \in Int
  <2> DEFINE n == Cardinality(batch[t])
  <2>1. n \in Nat /\ Cardinality(batch'[t]) = n - 1
    <3>1. batch[t] \in SUBSET Deliveries
      BY <1>2 DEF DeliveryTypes
    <3>2. n \in Nat /\ IsFiniteSet(batch[t])
      BY <3>1, BatchSize
    <3>3. Cardinality(batch[t] \ {d}) = n - 1
      BY <1>1, <3>2, FS_RemoveElement
    <3>4. QED BY <1>3, <3>2, <3>3
  <2>2. (Hops + 1) * n \in Nat /\ (Hops + 1) * (n - 1) = (Hops + 1) * n - (Hops + 1)
    BY <2>1, OneLess
  <2>3. Left(t) = (Hops + 1) * n
    BY <1>2, <2>2 DEF Left
  <2>4. Left(t)' = (Hops + 1) * (n - 1) + (Hops + 1 - timer[t])
    BY <1>2, <1>3, <2>1 DEF Left
  <2>5. timer[t] \in Nat
    BY <1>2 DEF DeliveryTypes
  <2>6. QED BY <2>2, <2>3, <2>4, <2>5
<1>9. /\ at'[t] = "idle" <=> cur'[t] = 0
      /\ timer'[t] <= Hops + 1
      /\ cur'[t] \notin batch'[t]
      /\ at'[t] # "post" /\ cur[t] \notin Deliveries
  BY <1>2, <1>3 DEF ShapeInv
<1>10. cur[t] \notin Events
  BY <1>9 DEF Events
<1>11. QED BY <1>2, <1>5, <1>6, <1>7, <1>8, <1>9, <1>10, ProcessStep

\* More to do takes longer.
LEMMA Longer == ASSUME NEW a \in Nat, NEW b \in Nat, a <= b PROVE (Hops + 1) * a <= (Hops + 1) * b
<1>1. b - a \in Nat
  OBVIOUS
<1>2. (Hops + 1) * (b - a) \in Nat
  BY <1>1
<1>3. (Hops + 1) * b = (Hops + 1) * a + (Hops + 1) * (b - a)
  OBVIOUS
<1>4. (Hops + 1) * a \in Nat
  OBVIOUS
<1>5. QED BY <1>2, <1>3, <1>4

\* A claim takes no event that another process holds, and its lease outlasts the requests.
LEMMA ClaimKeeps == ASSUME CoreInv, LeaseOutlasts, NEW t \in Ticks, Claim(t) PROVE CoreInv'
<1> USE DEF CoreInv
<1> DEFINE due == {d \in Deliveries : status[d] \in Due /\ dueIn[d] = 0}
<1>1. /\ t \in Processes /\ t # Web /\ at[t] = "idle" /\ batch[t] = {} /\ cur[t] = 0
      /\ batch' = [batch EXCEPT ![t] = due]
      /\ dueIn' = [d \in Deliveries |-> IF d \in due THEN Lease ELSE dueIn[d]]
      /\ hook' = hook /\ status' = status /\ attempts' = attempts
      /\ cur' = cur /\ at' = at /\ tryNo' = tryNo /\ timer' = timer
      /\ disables' = disables /\ notices' = notices /\ toggles' = toggles /\ faults' = faults
  BY DEF Claim, ClaimWait, ShapeInv, Processes, counts
<1>2. batch'[t] = due /\ \A q \in Processes : q # t => batch'[q] = batch[q]
  BY <1>1 DEF DeliveryTypes
<1>3. DeliveryTypes'
  <2>1. batch' \in [Processes -> SUBSET Deliveries] /\ dueIn' \in [Deliveries -> Nat]
    BY <1>1 DEF DeliveryTypes
  <2>2. QED BY <1>1, <2>1 DEF DeliveryTypes
<1>4. Holds(t)' = due /\ \A q \in Processes : q # t => Holds(q)' = Holds(q) /\ Left(q)' = Left(q)
  BY <1>1, <1>2 DEF Holds, Left
<1>5. ASSUME NEW q \in Processes, NEW d \in Holds(q) \intersect Events PROVE d \notin due
  <2>1. SUFFICES ASSUME status[d] \in Due PROVE dueIn[d] # 0
    OBVIOUS
  <2>2. dueIn[d] > Left(q) /\ Left(q) \in Nat /\ dueIn[d] \in Nat
    BY <1>5, <2>1, LeftType DEF LeaseInv, Events, DeliveryTypes
  <2>3. QED BY <2>2
<1>6. ShapeInv'
  <2>1. \A d \in due : status[d] # "absent"
    BY DEF Due
  <2>2. ASSUME NEW q \in Processes
        PROVE  /\ at'[q] = "idle" <=> cur'[q] = 0
               /\ timer'[q] <= Hops + 1
               /\ cur'[q] \notin batch'[q]
               /\ \A d \in Holds(q)' : status'[d] # "absent"
    <3>1. CASE q = t
      BY <1>1, <1>2, <1>4, <2>1, <3>1 DEF ShapeInv
    <3>2. CASE q # t
      BY <1>1, <1>2, <1>4, <3>2 DEF ShapeInv
    <3>3. QED BY <3>1, <3>2
  <2>3. batch'[Web] = {} /\ cur'[Web] \in Tests \union {0}
    BY <1>1, <1>2 DEF ShapeInv, Processes
  <2>4. QED BY <2>2, <2>3 DEF ShapeInv
<1>7. LeaseInv'
  <2>1. ASSUME NEW q \in Processes, NEW d \in Holds(q)' \intersect Events, status'[d] \in Due
        PROVE  dueIn'[d] > Left(q)'
    <3>1. CASE q = t
      <4>1. d \in due /\ dueIn'[d] = Lease
        BY <1>1, <1>4, <2>1, <3>1
      <4>2. due \in SUBSET Deliveries /\ Deliveries \in SUBSET Deliveries
        OBVIOUS
      <4>3. Cardinality(due) \in Nat /\ Cardinality(Deliveries) \in Nat /\ Cardinality(due) <= Cardinality(Deliveries)
        BY <4>2, BatchSize
      <4>4. (Hops + 1) * Cardinality(due) <= (Hops + 1) * Cardinality(Deliveries)
        BY <4>3, Longer
      <4>5. (Hops + 1) * Cardinality(due) \in Nat /\ (Hops + 1) * Cardinality(Deliveries) \in Nat
        BY <4>3
      <4>6. Left(q)' = (Hops + 1) * Cardinality(due)
        <5>1. Cardinality(batch'[t]) = Cardinality(due) /\ at'[t] = "idle"
          BY <1>1, <1>2
        <5>2. Left(t)' = (Hops + 1) * Cardinality(batch'[t]) + 0
          BY <5>1 DEF Left
        <5>3. (Hops + 1) * Cardinality(batch'[t]) + 0 = (Hops + 1) * Cardinality(due)
          BY <4>5, <5>1
        <5>4. QED BY <3>1, <5>2, <5>3
      <4>7. QED BY <4>1, <4>4, <4>5, <4>6 DEF LeaseOutlasts
    <3>2. CASE q # t
      <4>1. d \in Holds(q) \intersect Events /\ status[d] \in Due /\ Left(q)' = Left(q)
        BY <1>1, <1>4, <2>1, <3>2
      <4>2. d \notin due /\ dueIn[d] > Left(q)
        BY <1>5, <4>1 DEF LeaseInv
      <4>3. d \in Deliveries
        BY <4>1 DEF Events
      <4>4. QED BY <1>1, <4>1, <4>2, <4>3
    <3>3. QED BY <3>1, <3>2
  <2>2. QED BY <2>1 DEF LeaseInv, Events
<1>8. OneSender'
  <2>1. ASSUME NEW p \in Processes, NEW q \in Processes, p # q
        PROVE  Holds(p)' \intersect Holds(q)' \intersect Events = {}
    BY <1>4, <1>5, <2>1 DEF OneSender
  <2>2. QED BY <2>1 DEF OneSender, Events
<1>9. AttemptsInv'
  BY <1>1 DEF AttemptsInv, Events
<1>10. QED BY <1>3, <1>6, <1>7, <1>8, <1>9
(***************************************************************************)
(* The hub, the user, time and faults.                                     *)
(***************************************************************************)
\* A new row is held by nobody, or is a test.
LEMMA NewRowKeeps ==
    ASSUME CoreInv, NEW d \in Deliveries, Notify(d) \/ SendTestWebhook(d) PROVE CoreInv'
<1> USE DEF CoreInv
<1>1. /\ status[d] = "absent" /\ status' = [status EXCEPT ![d] = "pending"]
      /\ attempts' = attempts /\ dueIn' = dueIn /\ batch' = batch /\ hook' = hook
      /\ tryNo' = tryNo /\ timer' = timer
      /\ disables' = disables /\ notices' = notices /\ toggles' = toggles /\ faults' = faults
  BY DEF Notify, SendTestWebhook, Newest, sender, counts
<1>2. \/ at' = at /\ cur' = cur
      \/ /\ d \in Tests /\ at[Web] = "idle"
         /\ at' = [at EXCEPT ![Web] = "read"] /\ cur' = [cur EXCEPT ![Web] = d]
  BY DEF Notify, SendTestWebhook, sender
<1>3. DeliveryTypes'
  <2>1. status' \in [Deliveries -> Statuses]
    BY <1>1 DEF DeliveryTypes, Statuses, Due
  <2>2. at' \in [Processes -> Places] /\ cur' \in [Processes -> Deliveries \union {0}]
    BY <1>2 DEF DeliveryTypes, Places
  <2>3. QED BY <1>1, <2>1, <2>2 DEF DeliveryTypes
<1>4. \A e \in Deliveries : e # d => status'[e] = status[e]
  BY <1>1 DEF DeliveryTypes
<1>5. status'[d] = "pending"
  BY <1>1 DEF DeliveryTypes
<1>6. \A q \in Processes : d \notin Holds(q)
  BY <1>1 DEF ShapeInv
<1>7. \A q \in Processes :
         \/ at'[q] = at[q] /\ cur'[q] = cur[q]
         \/ q = Web /\ d \in Tests /\ at'[q] = "read" /\ cur'[q] = d
  BY <1>2 DEF DeliveryTypes, Processes
<1>8. \A q \in Processes : Holds(q) \subseteq Deliveries /\ Holds(q)' \subseteq Holds(q) \union {d}
  BY <1>1, <1>7 DEF Holds, DeliveryTypes
<1>9. \A q \in Processes : d \in Events => Holds(q)' = Holds(q) /\ Left(q)' = Left(q)
  BY <1>1, <1>7 DEF Holds, Left, Events
<1>10. ShapeInv'
  <2>1. ASSUME NEW q \in Processes
        PROVE  /\ at'[q] = "idle" <=> cur'[q] = 0
               /\ timer'[q] <= Hops + 1
               /\ cur'[q] \notin batch'[q]
    BY <1>1, <1>7 DEF ShapeInv
  <2>2. ASSUME NEW q \in Processes, NEW e \in Holds(q)' PROVE status'[e] # "absent"
    BY <1>4, <1>5, <1>8 DEF ShapeInv
  <2>3. batch'[Web] = {} /\ cur'[Web] \in Tests \union {0}
    BY <1>1, <1>7 DEF ShapeInv, Processes
  <2>4. QED BY <2>1, <2>2, <2>3 DEF ShapeInv
<1>11. \A q \in Processes : Holds(q)' \intersect Events \subseteq Holds(q)
  BY <1>8, <1>9
<1>12. LeaseInv'
  <2>1. ASSUME NEW q \in Processes, NEW e \in Holds(q)' \intersect Events, status'[e] \in Due
        PROVE  dueIn'[e] > Left(q)'
    <3>1. e \in Holds(q) /\ e # d /\ e \in Deliveries
      BY <1>6, <1>8, <1>11, <2>1
    <3>2. dueIn'[e] > Left(q)
      BY <1>1, <1>4, <2>1, <3>1 DEF LeaseInv
    <3>3. CASE at'[q] = at[q] /\ cur'[q] = cur[q]
      BY <1>1, <3>2, <3>3 DEF Left
    <3>4. CASE q = Web
      BY <3>1, <2>1, <3>4 DEF ShapeInv, Holds, Events
    <3>5. QED BY <1>7, <3>3, <3>4
  <2>2. QED BY <2>1 DEF LeaseInv, Events
<1>13. OneSender'
  BY <1>11 DEF OneSender, Events
<1>14. AttemptsInv'
  <2>1. \A e \in Deliveries : status'[e] = "absent" => attempts'[e] = 0
    BY <1>1, <1>4, <1>5 DEF AttemptsInv
  <2>2. \A e \in Events : status'[e] \in Due => attempts'[e] < MaxAttempts
    BY <1>1, <1>4 DEF AttemptsInv, Events
  <2>3. ASSUME NEW q \in Processes, at'[q] = "post", cur'[q] \in Events
        PROVE  /\ status'[cur'[q]] \in Due \union {"gone"}
               /\ tryNo'[q] = attempts'[cur'[q]] + 1
               /\ attempts'[cur'[q]] < MaxAttempts
    <3>1. at[q] = "post" /\ cur'[q] = cur[q]
      BY <1>7, <2>3
    <3>2. cur[q] \in Deliveries /\ cur[q] # d
      BY <1>6, <3>1, AtARow
    <3>3. QED BY <1>1, <1>4, <2>3, <3>1, <3>2 DEF AttemptsInv
  <2>4. QED BY <2>1, <2>2, <2>3 DEF AttemptsInv, Events
<1>15. QED BY <1>3, <1>10, <1>12, <1>13, <1>14

\* Switching the webhook touches no row.
LEMMA UpdateKeeps == ASSUME CoreInv, UpdateWebhook PROVE CoreInv'
<1> USE DEF CoreInv
<1>1. /\ UNCHANGED <<status, attempts, dueIn, batch, cur, at, tryNo, timer, disables, notices, faults>>
      /\ hook' \in {"active", "inactive"} /\ toggles' = toggles + 1
  BY DEF UpdateWebhook, rows, sender
<1>2. DeliveryTypes'
  BY <1>1 DEF DeliveryTypes
<1>3. ShapeInv' /\ OneSender'
  BY <1>1 DEF ShapeInv, OneSender, Holds, Events
<1>4. LeaseInv' /\ AttemptsInv'
  BY <1>1 DEF LeaseInv, AttemptsInv, Left, Holds, Events
<1>5. QED BY <1>2, <1>3, <1>4

\* Rows that are gone are due no more.
LEMMA DeleteKeeps == ASSUME CoreInv, DeleteWebhook PROVE CoreInv'
<1> USE DEF CoreInv
<1>1. /\ UNCHANGED <<attempts, batch, cur, at, tryNo, timer, disables, notices, faults>>
      /\ hook' = "deleted" /\ toggles' = toggles + 1
      /\ status' = [d \in Deliveries |-> IF status[d] = "absent" THEN "absent" ELSE "gone"]
      /\ dueIn' = [d \in Deliveries |-> 0]
  BY DEF DeleteWebhook, sender
<1>2. DeliveryTypes'
  <2>1. status' \in [Deliveries -> Statuses] /\ dueIn' \in [Deliveries -> Nat]
    BY <1>1 DEF Statuses, Ended
  <2>2. QED BY <1>1, <2>1 DEF DeliveryTypes
<1>3. \A d \in Deliveries : status'[d] \notin Due /\ (status'[d] = "absent" <=> status[d] = "absent")
  BY <1>1 DEF Due
<1>4. \A q \in Processes : Holds(q)' = Holds(q) /\ Holds(q) \subseteq Deliveries
  BY <1>1 DEF Holds, DeliveryTypes
<1>5. ShapeInv'
  BY <1>1, <1>3, <1>4 DEF ShapeInv
<1>6. OneSender'
  BY <1>4 DEF OneSender, Events
<1>7. LeaseInv'
  BY <1>3, <1>4 DEF LeaseInv, Events
<1>8. AttemptsInv'
  <2>1. ASSUME NEW q \in Processes, at[q] = "post" PROVE status'[cur[q]] = "gone"
    BY <1>1, <2>1, AtARow
  <2>2. QED BY <1>1, <1>3, <2>1 DEF AttemptsInv, Events
<1>9. QED BY <1>2, <1>5, <1>6, <1>7, <1>8

\* While time passes whoever holds something is at a request, which uses up what it takes of the lease.
LEMMA PassKeeps == ASSUME CoreInv, Pass PROVE CoreInv'
<1> USE DEF CoreInv
<1>1. /\ \A p \in Processes : (at[p] = "idle" /\ batch[p] = {}) \/ (at[p] = "post" /\ timer[p] <= Hops)
      /\ dueIn' = [d \in Deliveries |-> IF dueIn[d] > 0 THEN dueIn[d] - 1 ELSE 0]
      /\ timer' = [p \in Processes |-> IF at[p] = "post" THEN timer[p] + 1 ELSE 0]
      /\ UNCHANGED <<hook, status, attempts, batch, cur, at, tryNo, disables, notices, toggles, faults>>
  BY DEF Pass, counts
<1>2. DeliveryTypes'
  <2>1. dueIn' \in [Deliveries -> Nat] /\ timer' \in [Processes -> Nat]
    BY <1>1 DEF DeliveryTypes
  <2>2. QED BY <1>1, <2>1 DEF DeliveryTypes
<1>3. \A q \in Processes : Holds(q)' = Holds(q) /\ Holds(q) \subseteq Deliveries
  BY <1>1 DEF Holds, DeliveryTypes
<1>4. ShapeInv'
  <2>1. \A q \in Processes : timer'[q] <= Hops + 1
    BY <1>1 DEF DeliveryTypes
  <2>2. QED BY <1>1, <1>3, <2>1 DEF ShapeInv
<1>5. OneSender'
  BY <1>3 DEF OneSender, Events
<1>6. LeaseInv'
  <2>1. ASSUME NEW q \in Processes, NEW d \in Holds(q)' \intersect Events, status'[d] \in Due
        PROVE  dueIn'[d] > Left(q)'
    <3>1. d \in Holds(q) \intersect Events /\ d \in Deliveries /\ dueIn[d] > Left(q)
      BY <1>1, <1>3, <2>1 DEF LeaseInv
    <3>2. at[q] = "post" /\ timer[q] <= Hops
      BY <1>1, <3>1 DEF Holds, ShapeInv
    <3>3. timer[q] \in Nat /\ dueIn[d] \in Nat /\ timer'[q] = timer[q] + 1
      BY <1>1, <3>1, <3>2 DEF DeliveryTypes
    <3>4. Left(q)' = Left(q) - 1
      <4>1. Cardinality(batch[q]) \in Nat
        BY BatchSize DEF DeliveryTypes
      <4>2. PICK n \in Nat : n = (Hops + 1) * Cardinality(batch[q])
        BY <4>1
      <4>3. Left(q) = n + (Hops + 1 - timer[q])
        BY <3>2, <4>2 DEF Left
      <4>4. Left(q)' = n + (Hops + 1 - timer'[q])
        BY <1>1, <3>2, <4>2 DEF Left
      <4>5. QED BY <3>3, <4>3, <4>4
    <3>5. Left(q) \in Nat
      BY LeftType
    <3>6. dueIn[d] > 0
      BY <3>1, <3>3, <3>5
    <3>7. dueIn'[d] = IF dueIn[d] > 0 THEN dueIn[d] - 1 ELSE 0
      BY <1>1, <3>1
    <3>8. QED BY <3>1, <3>3, <3>4, <3>5, <3>6, <3>7
  <2>2. QED BY <2>1 DEF LeaseInv, Events
<1>7. AttemptsInv'
  BY <1>1 DEF AttemptsInv, Events
<1>8. QED BY <1>2, <1>4, <1>5, <1>6, <1>7

\* The notification ends a delivery, and an abort a batch.
LEMMA EndKeeps == ASSUME CoreInv, NEW p \in Processes, NotifyDisabled(p) \/ Abort(p) PROVE CoreInv'
<1>1. Rest(p) /\ UNCHANGED <<hook, rows>>
  BY DEF NotifyDisabled, Abort
<1>2. batch' = batch \/ batch' = [batch EXCEPT ![p] = {}]
  BY DEF NotifyDisabled, Abort
<1>3. disables' \in Nat /\ notices' \in Nat /\ toggles' \in Nat /\ faults' \in Nat
  BY DEF NotifyDisabled, Abort, CoreInv, DeliveryTypes
<1>4. QED BY <1>1, <1>2, <1>3, OnlyRest
\* A step that moves nobody who has to tell, and adds no disable, keeps what is said of notices.
LEMMA QuietForNotices ==
    ASSUME NoticeInv, UNCHANGED <<disables, notices, faults>>,
           \A q \in Processes : at[q] \in {"disable", "notify"} => at'[q] = at[q]
    PROVE  NoticeInv'
BY DEF NoticeInv

\* Whoever has switched the webhook off goes on until the notice is there, or dies.
LEMMA NoticeKeeps == ASSUME DeliveryTypes, NoticeInv, Next PROVE NoticeInv'
<1>1. ASSUME NEW d \in Deliveries, Notify(d) \/ SendTestWebhook(d) PROVE NoticeInv'
  <2>1. \A q \in Processes : at[q] \in {"disable", "notify"} => at'[q] = at[q]
    BY <1>1 DEF Notify, SendTestWebhook, sender, DeliveryTypes
  <2>2. UNCHANGED <<disables, notices, faults>>
    BY <1>1 DEF Notify, SendTestWebhook, counts
  <2>3. QED BY <2>1, <2>2, QuietForNotices
<1>2. CASE UpdateWebhook \/ DeleteWebhook \/ Pass
  <2>1. UNCHANGED <<at, disables, notices, faults>>
    BY <1>2 DEF UpdateWebhook, DeleteWebhook, Pass, sender, counts
  <2>2. QED BY <2>1, QuietForNotices
<1>3. ASSUME NEW t \in Ticks, Claim(t) \/ NextOfBatch(t) PROVE NoticeInv'
  <2>1. \A q \in Processes : at[q] \in {"disable", "notify"} => at'[q] = at[q]
    BY <1>3 DEF Claim, NextOfBatch, DeliveryTypes
  <2>2. UNCHANGED <<disables, notices, faults>>
    BY <1>3 DEF Claim, NextOfBatch, counts
  <2>3. QED BY <2>1, <2>2, QuietForNotices
<1>4. ASSUME NEW p \in Processes, ReadDelivery(p) \/ AnswerOk(p) \/ AnswerPermanent(p) PROVE NoticeInv'
  <2>1. at[p] \in {"read", "post"} /\ UNCHANGED <<disables, notices, faults>>
    BY <1>4 DEF ReadDelivery, AnswerOk, AnswerPermanent, counts
  <2>2. \A q \in Processes : q # p => at'[q] = at[q]
    BY <1>4 DEF ReadDelivery, AnswerOk, AnswerPermanent, Rest, DeliveryTypes
  <2>3. QED BY <2>1, <2>2, QuietForNotices
<1>5. ASSUME NEW p \in Processes, HandleFailure(p) PROVE NoticeInv'
  <2>1. at[p] = "post" /\ UNCHANGED <<notices, faults>>
    BY <1>5 DEF HandleFailure
  <2>2. \A q \in Processes : q # p => at'[q] = at[q]
    BY <1>5 DEF HandleFailure, Rest, DeliveryTypes
  <2>3. disables' = disables \/ at'[p] = "disable"
    BY <1>5 DEF HandleFailure, DeliveryTypes
  <2>4. CASE disables' = disables
    BY <2>1, <2>2, <2>4, QuietForNotices
  <2>5. CASE at'[p] = "disable"
    BY <2>5 DEF NoticeInv
  <2>6. QED BY <2>3, <2>4, <2>5
<1>6. ASSUME NEW p \in Processes, DisableDelivery(p) PROVE NoticeInv'
  <2>1. at'[p] = "notify"
    BY <1>6 DEF DisableDelivery, DeliveryTypes
  <2>2. QED BY <2>1 DEF NoticeInv
<1>7. ASSUME NEW p \in Processes, NotifyDisabled(p) PROVE NoticeInv'
  BY <1>7 DEF NotifyDisabled, NoticeInv
<1>8. ASSUME NEW p \in Processes, Abort(p) PROVE NoticeInv'
  <2>1. faults' = faults + 1 /\ faults \in Nat
    BY <1>8 DEF Abort, DeliveryTypes
  <2>2. faults' # 0
    BY <2>1
  <2>3. QED BY <2>2 DEF NoticeInv
<1>9. QED BY <1>1, <1>2, <1>3, <1>4, <1>5, <1>6, <1>7, <1>8 DEF Next, Send

\* The outbox is empty at first.
LEMMA DeliveryStart == Init => DeliveryInv
<1> SUFFICES ASSUME Init PROVE DeliveryInv
  OBVIOUS
<1>1. DeliveryTypes
  BY DEF Init, DeliveryTypes, Statuses, Places
<1>2. /\ \A p \in Processes : batch[p] = {} /\ cur[p] = 0 /\ at[p] = "idle" /\ timer[p] = 0
      /\ \A d \in Deliveries : status[d] = "absent" /\ attempts[d] = 0
      /\ disables = 0
  BY DEF Init
<1>3. \A p \in Processes : Holds(p) = {}
  BY <1>2 DEF Holds
<1>4. ShapeInv
  BY <1>2, <1>3 DEF ShapeInv, Processes
<1>5. LeaseInv /\ OneSender
  BY <1>3 DEF LeaseInv, OneSender
<1>6. AttemptsInv
  BY <1>2 DEF AttemptsInv, Events, Due
<1>7. NoticeInv
  BY <1>2 DEF NoticeInv
<1>8. QED BY <1>1, <1>4, <1>5, <1>6, <1>7 DEF DeliveryInv, CoreInv

\* Every step keeps the invariant, when the lease outlasts a batch.
LEMMA DeliveryStays == ASSUME LeaseOutlasts, DeliveryInv, [Next]_vars PROVE DeliveryInv'
<1> USE DEF DeliveryInv
<1>1. CASE UNCHANGED vars
  <2>1. CoreInv'
    BY <1>1 DEF vars, CoreInv, DeliveryTypes, ShapeInv, LeaseInv, OneSender, AttemptsInv, Left, Holds, Events
  <2>2. NoticeInv'
    BY <1>1 DEF vars, NoticeInv
  <2>3. QED BY <2>1, <2>2
<1>2. CASE Next
  <2>1. CoreInv'
    BY <1>2, NewRowKeeps, UpdateKeeps, DeleteKeeps, ClaimKeeps, NextKeeps, ReadKeeps, AnswerKeeps,
       FailureKeeps, DisableKeeps, EndKeeps, PassKeeps DEF Next, Send
  <2>2. NoticeInv'
    BY <1>2, NoticeKeeps DEF CoreInv
  <2>3. QED BY <2>1, <2>2
<1>3. QED BY <1>1, <1>2

\* The lease is a lock: no two processes hold the same event.
THEOREM LeaseIsALock == ASSUME LeaseOutlasts PROVE Spec => []OneSender
<1>1. Init => DeliveryInv
  BY DeliveryStart
<1>2. DeliveryInv /\ [Next]_vars => DeliveryInv'
  BY DeliveryStays
<1>3. DeliveryInv => OneSender
  BY DEF DeliveryInv, CoreInv
<1>4. QED BY <1>1, <1>2, <1>3, PTL DEF Spec

\* The deliverer switches a webhook off only after one event has failed as often as it may, each time on
\* record.
THEOREM DisablesHaveCause == ASSUME LeaseOutlasts PROVE Spec => DisabledForCause
<1>1. Init => DeliveryInv
  BY DeliveryStart
<1>2. DeliveryInv /\ [Next]_vars => DeliveryInv'
  BY DeliveryStays
<1>3. DeliveryInv /\ [Next]_vars => [DisableHasCause]_vars
  <2> SUFFICES ASSUME DeliveryInv, Next, disables' > disables
               PROVE  \E d \in Events : attempts[d] = MaxAttempts - 1 /\ status[d] \in Due \union {"gone"}
    BY DEF DisableHasCause
  <2>1. disables \in Nat
    BY DEF DeliveryInv, CoreInv, DeliveryTypes
  <2>2. disables' # disables
    BY <2>1
  <2>3. PICK p \in Processes : HandleFailure(p)
    BY <2>2 DEF Next, Send, Notify, SendTestWebhook, UpdateWebhook, DeleteWebhook, Claim, NextOfBatch,
                ReadDelivery, AnswerOk, AnswerPermanent, DisableDelivery, NotifyDisabled, Abort, Pass, counts
  <2>4. at[p] = "post" /\ cur[p] \notin Tests /\ GivesUp(tryNo[p])
    BY <2>2, <2>3 DEF HandleFailure
  <2>5. cur[p] \in Events
    BY <2>4, AtARow DEF DeliveryInv, CoreInv, Events
  <2>6. /\ status[cur[p]] \in Due \union {"gone"} /\ tryNo[p] = attempts[cur[p]] + 1
        /\ attempts[cur[p]] < MaxAttempts /\ attempts[cur[p]] \in Nat
    BY <2>4, <2>5 DEF DeliveryInv, CoreInv, AttemptsInv, DeliveryTypes, Events
  <2>7. attempts[cur[p]] = MaxAttempts - 1
    BY <2>4, <2>6 DEF GivesUp
  <2>8. QED BY <2>5, <2>6, <2>7
<1>4. QED BY <1>1, <1>2, <1>3, PTL DEF Spec, DisabledForCause

\* A team whose webhook was switched off is told, unless a process died on the way.
THEOREM DisablesAreTold == ASSUME LeaseOutlasts PROVE Spec => []DisableIsNotified
<1>1. Init => DeliveryInv
  BY DeliveryStart
<1>2. DeliveryInv /\ [Next]_vars => DeliveryInv'
  BY DeliveryStays
<1>3. DeliveryInv => DisableIsNotified
  BY DEF DeliveryInv, NoticeInv, DisableIsNotified
<1>4. QED BY <1>1, <1>2, <1>3, PTL DEF Spec
=============================================================================
