------------------------- MODULE ScanPipelineProofs -------------------------
(***************************************************************************)
(* Theorems about ScanPipeline for every set of checks, every assignment   *)
(* of checks to children and categories, and any number of faults.         *)
(***************************************************************************)
EXTENDS ScanPipeline, FiniteSetTheorems, TLAPS

Owned(q) == {c \in Checks : Owner[c] = q}

(***************************************************************************)
(* The part of the type invariant the argument needs.                      *)
(***************************************************************************)
Types ==
    /\ job \in [Jobs -> JobStates]
    /\ todo \in [Children -> SUBSET Checks]
    /\ rows \in SUBSET Checks

(***************************************************************************)
(* A child that runs or has completed has written what is not on its list; *)
(* the parent leaves "blocked" only when all children have completed.      *)
(***************************************************************************)
FlowInv ==
    /\ \A q \in Children : job[q] = "active" => Owned(q) \ todo[q] \subseteq rows
    /\ status # "canceled" =>
          \A q \in Children : job[q] = "completed" => Owned(q) \subseteq rows
    /\ job["aggregate"] \in {"none", "blocked"}
          \/ \A q \in Children : job[q] = "completed"

(***************************************************************************)
(* What the aggregator has read is complete, and so is what it has written.*)
(***************************************************************************)
AggregateInv ==
    /\ aggregateAt # "idle" => job["aggregate"] = "active"
    /\ aggregateAt = "finish" /\ status # "canceled" => snapshot = Checks
    /\ status = "completed" => /\ findings = Checks
                               /\ progress = Total
                               /\ \A q \in Children : job[q] = "completed"

Inv == Types /\ FlowInv /\ AggregateInv

LEMMA Names == /\ "crawl" \in Jobs /\ "aggregate" \in Jobs /\ Children \subseteq Jobs
               /\ "crawl" \notin Children /\ "aggregate" \notin Children
               /\ \A c \in Checks : Owner[c] \in Children
  BY ChecksAssumption DEF Jobs, Children

LEMMA InvInit == Init => Inv
  BY Names DEF Init, Inv, Types, FlowInv, AggregateInv, JobStates, Owned

LEMMA TypesStep == Types /\ [Next]_vars => Types'
<1> SUFFICES ASSUME Types, [Next]_vars PROVE Types'
  OBVIOUS
<1> USE Names DEF Types, JobStates
<1>1. CASE Crawl
  BY <1>1 DEF Crawl, CrawlStarts, CrawlDiscovers, CrawlFansOut, CrawlEnds, FanOut
<1>2. ASSUME NEW q \in Children, Child(q) PROVE Types'
  <2>1. Complete(q) \in [Jobs -> JobStates]
    BY DEF Complete
  <2>2. QED
    BY <1>2, <2>1 DEF Child, ChildStarts, UpsertChecks, AdvanceCategoryProgress, ChildEnds, locals
<1>3. CASE Aggregator
  BY <1>3 DEF Aggregator, AggregateStarts, AggregateFinishes, AggregateNotifies
<1>4. ASSUME NEW j \in Jobs, JobFails(j) \/ WorkerDies(j) PROVE Types'
  BY <1>4 DEF JobFails, WorkerDies, Forget
<1>5. ASSUME UNCHANGED <<job, todo, rows>> PROVE Types'
  BY <1>5
<1>6. QED
  BY <1>1, <1>2, <1>3, <1>4, <1>5 DEF Next, Faults, MarkScanFailed, HandlerIsLost, CancelScan,
     Rests, vars, locals

LEMMA FlowStep == Inv /\ [Next]_vars => FlowInv'
<1> SUFFICES ASSUME Inv, [Next]_vars PROVE FlowInv'
  OBVIOUS
<1> USE Names DEF Inv, Types, FlowInv
<1>1. CASE Crawl
  <2>1. CASE CrawlFansOut
    <3>1. /\ job' = [j \in Jobs |-> FanOut(j)]
          /\ UNCHANGED <<status, todo, rows>>
      BY <2>1 DEF CrawlFansOut, scan
    <3>2. \A q \in Children : job'[q] \in {"active", "completed"} => job'[q] = job[q]
      BY <3>1 DEF FanOut
    <3>3. job'["aggregate"] \in {"none", "blocked"} \/ job'["aggregate"] = job["aggregate"]
      BY <3>1 DEF FanOut
    <3>4. \A q \in Children : job[q] = "completed" => job'[q] = "completed"
      BY <3>1 DEF FanOut
    <3>5. QED
      BY <3>1, <3>2, <3>3, <3>4
  <2>2. CASE CrawlStarts \/ CrawlDiscovers \/ CrawlEnds
    BY <2>2 DEF CrawlStarts, CrawlDiscovers, CrawlEnds, scan
  <2>3. QED
    BY <1>1, <2>1, <2>2 DEF Crawl
<1>2. ASSUME NEW q \in Children, Child(q) PROVE FlowInv'
  <2>1. /\ \A p \in Children : Complete(q)[p] = IF p = q THEN "completed" ELSE job[p]
        /\ \/ Complete(q)["aggregate"] = job["aggregate"]
           \/ \A p \in Children : Complete(q)[p] = "completed"
    BY DEF Complete
  <2>2. CASE ChildStarts(q)
    <3>1. UNCHANGED <<status, rows>>
      BY <2>2 DEF ChildStarts, scan
    <3>2. CASE status = "canceled"
      BY <2>1, <2>2, <3>1, <3>2 DEF ChildStarts
    <3>3. CASE status # "canceled"
      <4>1. /\ job' = [job EXCEPT ![q] = "active"]
            /\ todo' = [todo EXCEPT ![q] = Owned(q)]
            /\ job[q] = "waiting"
        BY <2>2, <3>3 DEF ChildStarts, Owned
      <4>2. QED
        BY <3>1, <4>1
    <3>4. QED
      BY <3>2, <3>3
  <2>3. CASE \E c \in Checks : UpsertChecks(q, c)
    BY <2>3 DEF UpsertChecks, scan
  <2>4. CASE AdvanceCategoryProgress(q)
    BY <2>4 DEF AdvanceCategoryProgress, scan
  <2>5. CASE ChildEnds(q)
    BY <2>1, <2>5 DEF ChildEnds, scan, locals
  <2>6. QED
    BY <1>2, <2>2, <2>3, <2>4, <2>5 DEF Child
<1>3. CASE Aggregator
  <2>1. CASE AggregateStarts
    BY <2>1 DEF AggregateStarts, scan
  <2>2. CASE AggregateFinishes
    <3>1. /\ \A q \in Children : job'[q] = job[q]
          /\ status' = "canceled" <=> status = "canceled"
          /\ UNCHANGED <<todo, rows>>
      BY <2>2 DEF AggregateFinishes, FinishScan, scan
    <3>2. \A q \in Children : job[q] = "completed"
      BY <2>2 DEF AggregateFinishes, AggregateInv
    <3>3. QED
      BY <3>1, <3>2
  <2>3. CASE AggregateNotifies
    BY <2>3 DEF AggregateNotifies, scan, AggregateInv
  <2>4. QED
    BY <1>3, <2>1, <2>2, <2>3 DEF Aggregator
<1>4. ASSUME NEW j \in Jobs, JobFails(j) \/ WorkerDies(j) PROVE FlowInv'
  <2>1. /\ job[j] = "active"
        /\ job'[j] \in {"failed", "waiting"}
        /\ \A i \in Jobs : i # j => job'[i] = job[i]
        /\ \A q \in Children : q # j => todo'[q] = todo[q]
        /\ UNCHANGED <<status, rows>>
    BY <1>4 DEF JobFails, WorkerDies, Forget, scan
  <2>2. QED
    BY <2>1
<1>5. ASSUME NEW j \in Jobs, MarkScanFailed(j) PROVE FlowInv'
  BY <1>5 DEF MarkScanFailed, FinishScan, locals, scan
<1>6. CASE CancelScan
  BY <1>6 DEF CancelScan, locals
<1>7. ASSUME UNCHANGED <<status, job, todo, rows>> PROVE FlowInv'
  BY <1>7
<1>8. QED
  BY <1>1, <1>2, <1>3, <1>4, <1>5, <1>6, <1>7 DEF Next, Faults, HandlerIsLost, Rests, vars,
     locals, scan

(***************************************************************************)
(* Once the parent has been started every check has its row.               *)
(***************************************************************************)
LEMMA AllRows == ASSUME Types, FlowInv, status # "canceled",
                        job["aggregate"] \notin {"none", "blocked"}
                 PROVE  rows = Checks
<1>1. \A c \in Checks : c \in Owned(Owner[c]) /\ Owner[c] \in Children
  BY Names DEF Owned
<1>2. QED
  BY <1>1 DEF Types, FlowInv

LEMMA AggregateStep == Inv /\ [Next]_vars => AggregateInv'
<1> SUFFICES ASSUME Inv, [Next]_vars PROVE AggregateInv'
  OBVIOUS
<1> USE Names DEF AggregateInv
<1>1. CASE Crawl
  <2>1. CASE CrawlFansOut
    <3>1. /\ job' = [j \in Jobs |-> FanOut(j)]
          /\ UNCHANGED <<status, findings, progress, aggregateAt, snapshot>>
      BY <2>1 DEF CrawlFansOut, scan
    <3>2. \A j \in Jobs : job[j] # "none" => job'[j] = job[j]
      BY <3>1 DEF FanOut
    <3>3. QED
      BY <3>1, <3>2 DEF Inv
  <2>2. CASE CrawlStarts \/ CrawlDiscovers \/ CrawlEnds
    BY <2>2 DEF CrawlStarts, CrawlDiscovers, CrawlEnds, scan, Inv, Types
  <2>3. QED
    BY <1>1, <2>1, <2>2 DEF Crawl
<1>2. ASSUME NEW q \in Children, Child(q) PROVE AggregateInv'
  <2>1. /\ job[q] # "completed"
        /\ UNCHANGED <<status, findings, aggregateAt, snapshot>>
    BY <1>2 DEF Child, ChildStarts, UpsertChecks, AdvanceCategoryProgress, ChildEnds, scan, locals
  <2>2. job["aggregate"] = "active" => job'["aggregate"] = "active"
    BY <1>2 DEF Child, ChildStarts, UpsertChecks, AdvanceCategoryProgress, ChildEnds, Complete,
       scan, locals, Inv, Types
  <2>3. QED
    BY <2>1, <2>2 DEF Inv
<1>3. CASE AggregateStarts
  <2>1. /\ job["aggregate"] = "waiting"
        /\ job' = [job EXCEPT !["aggregate"] = "active"]
        /\ snapshot' = rows
        /\ aggregateAt' = "finish"
        /\ UNCHANGED <<status, findings, progress>>
    BY <1>3 DEF AggregateStarts, scan
  <2>2. status # "canceled" => rows = Checks
    BY <2>1, AllRows DEF Inv
  <2>3. QED
    BY <2>1, <2>2 DEF Inv, Types
<1>4. CASE AggregateFinishes
  <2>1. job["aggregate"] = "active"
    BY <1>4 DEF AggregateFinishes, Inv
  <2>2. \A q \in Children : job[q] = "completed" /\ job'[q] = job[q]
    BY <1>4, <2>1 DEF AggregateFinishes, Inv, Types, FlowInv
  <2>3. CASE status = "canceled"
    BY <1>4, <2>3 DEF AggregateFinishes, FinishScan, scan
  <2>4. CASE status # "canceled"
    <3>1. /\ status' = "completed" /\ findings' = Checks /\ progress' = Total
          /\ aggregateAt' = "notify" /\ job' = job
      BY <1>4, <2>4 DEF AggregateFinishes, FinishScan, Inv
    <3>2. QED
      BY <2>1, <2>2, <3>1
  <2>5. QED
    BY <2>3, <2>4
<1>5. CASE AggregateNotifies
  BY <1>5 DEF AggregateNotifies, scan, Inv, Types
<1>6. ASSUME NEW j \in Jobs, JobFails(j) \/ WorkerDies(j) PROVE AggregateInv'
  <2>1. /\ job[j] = "active"
        /\ \A i \in Jobs : i # j => job'[i] = job[i]
        /\ aggregateAt' = IF j = "aggregate" THEN "idle" ELSE aggregateAt
        /\ UNCHANGED <<status, findings, progress, snapshot>>
    BY <1>6 DEF JobFails, WorkerDies, Forget, scan, Inv, Types
  <2>2. QED
    BY <2>1 DEF Inv
<1>7. ASSUME NEW j \in Jobs, MarkScanFailed(j) PROVE AggregateInv'
  BY <1>7 DEF MarkScanFailed, FinishScan, locals, scan, Inv
<1>8. CASE CancelScan
  BY <1>8 DEF CancelScan, locals, Inv
<1>9. ASSUME UNCHANGED <<status, findings, job, progress, aggregateAt, snapshot>>
      PROVE  AggregateInv'
  BY <1>9 DEF Inv
<1>10. QED
  BY <1>1, <1>2, <1>3, <1>4, <1>5, <1>6, <1>7, <1>8, <1>9 DEF Next, Aggregator, Faults,
     HandlerIsLost, Rests, vars, locals, scan

-----------------------------------------------------------------------------
(* The counters.                                                           *)

OfCategory(k) == {c \in Checks : Category[c] = k}

\* The units d counts, one by one: <<k, i>> is the i-th of category k.
Counted(d) == UNION {{k} \X (1..d[k]) : k \in Categories}

(***************************************************************************)
(* The totals of the categories partition the checks, so counters within   *)
(* their totals count no more than there are checks.                       *)
(***************************************************************************)
LEMMA WithinTotal ==
  ASSUME NEW d \in [Categories -> Nat], \A k \in Categories : d[k] <= TotalOf(k)
  PROVE  /\ IsFiniteSet(Counted(d))
         /\ Cardinality(Counted(d)) <= Total
         /\ Cardinality(Counted(d)) \in Nat
<1>1. \A k \in Categories : IsFiniteSet(OfCategory(k))
  BY ChecksAssumption, FS_Subset DEF OfCategory
<1>2. \A k \in Categories : Bijection(1..TotalOf(k), OfCategory(k)) # {}
  BY <1>1, FS_CardinalityType DEF ExistsBijection, TotalOf, OfCategory
<1>3. \A k \in Categories : TotalOf(k) \in Nat
  BY <1>1, FS_CardinalityType DEF TotalOf, OfCategory
<1> DEFINE nth == [k \in Categories |-> CHOOSE f \in Bijection(1..TotalOf(k), OfCategory(k)) : TRUE]
           f   == [x \in Counted(d) |-> nth[x[1]][x[2]]]
<1>4. \A k \in Categories : nth[k] \in Bijection(1..TotalOf(k), OfCategory(k))
  BY <1>2
<1> HIDE DEF nth
<1>5. ASSUME NEW k \in Categories
      PROVE  /\ nth[k] \in [1..TotalOf(k) -> OfCategory(k)]
             /\ \A i, j \in 1..TotalOf(k) : nth[k][i] = nth[k][j] => i = j
  <2>1. nth[k] \in Injection(1..TotalOf(k), OfCategory(k))
    BY <1>4 DEF Bijection
  <2>2. nth[k] \in [1..TotalOf(k) -> OfCategory(k)] /\ IsInjective(nth[k])
    BY <2>1 DEF Injection
  <2>3. QED
    BY <2>2 DEF IsInjective
<1>6. ASSUME NEW x \in Counted(d)
      PROVE  /\ x = <<x[1], x[2]>>
             /\ x[1] \in Categories
             /\ x[2] \in 1..TotalOf(x[1])
  <2>1. PICK k \in Categories : x \in {k} \X (1..d[k])
    BY DEF Counted
  <2>2. x = <<x[1], x[2]>> /\ x[1] = k /\ x[2] \in 1..d[k]
    BY <2>1
  <2>3. 1..d[k] \subseteq 1..TotalOf(k)
    BY <1>3
  <2>4. QED
    BY <2>2, <2>3
<1>7. ASSUME NEW x \in Counted(d)
      PROVE  f[x] \in Checks /\ Category[f[x]] = x[1]
  <2>1. nth[x[1]][x[2]] \in OfCategory(x[1])
    BY <1>5, <1>6
  <2>2. QED
    BY <2>1 DEF OfCategory
<1>8. ASSUME NEW x \in Counted(d), NEW y \in Counted(d), f[x] = f[y] PROVE x = y
  <2>1. x[1] = y[1]
    BY <1>7, <1>8
  <2>2. nth[x[1]][x[2]] = nth[x[1]][y[2]]
    BY <1>8, <2>1
  <2>3. x[2] = y[2]
    BY <1>5, <1>6, <2>1, <2>2
  <2>4. QED
    BY <1>6, <2>1, <2>3
<1>9. f \in Injection(Counted(d), Checks)
  <2>1. f \in [Counted(d) -> Checks]
    BY <1>7
  <2>2. QED
    BY <1>8, <2>1 DEF Injection, IsInjective
<1> HIDE DEF f
<1>10. QED
  BY <1>9, ChecksAssumption, FS_Injection, FS_CardinalityType DEF Total

(***************************************************************************)
(* One step of category k counts one unit that was not counted.            *)
(***************************************************************************)
LEMMA OneMore ==
  ASSUME NEW d \in [Categories -> Nat], NEW k \in Categories
  PROVE  /\ Counted([d EXCEPT ![k] = @ + 1]) = Counted(d) \union {<<k, d[k] + 1>>}
         /\ <<k, d[k] + 1>> \notin Counted(d)
<1> DEFINE e == [d EXCEPT ![k] = @ + 1]
<1>1. \A j \in Categories : e[j] = IF j = k THEN d[k] + 1 ELSE d[j]
  OBVIOUS
<1>2. \A x : x \in Counted(d) <=>
         \E j \in Categories, i \in Nat : x = <<j, i>> /\ 1 <= i /\ i <= d[j]
  BY DEF Counted
<1>3. \A x : x \in Counted(e) <=>
         \E j \in Categories, i \in Nat : x = <<j, i>> /\ 1 <= i /\ i <= e[j]
  BY DEF Counted
<1> HIDE DEF e
<1>4. <<k, d[k] + 1>> \notin Counted(d)
  BY <1>2
<1>5. ASSUME NEW x \in Counted(e) PROVE x \in Counted(d) \union {<<k, d[k] + 1>>}
  <2>1. PICK j \in Categories, i \in Nat : x = <<j, i>> /\ 1 <= i /\ i <= e[j]
    BY <1>3
  <2>2. i <= d[j] \/ (j = k /\ i = d[k] + 1)
    BY <1>1, <2>1
  <2>3. QED
    BY <1>2, <2>1, <2>2
<1>6. ASSUME NEW x \in Counted(d) \union {<<k, d[k] + 1>>} PROVE x \in Counted(e)
  <2>1. CASE x = <<k, d[k] + 1>>
    BY <1>1, <1>3, <2>1
  <2>2. CASE x \in Counted(d)
    <3>1. PICK j \in Categories, i \in Nat : x = <<j, i>> /\ 1 <= i /\ i <= d[j]
      BY <1>2, <2>2
    <3>2. i <= e[j]
      BY <1>1, <3>1
    <3>3. QED
      BY <1>3, <3>1, <3>2
  <2>3. QED
    BY <2>1, <2>2
<1>7. QED
  BY <1>4, <1>5, <1>6 DEF e

(***************************************************************************)
(* The counters add up, and the bar of a scan that has no end yet shows    *)
(* the overall counter.                                                    *)
(***************************************************************************)
CountInv ==
    /\ pending \in [Children -> Checks \union {NoCheck}]
    /\ done \in [Categories -> Nat]
    /\ CountersAddUp

BarInv ==
    /\ status \in {"running", "completed", "failed", "canceled"}
    /\ progress \in 0..Total
    /\ status \in {"running", "canceled"} => progress = checksDone

LEMMA Naturals == /\ Total \in Nat /\ Total > 0
                  /\ \A k \in Categories : TotalOf(k) \in Nat
                  /\ \A c \in Checks : Category[c] \in Categories
<1>1. Total \in Nat /\ Total # 0
  BY ChecksAssumption, FS_CardinalityType, FS_EmptySet DEF Total
<1>2. \A k \in Categories : IsFiniteSet({c \in Checks : Category[c] = k})
  BY ChecksAssumption, FS_Subset
<1>3. \A k \in Categories : TotalOf(k) \in Nat
  BY <1>2, FS_CardinalityType DEF TotalOf
<1>4. QED
  BY <1>1, <1>3 DEF Categories

LEMMA CountInit == Init => CountInv /\ BarInv
<1> SUFFICES ASSUME Init PROVE CountInv /\ BarInv
  OBVIOUS
<1>1. \A k \in Categories : 1..done[k] = {}
  BY DEF Init
<1>2. UNION {{k} \X (1..done[k]) : k \in Categories} = {}
  BY <1>1
<1>3. QED
  BY <1>2, Naturals, FS_EmptySet DEF Init, CountInv, BarInv, CountersAddUp

(***************************************************************************)
(* advanceProgressDetails: the cap of the overall counter never bites.     *)
(***************************************************************************)
LEMMA AdvanceCounts ==
  ASSUME CountInv, NEW k \in Categories, AdvanceDetails(k)
  PROVE  /\ done' \in [Categories -> Nat]
         /\ CountersAddUp'
         /\ \/ UNCHANGED <<checksDone, progress>>
            \/ progress' = checksDone' /\ checksDone' = checksDone + 1
<1> USE Naturals DEF CountInv
<1>1. CASE done[k] < TotalOf(k)
  <2>1. done' = [done EXCEPT ![k] = @ + 1]
    BY <1>1 DEF AdvanceDetails
  <2>2. done' \in [Categories -> Nat] /\ \A j \in Categories : done'[j] <= TotalOf(j)
    BY <1>1, <2>1 DEF CountersAddUp
  <2>3. /\ IsFiniteSet(Counted(done))
        /\ checksDone = Cardinality(Counted(done)) /\ checksDone \in Nat
    BY WithinTotal DEF CountersAddUp, Counted
  <2>4. Cardinality(Counted(done')) = checksDone + 1
    <3>1. PICK d \in [Categories -> Nat] : d = done
      OBVIOUS
    <3>2. PICK C : C = Counted(d)
      OBVIOUS
    <3>3. /\ Counted([d EXCEPT ![k] = @ + 1]) = C \union {<<k, d[k] + 1>>}
          /\ <<k, d[k] + 1>> \notin C
      BY <3>2, OneMore
    <3>4. Cardinality(C \union {<<k, d[k] + 1>>}) = Cardinality(C) + 1
      BY <2>3, <3>1, <3>2, <3>3, FS_AddElement
    <3>5. Counted(done') = C \union {<<k, d[k] + 1>>}
      BY <2>1, <3>1, <3>3
    <3>6. QED
      BY <2>3, <3>1, <3>2, <3>4, <3>5
  <2>5. Cardinality(Counted(done')) <= Total
    BY <2>2, WithinTotal
  <2>6. checksDone' = checksDone + 1 /\ progress' = checksDone'
    BY <1>1, <2>3, <2>4, <2>5 DEF AdvanceDetails
  <2>7. CountersAddUp'
    BY <2>2, <2>4, <2>6 DEF CountersAddUp, Counted, TotalOf
  <2>8. QED
    BY <2>2, <2>6, <2>7
<1>2. CASE ~ (done[k] < TotalOf(k))
  BY <1>2 DEF AdvanceDetails, details, CountersAddUp, TotalOf
<1>3. QED
  BY <1>1, <1>2

(***************************************************************************)
(* Steps that leave the counters alone, and those of the children.         *)
(***************************************************************************)
LEMMA SameCounters ==
  ASSUME CountInv, UNCHANGED <<done, checksDone>>
  PROVE  CountersAddUp'
BY DEF CountInv, CountersAddUp, TotalOf

LEMMA AdvanceStep ==
  ASSUME Inv, CountInv, BarInv, NEW q \in Children, AdvanceCategoryProgress(q)
  PROVE  CountInv' /\ BarInv' /\ NeverGoBack
<1> USE Naturals, Names
<1>1. pending[q] \in Checks
  BY DEF AdvanceCategoryProgress, CountInv
<1>2. PICK k \in Categories : AdvanceDetails(k)
  BY <1>1 DEF AdvanceCategoryProgress
<1>3. /\ pending' = [pending EXCEPT ![q] = NoCheck]
      /\ status' = status
      /\ job[q] = "active"
  BY DEF AdvanceCategoryProgress, scan
<1>4. status # "completed"
  BY <1>3 DEF Inv, AggregateInv
<1>5. CountInv'
  BY <1>2, <1>3, AdvanceCounts DEF CountInv
<1>6. checksDone' \in 0..Total /\ checksDone \in Nat
  BY <1>5, WithinTotal DEF CountInv, CountersAddUp, Counted, TotalOf
<1>7. BarInv' /\ NeverGoBack
  BY <1>2, <1>3, <1>4, <1>6, AdvanceCounts DEF BarInv, NeverGoBack
<1>8. QED
  BY <1>5, <1>7

LEMMA CountStep == Inv /\ CountInv /\ BarInv /\ [Next]_vars => CountInv' /\ BarInv' /\ NeverGoBack
<1> SUFFICES ASSUME Inv, CountInv, BarInv, [Next]_vars
             PROVE  CountInv' /\ BarInv' /\ NeverGoBack
  OBVIOUS
<1> USE Naturals, Names
<1>1. checksDone \in 0..Total
  BY WithinTotal DEF CountInv, CountersAddUp, Counted
<1>2. ASSUME UNCHANGED <<details, pending, status, progress>>
      PROVE  CountInv' /\ BarInv' /\ NeverGoBack
  BY <1>2, SameCounters DEF details, CountInv, BarInv, NeverGoBack
<1>3. ASSUME NEW outcome \in {"completed", "failed"}, NEW payload, FinishScan(outcome, payload),
             UNCHANGED <<details, pending>>
      PROVE  CountInv' /\ BarInv' /\ NeverGoBack
  BY <1>3, SameCounters DEF FinishScan, scan, details, CountInv, BarInv, NeverGoBack
<1>4. ASSUME Crawl PROVE CountInv' /\ BarInv' /\ NeverGoBack
  BY <1>2, <1>4 DEF Crawl, CrawlStarts, CrawlDiscovers, CrawlFansOut, CrawlEnds, scan
<1>5. ASSUME NEW q \in Children, Child(q) PROVE CountInv' /\ BarInv' /\ NeverGoBack
  <2>1. CASE ChildStarts(q) \/ ChildEnds(q)
    BY <1>2, <2>1 DEF ChildStarts, ChildEnds, scan, locals
  <2>2. ASSUME NEW c \in Checks, UpsertChecks(q, c) PROVE CountInv' /\ BarInv' /\ NeverGoBack
    <3>1. /\ UNCHANGED <<details, status, progress>>
          /\ pending' = [pending EXCEPT ![q] = c]
      BY <2>2 DEF UpsertChecks, scan
    <3>2. QED
      BY <3>1, SameCounters DEF details, CountInv, BarInv, NeverGoBack
  <2>3. CASE AdvanceCategoryProgress(q)
    BY <2>3, AdvanceStep
  <2>4. QED
    BY <1>5, <2>1, <2>2, <2>3 DEF Child
<1>6. ASSUME Aggregator PROVE CountInv' /\ BarInv' /\ NeverGoBack
  <2>1. CASE AggregateStarts \/ AggregateNotifies
    BY <1>2, <2>1 DEF AggregateStarts, AggregateNotifies, scan
  <2>2. CASE AggregateFinishes
    BY <1>3, <2>2 DEF AggregateFinishes
  <2>3. QED
    BY <1>6, <2>1, <2>2 DEF Aggregator
<1>7. ASSUME NEW j \in Jobs, MarkScanFailed(j) PROVE CountInv' /\ BarInv' /\ NeverGoBack
  BY <1>3, <1>7 DEF MarkScanFailed, locals
<1>8. ASSUME CancelScan PROVE CountInv' /\ BarInv' /\ NeverGoBack
  BY <1>8, SameCounters DEF CancelScan, locals, details, CountInv, BarInv, NeverGoBack
<1>9. ASSUME NEW j \in Jobs, JobFails(j) \/ WorkerDies(j)
      PROVE  CountInv' /\ BarInv' /\ NeverGoBack
  <2>1. /\ UNCHANGED <<details, status, progress>>
        /\ pending' = [q \in Children |-> IF q = j THEN NoCheck ELSE pending[q]]
    BY <1>9 DEF JobFails, WorkerDies, Forget, scan
  <2>2. QED
    BY <2>1, SameCounters DEF details, CountInv, BarInv, NeverGoBack
<1>10. ASSUME NEW j \in Jobs, HandlerIsLost(j) PROVE CountInv' /\ BarInv' /\ NeverGoBack
  BY <1>2, <1>10 DEF HandlerIsLost, scan, locals
<1>11. ASSUME UNCHANGED vars PROVE CountInv' /\ BarInv' /\ NeverGoBack
  BY <1>2, <1>11 DEF vars, details
<1>12. QED
  BY <1>4, <1>5, <1>6, <1>7, <1>8, <1>9, <1>10, <1>11 DEF Next, Faults, Rests

(***************************************************************************)
(* The variables of which the arguments above need no more than the type.  *)
(***************************************************************************)
OtherTypes ==
    /\ crawlAt \in {"idle", "discover", "fanout", "end"}
    /\ aggregateAt \in {"idle", "finish", "notify"}
    /\ snapshot \in SUBSET Checks
    /\ findings \in SUBSET (Checks \union {"error"})
    /\ handlers \in SUBSET Jobs
    /\ faults \in 0..MaxFaults

LEMMA OtherTypesStep == Types /\ OtherTypes /\ [Next]_vars => OtherTypes'
<1> SUFFICES ASSUME Types, OtherTypes, [Next]_vars PROVE OtherTypes'
  OBVIOUS
<1> USE Names, ChecksAssumption DEF OtherTypes, Types
<1>1. ASSUME Crawl PROVE OtherTypes'
  BY <1>1 DEF Crawl, CrawlStarts, CrawlDiscovers, CrawlFansOut, CrawlEnds, scan
<1>2. ASSUME NEW q \in Children, Child(q) PROVE OtherTypes'
  BY <1>2 DEF Child, ChildStarts, UpsertChecks, AdvanceCategoryProgress, ChildEnds, scan, locals
<1>3. ASSUME Aggregator PROVE OtherTypes'
  BY <1>3 DEF Aggregator, AggregateStarts, AggregateFinishes, AggregateNotifies, FinishScan, scan
<1>4. ASSUME NEW j \in Jobs, MarkScanFailed(j) \/ HandlerIsLost(j) PROVE OtherTypes'
  BY <1>4 DEF MarkScanFailed, HandlerIsLost, FinishScan, Fault, scan, locals
<1>5. ASSUME NEW j \in Jobs, JobFails(j) \/ WorkerDies(j) PROVE OtherTypes'
  BY <1>5 DEF JobFails, WorkerDies, Forget, Fault, scan
<1>6. ASSUME CancelScan PROVE OtherTypes'
  BY <1>6 DEF CancelScan, locals
<1>7. ASSUME UNCHANGED vars PROVE OtherTypes'
  BY <1>7 DEF vars
<1>8. QED
  BY <1>1, <1>2, <1>3, <1>4, <1>5, <1>6, <1>7 DEF Next, Faults, Rests

LEMMA Invariance == Spec => [](Inv /\ CountInv /\ BarInv /\ OtherTypes)
<1>1. Init => OtherTypes
  BY ChecksAssumption DEF Init, OtherTypes
<1>2. Inv /\ [Next]_vars => Inv'
  BY TypesStep, FlowStep, AggregateStep DEF Inv
<1>3. Inv /\ OtherTypes /\ [Next]_vars => OtherTypes'
  BY OtherTypesStep DEF Inv
<1>4. QED
  BY InvInit, CountInit, CountStep, <1>1, <1>2, <1>3, PTL DEF Spec

(***************************************************************************)
(* Every variable keeps its type (the columns of scans and checks, and     *)
(* the states BullMQ gives a job).                                         *)
(***************************************************************************)
THEOREM PipelineTypes == Spec => []TypeOK
<1>1. Inv /\ CountInv /\ BarInv /\ OtherTypes => TypeOK
  <2> SUFFICES ASSUME Inv, CountInv, BarInv, OtherTypes PROVE TypeOK
    OBVIOUS
  <2>1. checksDone \in 0..Total
    BY Naturals, WithinTotal DEF CountInv, CountersAddUp, Counted
  <2>2. \A k \in Categories : TotalOf(k) <= Total
    BY ChecksAssumption, FS_Subset DEF TotalOf, Total
  <2>3. done \in [Categories -> 0..Total]
    BY <2>2, Naturals DEF CountInv, CountersAddUp
  <2>4. QED
    BY <2>1, <2>3 DEF TypeOK, Inv, Types, CountInv, BarInv, OtherTypes
<1>2. QED
  BY Invariance, <1>1, PTL

(***************************************************************************)
(* However often workers die and children run again, each category stays   *)
(* within its total and the categories add up to the overall counter       *)
(* (advanceProgressDetails of progress.ts).                                *)
(***************************************************************************)
THEOREM CountersAlwaysAddUp == Spec => []CountersAddUp
<1>1. CountInv => CountersAddUp
  BY DEF CountInv
<1>2. QED
  BY Invariance, <1>1, PTL

(***************************************************************************)
(* No step takes the bar back while the scan runs, is canceled or has      *)
(* completed (progress.ts against finish-scan.ts).                         *)
(***************************************************************************)
THEOREM BarOnlyGrows == Spec => ProgressNeverGoesBack
<1>1. Inv /\ CountInv /\ BarInv /\ [Next]_vars => [NeverGoBack]_vars
  BY CountStep
<1>2. QED
  BY Invariance, <1>1, PTL DEF Spec, ProgressNeverGoesBack

(***************************************************************************)
(* The payload of a completed scan holds the findings of all its checks    *)
(* (crawl.ts fan-out, aggregate.ts, finish-scan.ts).                       *)
(***************************************************************************)
THEOREM CompleteResults == Spec => []ResultIsComplete
<1>1. Inv => ResultIsComplete
  BY DEF Inv, AggregateInv, ResultIsComplete
<1>2. QED
  BY Invariance, <1>1, PTL

(***************************************************************************)
(* No child is left that could move the bar of a completed scan            *)
(* (finish-scan.ts against progress.ts).                                   *)
(***************************************************************************)
THEOREM CompletedFull == Spec => []CompletedShowsFull
<1>1. Inv => CompletedShowsFull
  BY DEF Inv, AggregateInv, CompletedShowsFull
<1>2. QED
  BY Invariance, <1>1, PTL

(***************************************************************************)
(* No job and no late handler writes over a canceled scan                  *)
(* (race guard of finish-scan.ts).                                         *)
(***************************************************************************)
THEOREM CanceledForever == Spec => CanceledStaysCanceled
<1>1. ASSUME [Next]_vars, status = "canceled" PROVE UNCHANGED scan
  <2>1. ASSUME Crawl PROVE UNCHANGED scan
    BY <2>1 DEF Crawl, CrawlStarts, CrawlDiscovers, CrawlFansOut, CrawlEnds
  <2>2. ASSUME NEW q \in Children, Child(q) PROVE UNCHANGED scan
    BY <2>2 DEF Child, ChildStarts, UpsertChecks, AdvanceCategoryProgress, ChildEnds
  <2>3. ASSUME Aggregator PROVE UNCHANGED scan
    BY <1>1, <2>3 DEF Aggregator, AggregateStarts, AggregateFinishes, AggregateNotifies, FinishScan
  <2>4. ASSUME NEW j \in Jobs, JobFails(j) \/ HandlerIsLost(j) \/ WorkerDies(j) \/ MarkScanFailed(j)
        PROVE  UNCHANGED scan
    BY <1>1, <2>4 DEF JobFails, HandlerIsLost, WorkerDies, MarkScanFailed, FinishScan
  <2>5. ASSUME UNCHANGED vars PROVE UNCHANGED scan
    BY <2>5 DEF vars, scan
  <2>6. QED
    BY <1>1, <2>1, <2>2, <2>3, <2>4, <2>5 DEF Next, Faults, CancelScan, Rests
<1>2. [Next]_vars => [StayCanceled]_vars
  BY <1>1 DEF StayCanceled, scan
<1>3. QED
  BY <1>2, PTL DEF Spec, CanceledStaysCanceled
=============================================================================
