--------------------------- MODULE FailoverProofs ---------------------------
(***************************************************************************)
(* Proofs about Failover for every number of nodes, policies and requests, *)
(* every threshold and every bound on outages and faults.                  *)
(***************************************************************************)
EXTENDS Failover, FiniteSetTheorems, WellFoundedInduction, TLAPS

-----------------------------------------------------------------------------
(***************************************************************************)
(* Facts about the operators on bindings.                                  *)
(***************************************************************************)

\* The assumptions on the constants, one by one.
LEMMA Constants ==
    /\ NumNodes \in Nat /\ NumNodes > 1 /\ NumPolicies \in Nat
    /\ SuspectAfter \in Nat /\ OfflineAfter \in Nat /\ FailureThreshold \in Nat
    /\ MaxOutages \in Nat /\ MaxFaults \in Nat /\ MaxRequests \in Nat
    /\ MaxReleases \in Nat /\ MaxReleases > 0 /\ Priorities \subseteq Nat
    /\ MissedCap \in Nat
  BY FailoverAssumption DEF MissedCap

\* A set of numbers that is not empty has a least element.
LEMMA LeastNumber ==
    ASSUME NEW S \in SUBSET Nat, S # {}
    PROVE  \E x \in S : \A y \in S : x <= y
  <1>1. PICK x \in S : \A y \in S : ~ (<<y, x>> \in OpToRel(<, Nat))
    BY WFMin, NatLessThanWellFounded
  <1>2. \A y \in S : ~ (y < x)
    BY <1>1 DEF OpToRel
  <1>3. QED  BY <1>2

\* The nodes are finitely many.
LEMMA NodesFinite ==
    ASSUME NEW S \in SUBSET Nodes
    PROVE  IsFiniteSet(S) /\ Cardinality(S) \in Nat
  <1>1. IsFiniteSet(Nodes)
    BY Constants, FS_Interval DEF Nodes
  <1>2. QED  BY <1>1, FS_Subset, FS_CardinalityType

\* A binding has a priority and, unless its node is not bound, a role.
LEMMA BindingFields ==
    ASSUME NEW b \in Bindings, NEW n \in Nodes
    PROVE  /\ b[n].priority \in Nat
           /\ b[n].role \in {"primary", "standby", "none"}
           /\ b[n] # Unbound => b[n] \in [role: {"primary", "standby"}, priority: Nat]
  <1>1. b[n] \in Binding
    BY DEF Bindings
  <1>2. CASE b[n] = Unbound
    BY <1>2 DEF Unbound
  <1>3. CASE b[n] \in [role: {"primary", "standby"}, priority: Nat]
    BY <1>3
  <1>4. QED  BY <1>1, <1>2, <1>3 DEF Binding

\* Of some nodes one is listed first.
LEMMA FirstExists ==
    ASSUME NEW b \in Bindings, NEW S \in SUBSET Nodes, S # {}
    PROVE  First(b, S) # {}
  <1> DEFINE P == {b[n].priority : n \in S}
  <1>1. P \in SUBSET Nat /\ P # {}
    BY BindingFields
  <1>2. PICK x \in P : \A y \in P : x <= y
    <2> HIDE DEF P
    <2>1. QED  BY <1>1, LeastNumber
  <1> DEFINE T == {n \in S : b[n].priority = x}
  <1>3. T \in SUBSET Nat /\ T # {}
    <2>1. Nodes \subseteq Nat
      BY Constants DEF Nodes
    <2>2. \E n \in S : b[n].priority = x
      BY <1>2
    <2>3. QED  BY <2>1, <2>2
  <1>4. PICK n \in T : \A m \in T : n <= m
    <2> HIDE DEF T
    <2>1. QED  BY <1>3, LeastNumber
  <1>5. ASSUME NEW m \in S  PROVE Before(b, n, m)
    <2>1. /\ b[m].priority \in Nat /\ b[n].priority \in Nat
          /\ b[n].priority <= b[m].priority /\ b[n].priority = x
      BY <1>2, <1>4, BindingFields
    <2>2. CASE b[m].priority = x
      BY <1>4, <2>1, <2>2 DEF Before
    <2>3. CASE b[m].priority # x
      BY <2>1, <2>3 DEF Before
    <2>4. QED  BY <2>2, <2>3
  <1>6. QED  BY <1>5 DEF First

\* A node is first among itself.
LEMMA FirstOfOne ==
    ASSUME NEW b \in Bindings, NEW n \in Nodes
    PROVE  First(b, {n}) = {n}
  BY BindingFields, Constants DEF First, Before, Nodes

\* build_switched_bindings makes the standby a primary and the node it takes
\* over from a standby, and changes nobody else.
LEMMA Switched ==
    ASSUME NEW b \in Bindings, NEW p \in Nodes, NEW s \in Nodes, p # s
    PROVE  /\ SwitchedBindings(b, p, s) \in Bindings
           /\ Primaries(SwitchedBindings(b, p, s)) = (Primaries(b) \ {p}) \cup {s}
           /\ p \in Standbys(SwitchedBindings(b, p, s))
  <1> DEFINE top  == IF p \in Primaries(b) THEN b[p].priority
                     ELSE IF Primaries(b) = {} THEN 10
                     ELSE CHOOSE x \in {b[n].priority : n \in Primaries(b)} :
                             \A n \in Primaries(b) : x <= b[n].priority
             prev == IF s \in Bound(b) THEN b[s].priority ELSE top + 10
             new  == [b EXCEPT ![s] = [role |-> "primary", priority |-> top],
                               ![p] = [role |-> "standby",
                                       priority |-> Larger(prev, top + 10)]]
  <1>1. top \in Nat
    <2>1. CASE p \in Primaries(b)
      BY <2>1, BindingFields
    <2>2. CASE p \notin Primaries(b) /\ Primaries(b) = {}
      BY <2>2
    <2>3. CASE p \notin Primaries(b) /\ Primaries(b) # {}
      <3> DEFINE P == {b[n].priority : n \in Primaries(b)}
      <3>1. P \in SUBSET Nat /\ P # {}
        BY <2>3, BindingFields DEF Primaries
      <3>2. \E x \in P : \A y \in P : x <= y
        <4> HIDE DEF P
        <4>1. QED  BY <3>1, LeastNumber
      <3>3. \E x \in P : \A n \in Primaries(b) : x <= b[n].priority
        BY <3>2
      <3>4. top \in P
        BY <2>3, <3>3
      <3>5. QED  BY <3>1, <3>4
    <2>4. QED  BY <2>1, <2>2, <2>3
  <1>2. Larger(prev, top + 10) \in Nat
    <2> HIDE DEF top
    <2>1. prev \in Nat
      BY <1>1, BindingFields
    <2>2. QED  BY <1>1, <2>1 DEF Larger
  <1>3. SwitchedBindings(b, p, s) = new
    BY DEF SwitchedBindings
  <1> HIDE DEF top, prev
  <1>4. new \in Bindings
    BY <1>1, <1>2 DEF Bindings, Binding
  <1>5. /\ new[s].role = "primary" /\ new[p].role = "standby"
        /\ \A n \in Nodes \ {p, s} : new[n] = b[n]
    BY DEF Bindings
  <1> HIDE DEF new
  <1>6. QED  BY <1>3, <1>4, <1>5 DEF Primaries, Standbys

\* select_next_policy_standby never picks the new primary, and finds a standby
\* if there is another.
LEMMA NextStandbyFound ==
    ASSUME NEW b \in Bindings, NEW online \in SUBSET Nodes, NEW s \in Nodes
    PROVE  /\ NextStandby(b, online, s) \in SUBSET (Nodes \ {s})
           /\ Standbys(b) \ {s} # {} => NextStandby(b, online, s) # {}
  <1> DEFINE others == Standbys(b) \ {s}
             best   == IF others \cap online = {} THEN others ELSE others \cap online
  <1>1. best \in SUBSET (Nodes \ {s}) /\ (others # {} => best # {})
    BY DEF Standbys
  <1>2. NextStandby(b, online, s) = First(b, best)
    BY DEF NextStandby
  <1> HIDE DEF others, best
  <1>3. First(b, best) \subseteq best
    BY DEF First
  <1>4. best \in SUBSET Nodes
    BY <1>1
  <1>5. others # {} => First(b, best) # {}
    BY <1>1, <1>4, FirstExists
  <1>6. QED  BY <1>1, <1>2, <1>3, <1>5 DEF others

\* The bindings of a manual switch have the target as their only primary.
LEMMA Manual ==
    ASSUME NEW b \in Bindings, NEW prev \in Nodes, NEW target \in Nodes,
           NEW keep \in BOOLEAN
    PROVE  /\ ManualBindings(b, prev, target, keep) \in Bindings
           /\ Primaries(ManualBindings(b, prev, target, keep)) = {target}
  <1> DEFINE kept    == Bound(b) \ {prev, target}
             rank(n) == Cardinality({m \in kept : Before(b, m, n)})
             base    == IF keep THEN 200 ELSE 100
             at(n)   == IF n = target THEN [role |-> "primary", priority |-> 100]
                        ELSE IF n = prev
                          THEN IF keep THEN [role |-> "standby", priority |-> 200]
                                       ELSE Unbound
                        ELSE IF n \in kept
                          THEN [role |-> "standby", priority |-> base + 100 * rank(n)]
                        ELSE Unbound
  <1>1. \A n \in Nodes : rank(n) \in Nat
    <2>1. ASSUME NEW n \in Nodes  PROVE rank(n) \in Nat
      <3>1. {m \in kept : Before(b, m, n)} \in SUBSET Nodes
        BY DEF Bound
      <3>2. QED  BY <3>1, NodesFinite
    <2>2. QED  BY <2>1
  <1>2. base \in Nat
    OBVIOUS
  <1> HIDE DEF rank, base
  <1>3. \A n \in Nodes : base + 100 * rank(n) \in Nat
    BY <1>1, <1>2
  <1>4. \A n \in Nodes : at(n) \in Binding /\ (at(n).role = "primary" <=> n = target)
    BY <1>3 DEF Binding, Unbound
  <1>5. ManualBindings(b, prev, target, keep) = [n \in Nodes |-> at(n)]
    BY DEF ManualBindings, rank, base
  <1> HIDE DEF at
  <1>6. QED  BY <1>4, <1>5 DEF Bindings, Primaries

\* normalize_site_bindings lets through bindings with a single primary.
LEMMA NormalizedBindings ==
    ASSUME NEW b \in Normalized
    PROVE  b \in Bindings /\ \E n \in Nodes : Primaries(b) = {n}
  <1>1. b \in Bindings
    BY Constants DEF Normalized, Bindings, Binding
  <1>2. Primaries(b) \in SUBSET Nodes
    BY DEF Primaries
  <1>3. IsFiniteSet(Primaries(b)) /\ Cardinality(Primaries(b)) = 1
    BY <1>2, NodesFinite DEF Normalized
  <1>4. \E n : Primaries(b) = {n}
    BY <1>3, FS_Singleton
  <1>5. QED  BY <1>1, <1>2, <1>4

-----------------------------------------------------------------------------
(***************************************************************************)
(* Type correctness.  It is not inductive alone: the pairs of nodes that   *)
(* the worker and a manual switch carry must be pairs of two nodes, and an *)
(* event that is closed must be open.                                      *)
(***************************************************************************)

\* The worker's snapshots and plan.
WorkerSound ==
    /\ \A j \in todo : j.primary # j.standby
    /\ step # "next" => todo # {} /\ open[job.policy] > 0
    /\ step = "execute" => job.standby \notin plan.next

\* The manual switch under way.
AdminSound == admin.step \in {"save", "policies"} => admin.target \notin admin.next

TypeInv == TypeOK /\ WorkerSound /\ AdminSound

\* TypeOK by the parts of the system.
NodesType ==
    /\ alive \in SUBSET Nodes
    /\ missed \in [Nodes -> 0..MissedCap]
    /\ status \in [Nodes -> Statuses]
    /\ DOMAIN judged \subseteq Nodes /\ \A n \in DOMAIN judged : judged[n] \in Statuses
    /\ reported \in [Nodes -> Versions]
SiteType ==
    /\ bindings \in Bindings
    /\ policy \in [Policies -> Pair]
    /\ releases \in Versions
    /\ newest \in [Nodes -> Versions]
    /\ targets \in SUBSET Nodes
    /\ dns \in Nodes
WorkerType ==
    /\ open \in [Policies -> Nat]
    /\ todo \in SUBSET Job
    /\ step \in {"next", "execute", "switched", "failed"}
    /\ plan \in Plan
AdminType ==
    admin \in [step: AdminStep, bindings: Bindings, target: Nodes, next: SUBSET Nodes]
CountersType ==
    /\ outages \in 0..MaxOutages
    /\ faults \in 0..MaxFaults
    /\ requests \in 0..MaxRequests

LEMMA TypeParts ==
    TypeOK <=> NodesType /\ SiteType /\ WorkerType /\ AdminType /\ CountersType
  BY DEF TypeOK, NodesType, SiteType, WorkerType, AdminType, CountersType

\* The policy gone through next is one of those left.
LEMMA JobExists ==
    ASSUME todo \in SUBSET Job, todo # {}
    PROVE  /\ job \in todo /\ job \in Job
           /\ job.policy \in Policies /\ job.primary \in Nodes /\ job.standby \in Nodes
  <1> DEFINE P == {j.policy : j \in todo}
  <1>1. P \in SUBSET Nat /\ P # {}
    BY Constants DEF Job, Policies
  <1>2. \E x \in P : \A y \in P : x <= y
    <2> HIDE DEF P
    <2>1. QED  BY <1>1, LeastNumber
  <1>3. \E j \in todo : \A k \in todo : j.policy <= k.policy
    BY <1>2
  <1>4. job \in todo
    BY <1>3 DEF job
  <1>5. job \in Job
    BY <1>4
  <1>6. QED  BY <1>4, <1>5 DEF Job

\* The version after a version is a version.
LEMMA AfterType ==
    ASSUME NEW r \in Versions
    PROVE  After(r) \in Versions
  BY Constants DEF After, Versions

\* The plan and the request at rest.
LEMMA RestType ==
    /\ NoPlan \in Plan
    /\ NoRequest \in [step: AdminStep, bindings: Bindings, target: Nodes, next: SUBSET Nodes]
    /\ NoRequest.step = "idle"
  <1>1. [n \in Nodes |-> Unbound] \in Bindings
    BY DEF Bindings, Binding
  <1>2. 1 \in Nodes
    BY Constants DEF Nodes
  <1>3. QED  BY <1>1, <1>2 DEF NoPlan, Plan, NoRequest, AdminStep

\* The steps of the nodes, of time and of the status worker.
LEMMA NodesStep ==
    ASSUME TypeInv,
           \/ \E n \in Nodes : \/ \E v \in Versions : Heartbeat(n, v)
                               \/ Outage(n) \/ Recover(n)
           \/ Tick \/ StatusWorker
    PROVE  /\ NodesType' /\ CountersType'
           /\ UNCHANGED <<siteVars, open, dns, workerVars, admin, faults, requests>>
  <1> USE Constants DEF counters
  <1>0. NodesType /\ CountersType
    BY TypeParts DEF TypeInv
  <1>1. ASSUME NEW n \in Nodes, NEW v \in Versions, Heartbeat(n, v)
        PROVE  /\ NodesType' /\ CountersType'
               /\ UNCHANGED <<siteVars, open, dns, workerVars, admin, faults, requests>>
    BY <1>0, <1>1 DEF Heartbeat, NodesType, CountersType, Statuses
  <1>2. ASSUME NEW n \in Nodes, Outage(n) \/ Recover(n)
        PROVE  /\ NodesType' /\ CountersType'
               /\ UNCHANGED <<siteVars, open, dns, workerVars, admin, faults, requests>>
    BY <1>0, <1>2 DEF Outage, Recover, NodesType, CountersType
  <1>3. CASE Tick
    BY <1>0, <1>3 DEF Tick, NodesType, CountersType
  <1>4. CASE StatusScan
    <2>1. \A n \in Nodes : EvaluateStatus(missed[n]) \in Statuses
      BY DEF EvaluateStatus, Statuses
    <2>2. QED  BY <1>0, <1>4, <2>1 DEF StatusScan, NodesType, CountersType
  <1>5. ASSUME NEW n \in Nodes, StatusWrite(n)
        PROVE  /\ NodesType' /\ CountersType'
               /\ UNCHANGED <<siteVars, open, dns, workerVars, admin, faults, requests>>
    BY <1>0, <1>5 DEF StatusWrite, NodesType, CountersType
  <1>6. QED  BY <1>1, <1>2, <1>3, <1>4, <1>5 DEF StatusWorker

\* A fault is counted.
LEMMA FaultCounted ==
    ASSUME CountersType, Fault, UNCHANGED <<outages, requests>>
    PROVE  CountersType'
  BY Constants DEF CountersType, Fault

\* The steps of the failover worker, aborted and interrupted ones included.
LEMMA WorkerStep ==
    ASSUME TypeInv, Worker \/ Abort \/ Interrupt
    PROVE  /\ SiteType' /\ WorkerType' /\ CountersType' /\ WorkerSound'
           /\ UNCHANGED <<nodeVars, admin>>
  <1> USE DEF siteVars, counters
  <1>0. SiteType /\ WorkerType /\ CountersType /\ WorkerSound
    BY TypeParts DEF TypeInv
  <1>1. CASE LoadPolicies
    <2>1. \A p \in Policies : Snapshot(p) \in Job /\ Snapshot(p).primary # Snapshot(p).standby
      <3>1. ASSUME NEW p \in Policies
            PROVE  Snapshot(p) \in Job /\ Snapshot(p).primary # Snapshot(p).standby
        <4>1. policy[p] \in Pair
          BY <1>0 DEF SiteType
        <4>2. QED  BY <4>1 DEF Pair, Snapshot, Job
      <3>2. QED  BY <3>1
    <2>2. todo' \in SUBSET Job /\ \A j \in todo' : j.primary # j.standby
      BY <1>1, <2>1 DEF LoadPolicies
    <2>3. step = "next" /\ step' = "next"
      BY <1>0, <1>1 DEF LoadPolicies, WorkerSound
    <2>4. QED
      BY <1>0, <1>1, <2>2, <2>3
         DEF LoadPolicies, SiteType, WorkerType, CountersType, WorkerSound
  <1>2. CASE Skip
    BY <1>0, <1>2 DEF Skip, rest, SiteType, WorkerType, CountersType, WorkerSound
  <1>3. CASE CreateEvent
    <2> DEFINE switched == SwitchedBindings(bindings, job.primary, job.standby)
               online   == {n \in Bound(bindings) : status[n] = "online"}
    <2>1. /\ job \in todo /\ job.policy \in Policies
          /\ job.primary \in Nodes /\ job.standby \in Nodes
          /\ job.primary # job.standby
      BY <1>0, <1>3, JobExists DEF CreateEvent, WorkerType, WorkerSound
    <2>2. switched \in Bindings
      BY <1>0, <2>1, Switched DEF SiteType
    <2>3. online \in SUBSET Nodes
      BY DEF Bound
    <2>4. NextStandby(switched, online, job.standby) \in SUBSET (Nodes \ {job.standby})
      <3> HIDE DEF switched, online
      <3>1. QED  BY <2>1, <2>2, <2>3, NextStandbyFound
    <2>5. /\ open' = [open EXCEPT ![job.policy] = @ + 1]
          /\ plan' = [bindings |-> switched,
                      next |-> NextStandby(switched, online, job.standby)]
          /\ step' = "execute" /\ todo' = todo /\ todo # {}
      BY <1>3 DEF CreateEvent
    <2> HIDE DEF switched, online
    <2>6. plan' \in Plan /\ job.standby \notin plan'.next
      BY <2>2, <2>4, <2>5 DEF Plan
    <2>7. open' \in [Policies -> Nat] /\ open'[job.policy] > 0
      BY <1>0, <2>1, <2>5 DEF WorkerType
    <2>8. job' = job
      BY <2>5 DEF job
    <2>9. WorkerSound' /\ WorkerType'
      BY <1>0, <2>5, <2>6, <2>7, <2>8 DEF WorkerSound, WorkerType
    <2>10. QED
      BY <1>0, <1>3, <2>9 DEF CreateEvent, SiteType, CountersType
  <1>4. CASE Execute
    <2>1. /\ job \in todo /\ job.policy \in Policies
          /\ job.primary \in Nodes /\ job.standby \in Nodes
          /\ job.standby \notin plan.next
      BY <1>0, <1>4, JobExists DEF Execute, WorkerType, WorkerSound
    <2>2. plan.bindings \in Bindings /\ plan.next \in SUBSET Nodes
      BY <1>0 DEF WorkerType, Plan
    <2>3. AdvancePolicy \in Pair
      <3>1. CASE plan.next = {}
        BY <1>0, <2>1, <3>1 DEF AdvancePolicy, SiteType
      <3>2. CASE plan.next # {}
        <4>1. (CHOOSE n \in plan.next : TRUE) \in plan.next
          BY <3>2
        <4>2. QED  BY <2>1, <2>2, <3>2, <4>1 DEF AdvancePolicy, Pair
      <3>3. QED  BY <3>1, <3>2
    <2>4. After(releases) \in Versions
      BY <1>0, AfterType DEF SiteType
    <2>5. policy' \in [Policies -> Pair]
      BY <1>0, <1>4, <2>3 DEF Execute, SiteType
    <2>6. releases' \in Versions /\ newest' \in [Nodes -> Versions]
      BY <1>0, <1>4, <2>4 DEF Execute, SiteType
    <2>7. targets' \in SUBSET Nodes /\ bindings' \in Bindings /\ dns' \in Nodes
      BY <1>0, <1>4, <2>1, <2>2 DEF Execute, SiteType, Bound, PointDns
    <2>8. SiteType'
      BY <2>5, <2>6, <2>7 DEF SiteType
    <2>9. WorkerType' /\ WorkerSound'
      <3>1. /\ todo' = todo /\ open' = open /\ step' = "switched" /\ plan' = NoPlan
            /\ todo # {} /\ step = "execute"
        BY <1>4 DEF Execute
      <3>2. job' = job
        BY <3>1 DEF job
      <3>3. QED  BY <1>0, <3>1, <3>2, RestType DEF WorkerType, WorkerSound
    <2>10. QED  BY <1>0, <1>4, <2>8, <2>9 DEF Execute, CountersType
  <1>5. CASE Abort
    <2>1. job.standby \in Nodes
      BY <1>0, <1>5, JobExists DEF Abort, WorkerType
    <2>2. dns' \in Nodes
      BY <1>0, <1>5, <2>1 DEF Abort, SiteType, PointDns
    <2>3. /\ todo' = todo /\ open' = open /\ step' = "failed" /\ plan' = NoPlan
          /\ todo # {} /\ step = "execute"
      BY <1>5 DEF Abort
    <2>4. job' = job
      BY <2>3 DEF job
    <2>5. WorkerType' /\ WorkerSound'
      BY <1>0, <2>3, <2>4, RestType DEF WorkerType, WorkerSound
    <2>6. QED
      BY <1>0, <1>5, <2>2, <2>5, FaultCounted DEF Abort, SiteType
  <1>6. CASE Finish
    <2>1. job.policy \in Policies /\ open[job.policy] > 0
      BY <1>0, <1>6, JobExists DEF Finish, WorkerType, WorkerSound
    <2>2. open' \in [Policies -> Nat]
      BY <1>0, <1>6, <2>1 DEF Finish, WorkerType
    <2>3. QED
      BY <1>0, <1>6, <2>2
         DEF Finish, rest, SiteType, WorkerType, CountersType, WorkerSound
  <1>7. CASE Interrupt
    <2>1. job.standby \in Nodes
      BY <1>0, <1>7, JobExists DEF Interrupt, WorkerType
    <2>2. dns' \in Nodes
      BY <1>0, <1>7, <2>1 DEF Interrupt, SiteType, PointDns
    <2>3. todo' \subseteq todo /\ step' = "next" /\ plan' = NoPlan /\ open' = open
      BY <1>7 DEF Interrupt, rest
    <2>4. WorkerType' /\ WorkerSound'
      BY <1>0, <2>3, RestType DEF WorkerType, WorkerSound
    <2>5. QED
      BY <1>0, <1>7, <2>2, <2>4, FaultCounted DEF Interrupt, SiteType
  <1>8. QED
    BY <1>1, <1>2, <1>3, <1>4, <1>5, <1>6, <1>7 DEF Worker

\* An administrator's request begins.
LEMMA RequestCounted ==
    ASSUME CountersType, NewRequest, UNCHANGED <<outages, faults>>
    PROVE  CountersType'
  BY Constants DEF CountersType, NewRequest

\* What a manual switch carries.
LEMMA ManualSwitch ==
    ASSUME TypeInv, NEW target \in Nodes, NEW keep \in BOOLEAN,
           SwitchSitePrimary(target, keep)
    PROVE  /\ admin' \in [step: AdminStep, bindings: Bindings, target: Nodes,
                          next: SUBSET Nodes]
           /\ admin'.step = "save" /\ admin'.target \notin admin'.next
           /\ Primaries(admin'.bindings) = {target}
  <1>0. bindings \in Bindings
    BY DEF TypeInv, TypeOK
  <1>1. PICK prev \in First(bindings, IF Primaries(bindings) = {} THEN Bound(bindings)
                                       ELSE Primaries(bindings)) :
          admin' = [step |-> "save",
                    bindings |-> ManualBindings(bindings, prev, target, keep),
                    target |-> target,
                    next |-> First(ManualBindings(bindings, prev, target, keep),
                                   Standbys(ManualBindings(bindings, prev, target, keep))
                                     \ {target})]
    BY DEF SwitchSitePrimary
  <1>2. prev \in Nodes
    BY DEF First, Bound, Primaries
  <1> DEFINE b == ManualBindings(bindings, prev, target, keep)
  <1>3. b \in Bindings /\ Primaries(b) = {target}
    BY <1>0, <1>2, Manual
  <1>4. admin' = [step |-> "save", bindings |-> b, target |-> target,
                  next |-> First(b, Standbys(b) \ {target})]
    BY <1>1
  <1> HIDE DEF b
  <1>5. First(b, Standbys(b) \ {target}) \subseteq Nodes \ {target}
    BY DEF First, Standbys
  <1>6. QED  BY <1>3, <1>4, <1>5 DEF AdminStep

\* The steps of administrators' requests.
AdminAction ==
    \/ \E b \in Normalized : BindSiteNodes(b)
    \/ \E target \in Nodes, keep \in BOOLEAN : SwitchSitePrimary(target, keep)
    \/ CreateRelease \/ Request \/ RequestFails

LEMMA AdminActionType ==
    ASSUME TypeInv, AdminAction
    PROVE  /\ SiteType' /\ AdminType' /\ CountersType' /\ AdminSound'
           /\ UNCHANGED <<nodeVars, open, workerVars>>
  <1> USE DEF siteVars, counters
  <1>0. /\ SiteType /\ AdminType /\ CountersType /\ AdminSound
        /\ admin.bindings \in Bindings /\ admin.target \in Nodes
        /\ admin.next \in SUBSET Nodes
    BY TypeParts DEF TypeInv, AdminType
  <1>1. ASSUME NEW b \in Normalized, BindSiteNodes(b)
        PROVE  /\ SiteType' /\ AdminType' /\ CountersType' /\ AdminSound'
               /\ UNCHANGED <<nodeVars, open, workerVars>>
    <2>1. b \in Bindings
      BY NormalizedBindings
    <2>2. QED
      BY <1>0, <1>1, <2>1, RequestCounted
         DEF BindSiteNodes, SiteType, AdminType, AdminSound
  <1>2. ASSUME NEW target \in Nodes, NEW keep \in BOOLEAN,
               SwitchSitePrimary(target, keep)
        PROVE  /\ SiteType' /\ AdminType' /\ CountersType' /\ AdminSound'
               /\ UNCHANGED <<nodeVars, open, workerVars>>
    <2>1. UNCHANGED <<nodeVars, siteVars, open, dns, workerVars, outages, faults>>
          /\ NewRequest
      BY <1>2 DEF SwitchSitePrimary
    <2>2. AdminType' /\ AdminSound'
      BY <1>2, ManualSwitch DEF AdminType, AdminSound
    <2>3. QED  BY <1>0, <2>1, <2>2, RequestCounted DEF SiteType
  <1>3. CASE CreateRelease
    BY <1>0, <1>3, RequestCounted
       DEF CreateRelease, SiteType, AdminType, AdminSound, AdminStep
  <1>4. CASE RequestFails
    BY <1>0, <1>4, RestType, FaultCounted
       DEF RequestFails, SiteType, AdminType, AdminSound
  <1>5. CASE SwitchSave
    BY <1>0, <1>5
       DEF SwitchSave, SiteType, AdminType, AdminSound, AdminStep, CountersType
  <1>6. CASE SwitchPolicies
    <2>1. admin.target \notin admin.next
      BY <1>0, <1>6 DEF SwitchPolicies, AdminSound
    <2>2. policy' \in [Policies -> Pair]
      <3>1. CASE admin.next = {}
        BY <1>0, <1>6, <3>1 DEF SwitchPolicies, SiteType
      <3>2. CASE admin.next # {}
        <4>1. (CHOOSE n \in admin.next : TRUE) \in admin.next
          BY <3>2
        <4>2. QED  BY <1>0, <1>6, <2>1, <3>2, <4>1 DEF SwitchPolicies, Pair
      <3>3. QED  BY <3>1, <3>2
    <2>3. AdminType' /\ AdminSound'
      BY <1>6, RestType DEF SwitchPolicies, AdminType, AdminSound, AdminStep
    <2>4. QED  BY <1>0, <1>6, <2>2, <2>3 DEF SwitchPolicies, SiteType, CountersType
  <1>7. CASE ReleaseRead
    BY <1>0, <1>7
       DEF ReleaseRead, SiteType, AdminType, AdminSound, AdminStep, CountersType
  <1>8. CASE ReleaseSave
    <2>1. Bound(admin.bindings) \in SUBSET Nodes
      BY DEF Bound
    <2>2. After(releases) \in Versions /\ After(After(releases)) \in Versions
      BY <1>0, AfterType DEF SiteType
    <2>3. /\ releases' \in {After(releases), After(After(releases))}
          /\ newest' \in [Nodes -> Versions]
          /\ targets' = Bound(admin.bindings)
      BY <1>0, <1>8, <2>2 DEF ReleaseSave, SiteType
    <2>4. AdminType' /\ AdminSound'
      BY <1>0, <1>8 DEF ReleaseSave, AdminType, AdminSound, AdminStep
    <2>5. QED
      BY <1>0, <1>8, <2>1, <2>2, <2>3, <2>4 DEF ReleaseSave, SiteType, CountersType
  <1>9. CASE ReleaseWrite
    BY <1>0, <1>9, RestType
       DEF ReleaseWrite, SiteType, AdminType, AdminSound, CountersType
  <1>10. QED
    BY AdminAction, <1>1, <1>2, <1>3, <1>4, <1>5, <1>6, <1>7, <1>8, <1>9
       DEF AdminAction, Request

\* Next by the parts of the system.
NodeAction ==
    \/ \E n \in Nodes : \/ \E v \in Versions : Heartbeat(n, v)
                        \/ Outage(n) \/ Recover(n)
    \/ Tick \/ StatusWorker
WorkerAction == Worker \/ Abort \/ Interrupt

LEMMA NextParts == Next => NodeAction \/ WorkerAction \/ AdminAction
  BY DEF Next, NodeAction, WorkerAction, AdminAction

\* Every step keeps the state well typed.
LEMMA TypeNext ==
    ASSUME TypeInv, [Next]_vars
    PROVE  TypeInv'
  <1> USE DEF nodeVars, workerVars
  <1>0. /\ NodesType /\ SiteType /\ WorkerType /\ AdminType /\ CountersType
        /\ WorkerSound /\ AdminSound
    BY TypeParts DEF TypeInv
  <1>1. SUFFICES /\ NodesType' /\ SiteType' /\ WorkerType' /\ AdminType' /\ CountersType'
                 /\ WorkerSound' /\ AdminSound'
    BY DEF TypeInv, TypeOK, NodesType, SiteType, WorkerType, AdminType, CountersType
  <1>2. CASE NodeAction
    <2>1. /\ NodesType' /\ CountersType'
          /\ UNCHANGED <<siteVars, open, dns, workerVars, admin>>
      BY <1>2, NodesStep DEF NodeAction
    <2>2. SiteType' /\ WorkerType' /\ AdminType'
      BY <1>0, <2>1 DEF SiteType, WorkerType, AdminType, siteVars
    <2>3. WorkerSound' /\ AdminSound'
      BY <1>0, <2>1 DEF WorkerSound, AdminSound, job
    <2>4. QED  BY <2>1, <2>2, <2>3
  <1>3. CASE WorkerAction
    <2>1. /\ SiteType' /\ WorkerType' /\ CountersType' /\ WorkerSound'
          /\ UNCHANGED <<nodeVars, admin>>
      BY <1>3, WorkerStep DEF WorkerAction
    <2>2. QED  BY <1>0, <2>1 DEF NodesType, AdminType, AdminSound
  <1>4. CASE AdminAction
    <2>1. /\ SiteType' /\ AdminType' /\ CountersType' /\ AdminSound'
          /\ UNCHANGED <<nodeVars, open, workerVars>>
      BY <1>4, AdminActionType
    <2>2. QED  BY <1>0, <2>1 DEF NodesType, WorkerType, WorkerSound, job
  <1>5. CASE UNCHANGED vars
    <2>1. UNCHANGED <<nodeVars, siteVars, open, dns, workerVars, admin, counters>>
      BY <1>5 DEF vars
    <2>2. NodesType' /\ SiteType' /\ WorkerType' /\ AdminType' /\ CountersType'
      BY <1>0, <2>1 DEF NodesType, SiteType, WorkerType, AdminType, CountersType,
         siteVars, counters
    <2>3. QED  BY <1>0, <2>1, <2>2 DEF WorkerSound, AdminSound, job
  <1>6. QED  BY <1>2, <1>3, <1>4, <1>5, NextParts

\* The initial state is well typed.
LEMMA TypeInit == Init => TypeInv
  <1> SUFFICES ASSUME Init PROVE TypeInv
    OBVIOUS
  <1> USE Constants DEF Init
  <1>1. bindings \in Bindings
    BY NormalizedBindings
  <1>2. NodesType
    <2>1. DOMAIN judged = {}
      OBVIOUS
    <2>2. newest \in [Nodes -> Versions]
      BY DEF Versions
    <2>3. QED  BY <2>1, <2>2 DEF NodesType, Statuses
  <1>3. SiteType
    <2>1. targets \in SUBSET Nodes
      BY DEF Bound
    <2>2. dns \in Nodes
      BY DEF CurrentPrimary, First, Primaries
    <2>3. QED  BY <1>1, <2>1, <2>2 DEF SiteType, Versions
  <1>4. WorkerType /\ AdminType /\ CountersType
    BY RestType DEF WorkerType, AdminType, CountersType
  <1>5. WorkerSound /\ AdminSound
    BY RestType DEF WorkerSound, AdminSound
  <1>6. QED  BY <1>2, <1>3, <1>4, <1>5, TypeParts DEF TypeInv

LEMMA TypeAlways == Spec => []TypeInv
  BY TypeInit, TypeNext, PTL DEF Spec

\* The tables, the workers' snapshots and the requests under way always have
\* the types the schema and the structs give them; in particular a policy never
\* names one node as its primary and its standby.
THEOREM TypeCorrect == Spec => []TypeOK
  BY TypeAlways, PTL DEF TypeInv

-----------------------------------------------------------------------------
(***************************************************************************)
(* The site always has a primary.  So must have the bindings that the      *)
(* worker and the requests have worked out and not written yet.            *)
(***************************************************************************)

SomeInv ==
    /\ Primaries(bindings) # {}
    /\ step = "execute" => Primaries(plan.bindings) # {}
    /\ admin.step \in {"save", "release", "write"} => Primaries(admin.bindings) # {}

\* Every step leaves the site and every set of bindings under way a primary.
LEMMA SomeNext ==
    ASSUME TypeInv, SomeInv, [Next]_vars
    PROVE  SomeInv'
  <1> USE DEF siteVars, workerVars, SomeInv
  <1>0. TypeOK /\ WorkerSound
    BY DEF TypeInv
  <1>1. CASE NodeAction
    <2>1. UNCHANGED <<siteVars, workerVars, admin>>
      BY <1>1, NodesStep DEF NodeAction
    <2>2. QED  BY <2>1
  <1>2. CASE CreateEvent
    <2>1. /\ job.primary \in Nodes /\ job.standby \in Nodes
          /\ job.primary # job.standby
      BY <1>0, <1>2, JobExists DEF CreateEvent, TypeOK, WorkerSound
    <2>2. Primaries(plan'.bindings) =
            (Primaries(bindings) \ {job.primary}) \cup {job.standby}
      BY <1>0, <1>2, <2>1, Switched DEF CreateEvent, TypeOK
    <2>3. QED  BY <1>2, <2>2 DEF CreateEvent
  <1>3. CASE LoadPolicies \/ Skip \/ Finish \/ Abort \/ Interrupt
    BY <1>3 DEF LoadPolicies, Skip, Finish, Abort, Interrupt
  <1>4. CASE Execute
    BY <1>4 DEF Execute
  <1>5. ASSUME NEW b \in Normalized, BindSiteNodes(b)  PROVE SomeInv'
    BY <1>5, NormalizedBindings DEF BindSiteNodes
  <1>6. ASSUME NEW target \in Nodes, NEW keep \in BOOLEAN,
               SwitchSitePrimary(target, keep)
        PROVE  SomeInv'
    <2>1. Primaries(admin'.bindings) # {}
      BY <1>6, ManualSwitch
    <2>2. QED  BY <1>6, <2>1 DEF SwitchSitePrimary
  <1>7. CASE CreateRelease \/ RequestFails \/ Request
    BY <1>0, <1>7, RestType
       DEF CreateRelease, RequestFails, Request, SwitchSave, SwitchPolicies,
           ReleaseRead, ReleaseSave, ReleaseWrite, TypeOK
  <1>8. CASE UNCHANGED vars
    BY <1>8 DEF vars
  <1>9. QED
    BY <1>1, <1>2, <1>3, <1>4, <1>5, <1>6, <1>7, <1>8, NextParts
       DEF WorkerAction, Worker, AdminAction

LEMMA SomeInit == Init => SomeInv
  BY NormalizedBindings, RestType DEF Init, SomeInv

\* However many policies and administrators overwrite each other's bindings,
\* whatever aborts or crashes: the site never loses its last primary.
THEOREM SiteKeepsAPrimary == Spec => []SomePrimary
  <1>1. TypeInv /\ SomeInv /\ [Next]_vars => SomeInv'
    BY SomeNext
  <1>2. SomeInv => SomePrimary
    BY DEF SomeInv, SomePrimary
  <1>3. QED  BY <1>1, <1>2, SomeInit, TypeAlways, PTL DEF Spec

-----------------------------------------------------------------------------
(***************************************************************************)
(* A site with one policy that no administrator has touched yet.  With a   *)
(* second policy, or a request that overwrites what the worker writes, the *)
(* properties below fail.                                                  *)
(***************************************************************************)

SoleWriter == NumPolicies = 1 /\ requests = 0

SoleInv ==
    /\ admin.step = "idle"
    /\ Primaries(bindings) = {policy[1].primary}
    /\ \A j, k \in todo : j = k
    /\ step # "switched" => \A j \in todo : j = Snapshot(1)
    /\ step = "execute" => Primaries(plan.bindings) = {job.standby} /\ plan.next # {}
    /\ DnsFailover => dns \in {policy[1].primary, policy[1].standby}

\* What the invariant says of the policy gone through.
LEMMA SoleJob ==
    ASSUME TypeInv, SoleInv, todo # {}
    PROVE  /\ job \in todo /\ todo = {job}
           /\ step # "switched" => /\ job.policy = 1
                                   /\ job.primary = policy[1].primary
                                   /\ job.standby = policy[1].standby
  <1>1. job \in todo
    BY JobExists DEF TypeInv, TypeOK
  <1>2. todo = {job}
    BY <1>1 DEF SoleInv
  <1>3. step # "switched" => job = Snapshot(1)
    BY <1>1 DEF SoleInv
  <1>4. QED  BY <1>1, <1>2, <1>3 DEF Snapshot

\* No administrator acts without being counted.
LEMMA SoleAdmin ==
    ASSUME TypeInv, SoleInv, AdminAction
    PROVE  requests' # 0
  <1>1. requests \in Nat
    BY Constants DEF TypeInv, TypeOK
  <1>2. CASE NewRequest
    BY <1>1, <1>2 DEF NewRequest
  <1>3. QED
    BY AdminAction, <1>2 DEF SoleInv, AdminAction, BindSiteNodes, SwitchSitePrimary,
       CreateRelease, RequestFails, Request, SwitchSave, SwitchPolicies, ReleaseRead,
       ReleaseSave, ReleaseWrite

\* Requests are only counted up.
LEMMA SoleBefore ==
    ASSUME TypeInv, [Next]_vars, SoleWriter'
    PROVE  SoleWriter
  <1>1. requests \in Nat
    BY Constants DEF TypeInv, TypeOK
  <1>2. requests' \in {requests, requests + 1}
    BY DEF Next, vars, counters, Heartbeat, Outage, Recover, Tick, StatusWorker,
       StatusScan, StatusWrite, Worker, LoadPolicies, Skip, CreateEvent, Execute, Finish,
       Abort, Interrupt, BindSiteNodes, SwitchSitePrimary, CreateRelease, NewRequest,
       RequestFails, Request, SwitchSave, SwitchPolicies, ReleaseRead, ReleaseSave,
       ReleaseWrite
  <1>3. QED  BY <1>1, <1>2 DEF SoleWriter

\* The worker's steps keep bindings, policy and DNS together.
LEMMA SoleWorker ==
    ASSUME TypeInv, NumPolicies = 1, SoleInv, WorkerAction
    PROVE  SoleInv'
  <1> USE DEF siteVars, SoleInv
  <1>0. /\ TypeOK /\ WorkerSound /\ Policies = {1}
        /\ policy \in [Policies -> Pair] /\ bindings \in Bindings
    BY DEF TypeInv, TypeOK, Policies
  <1>1. CASE LoadPolicies
    <2>1. step = "next"
      BY <1>0, <1>1 DEF LoadPolicies, WorkerSound
    <2>2. \A j \in todo' : j = Snapshot(1)
      BY <1>0, <1>1 DEF LoadPolicies
    <2>3. Snapshot(1)' = Snapshot(1)
      BY <1>1 DEF LoadPolicies, Snapshot
    <2>4. QED  BY <1>1, <2>1, <2>2, <2>3 DEF LoadPolicies
  <1>2. CASE Skip \/ Finish \/ Interrupt
    <2>1. todo # {} /\ step' = "next" /\ todo' \in {{}, todo \ {job}}
      BY <1>2 DEF Skip, Finish, Interrupt, rest
    <2>2. todo' = {}
      BY <2>1, SoleJob
    <2>3. UNCHANGED <<bindings, policy, admin>>
      BY <1>2 DEF Skip, Finish, Interrupt
    <2>4. DnsFailover => dns' \in {policy[1].primary, policy[1].standby}
      <3>1. CASE UNCHANGED dns
        BY <3>1
      <3>2. CASE step = "execute" /\ PointDns
        BY <2>1, <3>2, SoleJob DEF PointDns
      <3>3. QED  BY <1>2, <3>1, <3>2 DEF Skip, Finish, Interrupt
    <2>5. QED  BY <2>1, <2>2, <2>3, <2>4
  <1>3. CASE CreateEvent
    <2> DEFINE switched == SwitchedBindings(bindings, job.primary, job.standby)
               online   == {n \in Bound(bindings) : status[n] = "online"}
    <2>1. /\ job \in todo /\ job.primary \in Nodes /\ job.standby \in Nodes
          /\ job.primary # job.standby /\ job.primary = policy[1].primary
      BY <1>0, <1>3, JobExists, SoleJob DEF CreateEvent, TypeOK, WorkerSound
    <2>2. /\ switched \in Bindings
          /\ Primaries(switched) = (Primaries(bindings) \ {job.primary}) \cup {job.standby}
          /\ job.primary \in Standbys(switched)
      BY <1>0, <2>1, Switched
    <2>3. Primaries(switched) = {job.standby}
      BY <2>1, <2>2
    <2>4. online \in SUBSET Nodes
      BY DEF Bound
    <2>5. NextStandby(switched, online, job.standby) # {}
      <3> HIDE DEF switched, online
      <3>1. QED  BY <2>1, <2>2, <2>4, NextStandbyFound
    <2>6. /\ plan' = [bindings |-> switched,
                      next |-> NextStandby(switched, online, job.standby)]
          /\ step' = "execute" /\ step = "next"
          /\ UNCHANGED <<todo, bindings, policy, dns, admin>>
      BY <1>3 DEF CreateEvent
    <2>7. job' = job /\ Snapshot(1)' = Snapshot(1)
      BY <2>6 DEF job, Snapshot
    <2> HIDE DEF switched, online
    <2>8. QED  BY <2>3, <2>5, <2>6, <2>7
  <1>4. CASE Execute
    <2>1. /\ job.policy = 1 /\ Primaries(plan.bindings) = {job.standby}
          /\ plan.next # {}
      BY <1>4, SoleJob DEF Execute
    <2>2. policy'[1] = [primary |-> job.standby, standby |-> CHOOSE n \in plan.next : TRUE]
      BY <1>0, <1>4, <2>1 DEF Execute, AdvancePolicy
    <2>3. bindings' = plan.bindings /\ UNCHANGED <<todo, admin>> /\ step' = "switched"
      BY <1>4 DEF Execute
    <2>4. DnsFailover => dns' = job.standby
      BY <1>4 DEF Execute, PointDns
    <2>5. QED  BY <2>1, <2>2, <2>3, <2>4
  <1>5. CASE Abort
    <2>1. UNCHANGED <<todo, bindings, policy, admin>> /\ step' = "failed"
      BY <1>5 DEF Abort
    <2>2. job.standby = policy[1].standby
      BY <1>5, SoleJob DEF Abort
    <2>3. Snapshot(1)' = Snapshot(1)
      BY <2>1 DEF Snapshot
    <2>4. QED  BY <1>5, <2>1, <2>2, <2>3 DEF Abort, PointDns
  <1>6. QED
    BY WorkerAction, <1>1, <1>2, <1>3, <1>4, <1>5 DEF WorkerAction, Worker

LEMMA SoleNext ==
    ASSUME TypeInv, SoleWriter => SoleInv, [Next]_vars
    PROVE  (SoleWriter => SoleInv)'
  <1>1. SUFFICES ASSUME SoleWriter'  PROVE SoleInv'
    OBVIOUS
  <1>2. SoleWriter /\ SoleInv
    BY <1>1, SoleBefore
  <1>3. ASSUME UNCHANGED <<siteVars, dns, workerVars, admin>>  PROVE SoleInv'
    BY <1>2, <1>3 DEF SoleInv, siteVars, workerVars, job, Snapshot
  <1>4. CASE NodeAction
    BY <1>3, <1>4, NodesStep DEF NodeAction
  <1>5. CASE WorkerAction
    BY <1>2, <1>5, SoleWorker DEF SoleWriter
  <1>6. CASE AdminAction
    BY <1>1, <1>2, <1>6, SoleAdmin DEF SoleWriter
  <1>7. CASE UNCHANGED vars
    BY <1>3, <1>7 DEF vars
  <1>8. QED  BY <1>4, <1>5, <1>6, <1>7, NextParts

LEMMA SoleInit == Init => (SoleWriter => SoleInv)
  <1> SUFFICES ASSUME Init, SoleWriter PROVE SoleInv
    OBVIOUS
  <1>1. PICK n \in Nodes : Primaries(bindings) = {n}
    BY NormalizedBindings DEF Init
  <1>2. bindings \in Bindings
    BY NormalizedBindings DEF Init
  <1>3. CurrentPrimary(bindings) = {n}
    BY <1>1, <1>2, FirstOfOne DEF CurrentPrimary
  <1>4. 1 \in Policies
    BY DEF Policies, SoleWriter
  <1>5. policy[1].primary = n /\ dns = n
    BY <1>3, <1>4 DEF Init
  <1>6. QED  BY <1>1, <1>5, RestType DEF Init, SoleInv

LEMMA SoleAlways == Spec => [](TypeInv /\ (SoleWriter => SoleInv))
  <1>1. TypeInv /\ (SoleWriter => SoleInv) /\ [Next]_vars => (SoleWriter => SoleInv)'
    BY SoleNext
  <1>2. QED  BY <1>1, SoleInit, TypeAlways, PTL DEF Spec

\* The primary and what the policies watch, from the invariant.
LEMMA SoleFacts ==
    ASSUME TypeInv, SoleWriter, SoleInv
    PROVE  /\ OnePrimary /\ PolicyWatchesPrimary
           /\ DnsFailover => DnsAtPair
  <1>1. Policies = {1} /\ policy[1].primary \in Nodes /\ bindings \in Bindings
    BY DEF SoleWriter, Policies, TypeInv, TypeOK, Pair
  <1>2. OnePrimary
    BY <1>1, FS_Singleton DEF SoleInv, OnePrimary
  <1>3. CurrentPrimary(bindings) = {policy[1].primary}
    BY <1>1, FirstOfOne DEF SoleInv, CurrentPrimary
  <1>4. PolicyWatchesPrimary
    BY <1>1, <1>3 DEF PolicyWatchesPrimary
  <1>5. DnsFailover => DnsAtPair
    BY <1>1, <1>3 DEF SoleInv, DnsAtPair
  <1>6. QED  BY <1>2, <1>4, <1>5

\* Under one policy the failover worker alone - its aborted transactions, its
\* crashes and its retries included - leaves the site exactly one primary.
THEOREM OnePolicyOnePrimary == Spec => [](SoleWriter => OnePrimary)
  <1>1. TypeInv /\ (SoleWriter => SoleInv) => (SoleWriter => OnePrimary)
    BY SoleFacts
  <1>2. QED  BY <1>1, SoleAlways, PTL

\* And the policy always watches that primary: it is advanced in the
\* transaction of the switch, and a standby to go with it is always found.
THEOREM OnePolicyWatches == Spec => [](SoleWriter => PolicyWatchesPrimary)
  <1>1. TypeInv /\ (SoleWriter => SoleInv) => (SoleWriter => PolicyWatchesPrimary)
    BY SoleFacts
  <1>2. QED  BY <1>1, SoleAlways, PTL

\* With DNS failover the record is at the primary or at the standby the policy
\* would switch to next, even after switches that aborted half way.
THEOREM DnsFollows == Spec => [](SoleWriter /\ DnsFailover => DnsAtPair)
  <1>1. TypeInv /\ (SoleWriter => SoleInv) => (SoleWriter /\ DnsFailover => DnsAtPair)
    BY SoleFacts
  <1>2. QED  BY <1>1, SoleAlways, PTL

\* Under one policy and without administrators, a switch always takes the site
\* from the node whose failure triggered it.
THEOREM SwitchesOnce ==
    ASSUME NumPolicies = 1, MaxRequests = 0
    PROVE  Spec => NoRepeatedSwitch
  <1>1. TypeInv /\ (SoleWriter => SoleInv) /\ [Next]_vars =>
          [Execute => CurrentPrimary(bindings) = {job.primary}]_vars
    <2> SUFFICES ASSUME TypeInv, SoleWriter => SoleInv, Execute
                 PROVE  CurrentPrimary(bindings) = {job.primary}
      OBVIOUS
    <2>1. SoleWriter
      BY DEF SoleWriter, TypeInv, TypeOK
    <2>2. todo # {} /\ step = "execute"
      BY DEF Execute
    <2>3. job.primary = policy[1].primary
      BY <2>1, <2>2, SoleJob
    <2>4. policy[1].primary \in Nodes /\ bindings \in Bindings
      BY <2>1 DEF SoleWriter, Policies, TypeInv, TypeOK, Pair
    <2>5. QED  BY <2>1, <2>3, <2>4, FirstOfOne DEF SoleInv, CurrentPrimary
  <1>2. QED  BY <1>1, SoleAlways, PTL DEF Spec, NoRepeatedSwitch
=============================================================================
