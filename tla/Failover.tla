------------------------------ MODULE Failover ------------------------------
(***************************************************************************)
(* Failover of one site: the nodes' heartbeats, the status worker that     *)
(* judges them (apps/status-worker/src/main.rs), the failover worker that  *)
(* moves a site to its standby (apps/failover-worker/src/main.rs), and the *)
(* hub's handlers that write the same bindings and policies                *)
(* (bind_site_nodes, switch_site_primary, create_release in                *)
(* apps/hub-api/src/service.rs).                                           *)
(*                                                                         *)
(* A PostgreSQL transaction is one step that commits or aborts; statements *)
(* outside a transaction, and everything a handler read before them, are   *)
(* steps of their own.  Nodes are numbers in the order of their node_code. *)
(* Every policy is active, of scope "site" and of mode semi_auto or auto.  *)
(***************************************************************************)
EXTENDS Naturals, FiniteSets

CONSTANTS
    NumNodes,          \* the nodes are 1..NumNodes
    NumPolicies,       \* the site's policies are 1..NumPolicies, by created_at
    Priorities,        \* the priorities an administrator gives to bindings
    SuspectAfter,      \* HeartbeatPolicy.suspect_after_missed
    OfflineAfter,      \* HeartbeatPolicy.offline_after_missed
    FailureThreshold,  \* failure_threshold of the policies
    RequireOnline,     \* precheck require_standby_online
    RequirePrewarm,    \* precheck require_config_prewarm
    DnsFailover,       \* whether dns_failover is enabled in the policies
    MaxOutages,        \* bound: nodes going down
    MaxFaults,         \* bound: aborted transactions, crashes, dropped requests
    MaxRequests,       \* bound: administrators' requests
    Rebinding,         \* whether those include bind_site_nodes
    MaxReleases        \* bound: releases of the site told apart

Nodes    == 1..NumNodes
Policies == 1..NumPolicies

ASSUME FailoverAssumption ==
    /\ {NumNodes, NumPolicies, SuspectAfter, OfflineAfter, FailureThreshold,
        MaxOutages, MaxFaults, MaxRequests, MaxReleases} \subseteq Nat
    /\ NumNodes > 1 /\ MaxReleases > 0
    /\ Priorities \subseteq Nat /\ Priorities # {}
    /\ {RequireOnline, RequirePrewarm, DnsFailover, Rebinding} \subseteq BOOLEAN

VARIABLES
    alive,     \* the nodes that are up and heartbeating
    missed,    \* heartbeat intervals since last_seen_at, up to MissedCap
    status,    \* nodes.status
    judged,    \* verdicts the status worker has yet to write, by node
    reported,  \* active_config_version of each node's last heartbeat
    bindings,  \* site_node_bindings of the site, by node
    policy,    \* failover_policies: primary and standby node of each policy
    open,      \* unfinished failover_events of each policy
    releases,  \* number of config_releases of the site
    newest,    \* the newest release with a row for each node
    targets,   \* the nodes of the newest release of scope "site"
    dns,       \* the node the provider's DNS record of the site points at
    todo,      \* snapshots of the eligible policies the failover worker goes through
    step,      \* where the worker is with the oldest of them
    plan,      \* bindings and next standby computed for it
    admin,     \* the administrator's request being handled
    outages, faults, requests  \* counters, bounded

nodeVars   == <<alive, missed, status, judged, reported>>
siteVars   == <<bindings, policy, releases, newest, targets>>
workerVars == <<todo, step, plan>>
counters   == <<outages, faults, requests>>
vars       == <<nodeVars, siteVars, open, dns, workerVars, admin, counters>>

MissedCap  == IF OfflineAfter > FailureThreshold THEN OfflineAfter ELSE FailureThreshold
Versions   == 0..MaxReleases
Statuses   == {"online", "suspect", "offline"}
Unbound    == [role |-> "none", priority |-> 0]
Binding    == [role: {"primary", "standby"}, priority: Nat] \cup {Unbound}
Bindings   == [Nodes -> Binding]
Pair       == {q \in [primary: Nodes, standby: Nodes] : q.primary # q.standby}
Job        == [policy: Policies, primary: Nodes, standby: Nodes]
Plan       == [bindings: Bindings, next: SUBSET Nodes]
AdminStep  == {"idle", "save", "policies", "read", "release", "write"}

NoPlan     == [bindings |-> [n \in Nodes |-> Unbound], next |-> {}]
NoRequest  == [step |-> "idle", bindings |-> [n \in Nodes |-> Unbound],
               target |-> 1, next |-> {}]

TypeOK ==
    /\ alive \in SUBSET Nodes
    /\ missed \in [Nodes -> 0..MissedCap]
    /\ status \in [Nodes -> Statuses]
    /\ DOMAIN judged \subseteq Nodes /\ \A n \in DOMAIN judged : judged[n] \in Statuses
    /\ reported \in [Nodes -> Versions]
    /\ bindings \in Bindings
    /\ policy \in [Policies -> Pair]
    /\ open \in [Policies -> Nat]
    /\ releases \in Versions
    /\ newest \in [Nodes -> Versions]
    /\ targets \in SUBSET Nodes
    /\ dns \in Nodes
    /\ todo \in SUBSET Job
    /\ step \in {"next", "execute", "switched", "failed"}
    /\ plan \in Plan
    /\ admin \in [step: AdminStep, bindings: Bindings, target: Nodes, next: SUBSET Nodes]
    /\ outages \in 0..MaxOutages
    /\ faults \in 0..MaxFaults
    /\ requests \in 0..MaxRequests

\* The release after r; the last MaxReleases are not told apart.
After(r) == IF r < MaxReleases THEN r + 1 ELSE r

Fault == faults < MaxFaults /\ faults' = faults + 1

-----------------------------------------------------------------------------
(***************************************************************************)
(* Bindings.                                                               *)
(***************************************************************************)

Bound(b)     == {n \in Nodes : b[n] # Unbound}
Primaries(b) == {n \in Nodes : b[n].role = "primary"}
Standbys(b)  == {n \in Nodes : b[n].role = "standby"}

\* The order in which bindings are listed: by priority, then node_code.
Before(b, m, n) == \/ b[m].priority < b[n].priority
                   \/ b[m].priority = b[n].priority /\ m <= n

\* The first of the nodes S, as a set of at most one.
First(b, S) == {n \in S : \A m \in S : Before(b, n, m)}

\* current_primary_node_id: the primary of the best priority.
CurrentPrimary(b) == First(b, Primaries(b))

Larger(x, y) == IF x > y THEN x ELSE y

\* Mutant of SwitchedBindings: the old primary is not demoted.
SwitchedUndemoted(b, p, s) ==
    LET top == IF p \in Primaries(b) THEN b[p].priority ELSE 10
    IN  [b EXCEPT ![s] = [role |-> "primary", priority |-> top]]

\* Mutant of SwitchedBindings: a standby that is not bound yet is not added.
SwitchedBoundOnly(b, p, s) ==
    [n \in Nodes |-> IF b[n] = Unbound THEN Unbound
                     ELSE [role |-> IF n = s THEN "primary" ELSE "standby",
                           priority |-> b[n].priority]]

\* build_switched_bindings: the standby s takes the primary's priority and p
\* becomes a standby behind it; either is added if it was not bound.
SwitchedBindings(b, p, s) ==
    LET top  == IF p \in Primaries(b) THEN b[p].priority
                ELSE IF Primaries(b) = {} THEN 10
                ELSE CHOOSE x \in {b[n].priority : n \in Primaries(b)} :
                        \A n \in Primaries(b) : x <= b[n].priority
        prev == IF s \in Bound(b) THEN b[s].priority ELSE top + 10
    IN  [b EXCEPT ![s] = [role |-> "primary", priority |-> top],
                  ![p] = [role |-> "standby", priority |-> Larger(prev, top + 10)]]

\* Mutant of NextStandby: the new primary is not excluded.
NextStandbyAny(b, online, s) == First(b, Bound(b))

\* select_next_policy_standby: online standbys first, then by priority.
NextStandby(b, online, s) ==
    LET others == Standbys(b) \ {s}
        best   == IF others \cap online = {} THEN others ELSE others \cap online
    IN  First(b, best)

\* The bindings switch_site_primary writes: target first, then the previous
\* primary if it is kept, then the others as standbys in their old order.
ManualBindings(b, prev, target, keep) ==
    LET kept    == Bound(b) \ {prev, target}
        rank(n) == Cardinality({m \in kept : Before(b, m, n)})
        base   == IF keep THEN 200 ELSE 100
    IN  [n \in Nodes |->
           IF n = target THEN [role |-> "primary", priority |-> 100]
           ELSE IF n = prev
             THEN IF keep THEN [role |-> "standby", priority |-> 200] ELSE Unbound
           ELSE IF n \in kept
             THEN [role |-> "standby", priority |-> base + 100 * rank(n)]
           ELSE Unbound]

\* What normalize_site_bindings lets through: exactly one primary.
Normalized ==
    {b \in [Nodes -> [role: {"primary", "standby"}, priority: Priorities] \cup {Unbound}] :
        Cardinality(Primaries(b)) = 1}

-----------------------------------------------------------------------------
\* The site has been published to its bindings, every node is up, has applied
\* the release and been seen; each policy names the site's primary.
Init ==
    /\ alive = Nodes
    /\ missed = [n \in Nodes |-> 0]
    /\ status = [n \in Nodes |-> "online"]
    /\ judged = <<>>
    /\ bindings \in Normalized
    /\ policy \in [Policies -> Pair]
    /\ \A p \in Policies : policy[p].primary \in CurrentPrimary(bindings)
    /\ open = [p \in Policies |-> 0]
    /\ releases = 1
    /\ targets = Bound(bindings)
    /\ newest = [n \in Nodes |-> IF n \in targets THEN 1 ELSE 0]
    /\ reported = newest
    /\ dns \in CurrentPrimary(bindings)
    /\ todo = {}
    /\ step = "next"
    /\ plan = NoPlan
    /\ admin = NoRequest
    /\ outages = 0
    /\ faults = 0
    /\ requests = 0

-----------------------------------------------------------------------------
(***************************************************************************)
(* The nodes and the status worker.                                        *)
(***************************************************************************)

\* node_heartbeat of an agent that holds version v: the release it reported
\* before, or the newest one for it.
Heartbeat(n, v) ==
    /\ n \in alive
    /\ v \in {reported[n], newest[n]}
    /\ missed' = [missed EXCEPT ![n] = 0]
    /\ status' = [status EXCEPT ![n] = "online"]
    /\ reported' = [reported EXCEPT ![n] = v]
    /\ UNCHANGED <<alive, judged, siteVars, open, dns, workerVars, admin, counters>>

Outage(n) ==
    /\ n \in alive
    /\ outages < MaxOutages
    /\ alive' = alive \ {n}
    /\ outages' = outages + 1
    /\ UNCHANGED <<missed, status, judged, reported, siteVars, open, dns, workerVars,
                   admin, faults, requests>>

Recover(n) ==
    /\ n \notin alive
    /\ alive' = alive \cup {n}
    /\ UNCHANGED <<missed, status, judged, reported, siteVars, open, dns, workerVars,
                   admin, counters>>

\* A heartbeat interval passes, in which every node that is up is on time.
Tick ==
    /\ missed' = [n \in Nodes |-> IF n \in alive \/ missed[n] = MissedCap
                                  THEN missed[n] ELSE missed[n] + 1]
    /\ UNCHANGED <<alive, status, judged, reported, siteVars, open, dns, workerVars,
                   admin, counters>>

\* Mutant of EvaluateStatus: the weaker test comes first and hides the other.
EvaluateStatusShadowed(m) ==
    IF m >= SuspectAfter THEN "suspect"
    ELSE IF m >= OfflineAfter THEN "offline" ELSE "online"

\* NodeLifecycleService::evaluate_status.
EvaluateStatus(m) ==
    IF m >= OfflineAfter THEN "offline"
    ELSE IF m >= SuspectAfter THEN "suspect" ELSE "online"

\* reconcile_node_statuses reads all nodes and judges them at once ...
StatusScan ==
    LET stale == {n \in Nodes : EvaluateStatus(missed[n]) # status[n]}
    IN  /\ judged = <<>>
        /\ judged' = [n \in stale |-> EvaluateStatus(missed[n])]
        /\ UNCHANGED <<alive, missed, status, reported, siteVars, open, dns, workerVars,
                       admin, counters>>

\* ... then writes its verdicts one node at a time, whatever happened since.
StatusWrite(n) ==
    /\ n \in DOMAIN judged
    /\ \A m \in DOMAIN judged : n <= m
    /\ status' = [status EXCEPT ![n] = judged[n]]
    /\ judged' = [m \in DOMAIN judged \ {n} |-> judged[m]]
    /\ UNCHANGED <<alive, missed, reported, siteVars, open, dns, workerVars, admin,
                   counters>>

-----------------------------------------------------------------------------
(***************************************************************************)
(* The failover worker.                                                    *)
(***************************************************************************)

\* evaluate_policy on the snapshot of a policy.
Eligible(j) ==
    /\ RequireOnline => status[j.standby] = "online"
    /\ RequirePrewarm => /\ reported[j.standby] # 0
                         /\ reported[j.standby] = reported[j.primary]
    /\ \/ status[j.primary] = "offline"
       \/ missed[j.primary] >= Larger(FailureThreshold, 1)

Snapshot(p) == [policy |-> p, primary |-> policy[p].primary,
                standby |-> policy[p].standby]

\* A cycle begins: every policy is read and judged before any is acted on.
LoadPolicies ==
    /\ todo = {}
    /\ todo' = {j \in {Snapshot(p) : p \in Policies} : Eligible(j)}
    /\ UNCHANGED <<nodeVars, siteVars, open, dns, step, plan, admin, counters>>

\* The policies are gone through in the order they were created.
job  == CHOOSE j \in todo : \A k \in todo : j.policy <= k.policy
rest == todo \ {job}

\* trigger_policy_failover finds an open event, or the standby in charge.
Skip ==
    /\ todo # {} /\ step = "next"
    /\ open[job.policy] > 0 \/ job.standby \in CurrentPrimary(bindings)
    /\ todo' = rest
    /\ UNCHANGED <<nodeVars, siteVars, open, dns, step, plan, admin, counters>>

\* It reads the site and records the event.  What it will write is settled by
\* what it reads here; a policy node the site does not bind counts as down.
CreateEvent ==
    LET switched == SwitchedBindings(bindings, job.primary, job.standby)
        online   == {n \in Bound(bindings) : status[n] = "online"}
    IN  /\ todo # {} /\ step = "next"
        /\ open[job.policy] = 0
        /\ job.standby \notin CurrentPrimary(bindings)
        /\ open' = [open EXCEPT ![job.policy] = @ + 1]
        /\ plan' = [bindings |-> switched,
                    next |-> NextStandby(switched, online, job.standby)]
        /\ step' = "execute"
        /\ UNCHANGED <<nodeVars, siteVars, dns, todo, admin, counters>>

\* Mutant of PointDns: the provider is not told.
PointDnsNever == UNCHANGED dns

\* apply_dns_failover: the provider is told to point at the standby.
PointDns == dns' = IF DnsFailover THEN job.standby ELSE dns

\* Mutant of AdvancePolicy: the policy keeps the old primary.
AdvanceStandbyOnly == IF plan.next \subseteq {job.primary} THEN policy[job.policy]
                      ELSE [primary |-> job.primary,
                            standby |-> CHOOSE n \in plan.next : TRUE]

\* Mutant of AdvancePolicy: the policy is not advanced.
AdvanceNothing == policy[job.policy]

\* advance_failover_policy: the standby becomes the policy's primary, unless
\* no standby is left to go with it.
AdvancePolicy == IF plan.next = {} THEN policy[job.policy]
                 ELSE [primary |-> job.standby,
                       standby |-> CHOOSE n \in plan.next : TRUE]

\* execute_site_failover commits: bindings, policy, a release for every bound
\* node and, before the commit, the DNS record.  The audit row and the
\* post-switch operations of the same transaction are not looked at here.
Execute ==
    /\ todo # {} /\ step = "execute"
    /\ bindings' = plan.bindings
    /\ policy' = [policy EXCEPT ![job.policy] = AdvancePolicy]
    /\ releases' = After(releases)
    /\ newest' = [n \in Nodes |-> IF n \in Bound(plan.bindings)
                                  THEN releases' ELSE newest[n]]
    /\ targets' = Bound(plan.bindings)
    /\ PointDns
    /\ step' = "switched"
    /\ plan' = NoPlan
    /\ UNCHANGED <<nodeVars, open, todo, admin, counters>>

\* The transaction fails and is rolled back, after the provider was told or
\* before.
Abort ==
    /\ todo # {} /\ step = "execute"
    /\ UNCHANGED dns \/ PointDns
    /\ step' = "failed"
    /\ plan' = NoPlan
    /\ Fault
    /\ UNCHANGED <<nodeVars, siteVars, open, todo, admin, outages, requests>>

\* Mutant of Finish: the event is never closed.
FinishUnclosed ==
    /\ todo # {} /\ step \in {"switched", "failed"}
    /\ todo' = rest
    /\ step' = "next"
    /\ UNCHANGED <<nodeVars, siteVars, open, dns, plan, admin, counters>>

\* finish_failover_event.
Finish ==
    /\ todo # {} /\ step \in {"switched", "failed"}
    /\ open' = [open EXCEPT ![job.policy] = @ - 1]
    /\ todo' = rest
    /\ step' = "next"
    /\ UNCHANGED <<nodeVars, siteVars, dns, plan, admin, counters>>

\* The worker is killed and restarted (inside the transaction the provider
\* may have been told), or only finish_failover_event fails and it goes on
\* with the next policy.
Interrupt ==
    /\ todo # {}
    /\ \/ todo' = {} /\ (UNCHANGED dns \/ (step = "execute" /\ PointDns))
       \/ step \in {"switched", "failed"} /\ todo' = rest /\ UNCHANGED dns
    /\ step' = "next"
    /\ plan' = NoPlan
    /\ Fault
    /\ UNCHANGED <<nodeVars, siteVars, open, admin, outages, requests>>

-----------------------------------------------------------------------------
(***************************************************************************)
(* The administrator's requests, one at a time.                            *)
(***************************************************************************)

NewRequest ==
    /\ admin.step = "idle"
    /\ requests < MaxRequests
    /\ requests' = requests + 1

\* bind_site_nodes replaces the bindings; policies are left alone.
BindSiteNodes(b) ==
    /\ NewRequest
    /\ Rebinding
    /\ bindings' = b
    /\ UNCHANGED <<nodeVars, policy, releases, newest, targets, open, dns, workerVars,
                   admin, outages, faults>>

\* switch_site_primary reads the site and works out its new bindings ...
SwitchSitePrimary(target, keep) ==
    /\ NewRequest
    /\ \E prev \in First(bindings, IF Primaries(bindings) = {} THEN Bound(bindings)
                                   ELSE Primaries(bindings)) :
        LET b == ManualBindings(bindings, prev, target, keep)
        IN  /\ target # prev
            /\ admin' = [step |-> "save", bindings |-> b, target |-> target,
                         next |-> First(b, Standbys(b) \ {target})]
    /\ UNCHANGED <<nodeVars, siteVars, open, dns, workerVars, outages, faults>>

\* ... saves them, ...
SwitchSave ==
    /\ admin.step = "save"
    /\ bindings' = admin.bindings
    /\ admin' = [admin EXCEPT !.step = "policies"]
    /\ UNCHANGED <<nodeVars, policy, releases, newest, targets, open, dns, workerVars,
                   counters>>

\* ... points every active policy of the site at the new pair, and publishes.
SwitchPolicies ==
    /\ admin.step = "policies"
    /\ policy' = [p \in Policies |->
                    IF admin.next = {} THEN policy[p]
                    ELSE [primary |-> admin.target,
                          standby |-> CHOOSE n \in admin.next : TRUE]]
    /\ admin' = [NoRequest EXCEPT !.step = "read"]
    /\ UNCHANGED <<nodeVars, bindings, releases, newest, targets, open, dns,
                   workerVars, counters>>

CreateRelease ==
    /\ NewRequest
    /\ admin' = [admin EXCEPT !.step = "read"]
    /\ UNCHANGED <<nodeVars, siteVars, open, dns, workerVars, outages, faults>>

\* create_release reads the site ...
ReleaseRead ==
    /\ admin.step = "read"
    /\ admin' = [admin EXCEPT !.step = "release", !.bindings = bindings]
    /\ UNCHANGED <<nodeVars, siteVars, open, dns, workerVars, counters>>

\* ... releases it to its nodes, with a cleanup release for the nodes of the
\* last release that it no longer binds (two commits, which SitePublishing tells
\* apart), ...
ReleaseSave ==
    LET bound    == Bound(admin.bindings)
        detached == targets \ bound
        last     == IF detached = {} THEN After(releases) ELSE After(After(releases))
    IN  /\ admin.step = "release"
        /\ releases' = last
        /\ newest' = [n \in Nodes |-> IF n \in bound THEN After(releases)
                                      ELSE IF n \in detached THEN last ELSE newest[n]]
        /\ targets' = bound
        /\ admin' = [admin EXCEPT !.step = "write"]
        /\ UNCHANGED <<nodeVars, bindings, policy, open, dns, workerVars, counters>>

\* ... and saves the whole site, the bindings it read included.
ReleaseWrite ==
    /\ admin.step = "write"
    /\ bindings' = admin.bindings
    /\ admin' = NoRequest
    /\ UNCHANGED <<nodeVars, policy, releases, newest, targets, open, dns, workerVars,
                   counters>>

\* A statement of the request fails and the rest of it is not done.
RequestFails ==
    /\ admin.step # "idle"
    /\ admin' = NoRequest
    /\ Fault
    /\ UNCHANGED <<nodeVars, siteVars, open, dns, workerVars, outages, requests>>

-----------------------------------------------------------------------------
StatusWorker == StatusScan \/ \E n \in Nodes : StatusWrite(n)
Worker       == LoadPolicies \/ Skip \/ CreateEvent \/ Execute \/ Finish
Request      == SwitchSave \/ SwitchPolicies \/ ReleaseRead \/ ReleaseSave \/ ReleaseWrite

Next ==
    \/ \E n \in Nodes : \/ \E v \in Versions : Heartbeat(n, v)
                        \/ Outage(n)
                        \/ Recover(n)
    \/ Tick \/ StatusWorker
    \/ Worker \/ Abort \/ Interrupt
    \/ \E b \in Normalized : BindSiteNodes(b)
    \/ \E target \in Nodes, keep \in BOOLEAN : SwitchSitePrimary(target, keep)
    \/ CreateRelease \/ Request \/ RequestFails

Spec == Init /\ [][Next]_vars

\* Time passes, nodes that are up heartbeat and apply what they are sent, both
\* workers keep cycling (systemd restarts them), accepted requests are
\* carried through.  Nodes need not recover and administrators need not act.
Fairness == /\ WF_vars(Tick)
            /\ \A n \in Nodes : WF_vars(Heartbeat(n, newest[n]))
            /\ WF_vars(StatusWorker)
            /\ WF_vars(Worker)
            /\ WF_vars(Request)

FairSpec == Spec /\ Fairness

-----------------------------------------------------------------------------
(***************************************************************************)
(* Properties.                                                             *)
(***************************************************************************)

\* The site has exactly one primary binding, which is what
\* normalize_site_bindings demands of every binding request.
OnePrimary == Cardinality(Primaries(bindings)) = 1

\* Whatever the worker and the administrators overwrite of each other's, the
\* site is never left without a primary (build_switched_bindings,
\* switch_site_primary, create_release).
SomePrimary == Primaries(bindings) # {}

\* Every policy keeps watching the node that is really in charge of the site,
\* through switches, aborted switches and crashes (advance_failover_policy is
\* in the transaction of the switch).
PolicyWatchesPrimary ==
    \A p \in Policies : CurrentPrimary(bindings) = {policy[p].primary}

\* Even when a switch aborts after the provider was told, DNS points at the
\* primary or at the node some policy would switch to next, never at a third.
DnsAtPair == dns \in CurrentPrimary(bindings) \cup {policy[p].standby : p \in Policies}

\* A switch always takes the site away from the very node whose failure
\* triggered it: the same failure never switches the site twice.
NoRepeatedSwitch == [][Execute => CurrentPrimary(bindings) = {job.primary}]_vars

\* A site whose primary stays down while every other node stays up - and, if
\* the policies ask for it, holds the newest release - is moved away from it.
Stranded  == /\ \E n \in CurrentPrimary(bindings) : alive = Nodes \ {n}
             /\ RequirePrewarm => \A n \in alive : reported[n] = releases
FailsOver == []<>~Stranded

\* Stale verdicts of the status worker are repaired: in the end every node
\* that is up is online, and every node that is down is offline.
StatusSettles ==
    \A n \in Nodes :
        <>[](status[n] = IF n \in alive THEN "online" ELSE "offline")
=============================================================================
