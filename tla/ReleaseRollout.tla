--------------------------- MODULE ReleaseRollout ---------------------------
(***************************************************************************)
(* Delivery of configuration releases: the hub's release store and ack     *)
(* handler (apps/hub-api/src/service.rs, store.rs over PostgreSQL) and the *)
(* release half of every node's agent loop (apps/node-agent/src/main.rs).  *)
(*                                                                         *)
(* Releases are numbered in the order of their created_at column, and a    *)
(* release's number stands for its id and its version string, which are    *)
(* both unique.  0 stands for "no release".                                *)
(*                                                                         *)
(* A request of an agent can be lost, its answer can be lost, and the      *)
(* handler of a request whose client gave up (20 s timeout) may still be   *)
(* running: it is then an orphan that can write later.  Agents crash at    *)
(* any point and restart from state.json.                                  *)
(***************************************************************************)
EXTENDS Naturals, Sequences

CONSTANTS
    Nodes,        \* the registered nodes, each with its agent
    Sites,        \* the sites releases are about
    MaxReleases,  \* bound: releases created
    MaxFaults,    \* bound: lost messages, failed applies and crashes
    MaxOrphans,   \* bound: handlers that outlive their client
    TornWrites    \* whether a crash may cut a write of state.json short

ASSUME RolloutAssumption ==
    /\ MaxReleases \in Nat
    /\ MaxFaults \in Nat
    /\ MaxOrphans \in Nat
    /\ TornWrites \in BOOLEAN

VARIABLES
    releases,  \* config_releases: sequence of [site, targets], by created_at
    ack,       \* node_release_status.apply_status of (release, node)
    stored,    \* config_releases.status of each release
    seen,      \* active_config_version of each node's last heartbeat
    pc,        \* where each agent is in its loop
    target,    \* the release sync_latest_release is working on
    mem,       \* LocalAgentState in memory: current and acknowledged release
    disk,      \* state.json: the persisted LocalAgentState
    torn,      \* nodes whose state.json was cut short and cannot be parsed
    files,     \* current-release-version and the three other current-* files
    running,   \* the release the node's proxy was last reloaded with
    passed,    \* history: releases whose apply and health check succeeded
    req,       \* the ack request an agent is waiting for, as its handler
    orphan,    \* handlers still running although their client gave up
    faults,    \* number of faults so far
    orphans    \* number of handlers that outlived their client so far

hubVars   == <<releases, ack, stored, seen>>
agentVars == <<pc, target, mem, disk, torn, files, running, passed>>
netVars   == <<req, orphan, faults, orphans>>
vars      == <<hubVars, agentVars, netVars>>

Ids         == 1..MaxReleases
NoRelease   == 0
IdsOrNone   == 0..MaxReleases
ApplyStatus == {"none", "pending", "downloading", "applying", "success", "failed"}
Reported    == {"downloading", "applying", "success", "failed"}
Aggregate   == {"pending", "publishing", "success", "failed"}

\* Where the handler of an ack request is: about to update the ack row, to
\* read the acks back, to write the aggregate; "replied" once it is done.
HandlerStep == {"row", "read", "write", "replied"}
Handler     == [rel: Ids, status: Reported, step: HandlerStep, agg: Aggregate]
NoHandler   == [step |-> "idle"]

Waiting == {"downloading", "applying", "failing", "acking", "confirming"}
PC      == Waiting \cup {"down", "heartbeat", "poll", "fetch", "command",
                         "health", "activate", "content"}
LocalState == [current: IdsOrNone, acked: IdsOrNone]

TypeOK ==
    /\ releases \in Seq([site: Sites, targets: SUBSET Nodes])
    /\ Len(releases) <= MaxReleases
    /\ ack \in [Ids -> [Nodes -> ApplyStatus]]
    /\ stored \in [Ids -> Aggregate]
    /\ seen \in [Nodes -> IdsOrNone]
    /\ pc \in [Nodes -> PC]
    /\ target \in [Nodes -> IdsOrNone]
    /\ mem \in [Nodes -> LocalState]
    /\ disk \in [Nodes -> LocalState]
    /\ torn \in SUBSET Nodes
    /\ files \in [Nodes -> [version: IdsOrNone, content: IdsOrNone]]
    /\ running \in [Nodes -> IdsOrNone]
    /\ passed \in [Nodes -> SUBSET Ids]
    /\ req \in [Nodes -> Handler \cup {NoHandler}]
    /\ orphan \in [Nodes -> Handler \cup {NoHandler}]
    /\ faults \in 0..MaxFaults
    /\ orphans \in 0..MaxOrphans

Fresh == [current |-> NoRelease, acked |-> NoRelease]

Init ==
    /\ releases = <<>>
    /\ ack = [r \in Ids |-> [n \in Nodes |-> "none"]]
    /\ stored = [r \in Ids |-> "pending"]
    /\ seen = [n \in Nodes |-> NoRelease]
    /\ pc = [n \in Nodes |-> "down"]
    /\ target = [n \in Nodes |-> NoRelease]
    /\ mem = [n \in Nodes |-> Fresh]
    /\ disk = [n \in Nodes |-> Fresh]
    /\ torn = {}
    /\ files = [n \in Nodes |-> [version |-> NoRelease, content |-> NoRelease]]
    /\ running = [n \in Nodes |-> NoRelease]
    /\ passed = [n \in Nodes |-> {}]
    /\ req = [n \in Nodes |-> NoHandler]
    /\ orphan = [n \in Nodes |-> NoHandler]
    /\ faults = 0
    /\ orphans = 0

Fault == faults < MaxFaults /\ faults' = faults + 1

-----------------------------------------------------------------------------
(***************************************************************************)
(* The hub.                                                                *)
(***************************************************************************)

\* Mutant of AggregateStatus: the name the API design gives the state.
AggregateInProgress(acks) ==
    LET rows == {acks[n] : n \in {m \in Nodes : acks[m] # "none"}}
    IN  IF rows = {} THEN "pending"
        ELSE IF "failed" \in rows THEN "failed"
        ELSE IF rows = {"success"} THEN "success"
        ELSE IF rows \cap {"downloading", "applying"} # {} THEN "in_progress"
        ELSE "pending"

\* aggregate_release_status over the ack rows of one release.
AggregateStatus(acks) ==
    LET rows == {acks[n] : n \in {m \in Nodes : acks[m] # "none"}}
    IN  IF rows = {} THEN "pending"
        ELSE IF "failed" \in rows THEN "failed"
        ELSE IF rows = {"success"} THEN "success"
        ELSE IF rows \cap {"downloading", "applying"} # {} THEN "publishing"
        ELSE "pending"

\* What list_releases shows: recomputed from the rows, never read from the
\* stored column.
Overview(r) == AggregateStatus(ack[r])

\* The releases that have a node_release_status row for n.
Targeting(n) == {r \in 1..Len(releases) : n \in releases[r].targets}

\* Mutant of LatestRelease: the newest release without a success is served.
LatestUnacked(n) ==
    LET open == {r \in Targeting(n) : ack[r][n] # "success"}
        from == IF open = {} THEN Targeting(n) ELSE open
    IN  {r \in from : \A q \in from : q <= r}

\* latest_release_id_for_node: the newest release of any site with a row for
\* n, as a set of at most one.
LatestRelease(n) == {r \in Targeting(n) : \A q \in Targeting(n) : q <= r}

\* A release of site s is stored with one pending row per target node, in one
\* transaction.  Which nodes are targeted is decided elsewhere.
Publish(s, T) ==
    LET r == Len(releases) + 1
    IN  /\ r <= MaxReleases
        /\ T # {}
        /\ releases' = Append(releases, [site |-> s, targets |-> T])
        /\ ack' = [ack EXCEPT ![r] =
                     [n \in Nodes |-> IF n \in T THEN "pending" ELSE "none"]]
        /\ stored' = [stored EXCEPT ![r] = "pending"]
        /\ UNCHANGED <<seen, agentVars, netVars>>

\* The three database steps of update_release_ack for a handler h; each is a
\* statement of its own, outside any transaction.
HandleRow(n, h) ==
    /\ h.step = "row"
    /\ ack' = [ack EXCEPT ![h.rel][n] = h.status]
    /\ UNCHANGED stored

HandleRead(h) ==
    /\ h.step = "read"
    /\ UNCHANGED <<ack, stored>>

HandleWrite(h) ==
    /\ h.step = "write"
    /\ stored' = [stored EXCEPT ![h.rel] = h.agg]
    /\ UNCHANGED ack

Advanced(h) ==
    CASE h.step = "row"   -> [h EXCEPT !.step = "read"]
      [] h.step = "read"  -> [h EXCEPT !.step = "write",
                                       !.agg = AggregateStatus(ack[h.rel])]
      [] h.step = "write" -> [h EXCEPT !.step = "replied"]

Handle(n, h) == HandleRow(n, h) \/ HandleRead(h) \/ HandleWrite(h)

\* A handler whose client still waits makes its next step.
HubStep(n) ==
    /\ req[n] # NoHandler
    /\ Handle(n, req[n])
    /\ req' = [req EXCEPT ![n] = Advanced(req[n])]
    /\ UNCHANGED <<releases, seen, agentVars, orphan, faults, orphans>>

\* A handler whose client gave up makes its next step; nobody reads its answer.
OrphanStep(n) ==
    /\ orphan[n] # NoHandler
    /\ Handle(n, orphan[n])
    /\ orphan' = [orphan EXCEPT ![n] =
                    IF @.step = "write" THEN NoHandler ELSE Advanced(@)]
    /\ UNCHANGED <<releases, seen, agentVars, req, faults, orphans>>

-----------------------------------------------------------------------------
(***************************************************************************)
(* A node's agent.                                                         *)
(***************************************************************************)

Goto(n, l) == pc' = [pc EXCEPT ![n] = l]

\* report_release_status: post an ack and wait for the answer at l.
Report(n, r, status, l) ==
    /\ req' = [req EXCEPT ![n] = [rel |-> r, status |-> status,
                                  step |-> "row", agg |-> "pending"]]
    /\ Goto(n, l)
    /\ UNCHANGED <<orphan, faults, orphans>>

\* The answer to the request the agent waits for at l has arrived.
Answered(n, l) ==
    /\ pc[n] = l
    /\ req[n] # NoHandler
    /\ req[n].step = "replied"
    /\ req' = [req EXCEPT ![n] = NoHandler]
    /\ UNCHANGED <<orphan, faults, orphans>>

\* The process starts and loads state.json, which must parse.
Start(n) ==
    /\ pc[n] = "down"
    /\ n \notin torn
    /\ Goto(n, "heartbeat")
    /\ mem' = [mem EXCEPT ![n] = disk[n]]
    /\ target' = [target EXCEPT ![n] = NoRelease]
    /\ UNCHANGED <<disk, torn, files, running, passed, hubVars, netVars>>

\* One heartbeat is answered; the agent then persists its state.  A heartbeat
\* that fails ends the process: Crash.
Heartbeat(n) ==
    /\ pc[n] = "heartbeat"
    /\ seen' = [seen EXCEPT ![n] = mem[n].current]
    /\ disk' = [disk EXCEPT ![n] = mem[n]]
    /\ Goto(n, "poll")
    /\ UNCHANGED <<releases, ack, stored, target, mem, torn, files, running,
                   passed, netVars>>

\* sync_latest_release asks for the newest release: download it, confirm it,
\* or do nothing until the next heartbeat.
PollDownload(n) ==
    /\ pc[n] = "poll"
    /\ \E r \in LatestRelease(n) :
        /\ mem[n].current # r
        /\ target' = [target EXCEPT ![n] = r]
        /\ Report(n, r, "downloading", "downloading")
    /\ UNCHANGED <<mem, disk, torn, files, running, passed, hubVars>>

\* Mutant of PollConfirm: the version the agent holds is not compared.
PollConfirmUnchecked(n) ==
    /\ pc[n] = "poll"
    /\ \E r \in LatestRelease(n) :
        /\ mem[n].acked # r
        /\ target' = [target EXCEPT ![n] = r]
        /\ Report(n, r, "success", "confirming")
    /\ UNCHANGED <<mem, disk, torn, files, running, passed, hubVars>>

\* Mutant of PollConfirm: a release that is in force is never confirmed.
PollConfirmSkipped(n) ==
    /\ pc[n] = "poll"
    /\ \E r \in LatestRelease(n) : mem[n].current = r /\ mem[n].acked # r
    /\ Goto(n, "heartbeat")
    /\ UNCHANGED <<target, mem, disk, torn, files, running, passed, hubVars,
                   netVars>>

PollConfirm(n) ==
    /\ pc[n] = "poll"
    /\ \E r \in LatestRelease(n) :
        /\ mem[n].current = r
        /\ mem[n].acked # r
        /\ target' = [target EXCEPT ![n] = r]
        /\ Report(n, r, "success", "confirming")
    /\ UNCHANGED <<mem, disk, torn, files, running, passed, hubVars>>

PollIdle(n) ==
    /\ pc[n] = "poll"
    /\ LatestRelease(n) \subseteq {mem[n].current} \cap {mem[n].acked}
    /\ Goto(n, "heartbeat")
    /\ UNCHANGED <<target, mem, disk, torn, files, running, passed, hubVars,
                   netVars>>

Downloading(n) ==
    /\ Answered(n, "downloading")
    /\ Goto(n, "fetch")
    /\ UNCHANGED <<target, mem, disk, torn, files, running, passed, hubVars>>

\* The package is fetched by version, staged under releases/, and reported.
Fetch(n) ==
    /\ pc[n] = "fetch"
    /\ Report(n, target[n], "applying", "applying")
    /\ UNCHANGED <<target, mem, disk, torn, files, running, passed, hubVars>>

Applying(n) ==
    /\ Answered(n, "applying")
    /\ Goto(n, "command")
    /\ UNCHANGED <<target, mem, disk, torn, files, running, passed, hubVars>>

\* The operator's apply command reloads the proxy with the staged release.
ApplyCommand(n) ==
    /\ pc[n] = "command"
    /\ running' = [running EXCEPT ![n] = target[n]]
    /\ Goto(n, "health")
    /\ UNCHANGED <<target, mem, disk, torn, files, passed, hubVars, netVars>>

\* The apply command fails or times out, whether or not it got as far as
\* reloading the proxy; or the health check never passes.  Either way the
\* release is reported failed.
ApplyFails(n) ==
    /\ pc[n] \in {"command", "health"}
    /\ running' \in {running, [running EXCEPT ![n] = target[n]]}
    /\ Goto(n, "failing")
    /\ req' = [req EXCEPT ![n] = [rel |-> target[n], status |-> "failed",
                                  step |-> "row", agg |-> "pending"]]
    /\ Fault
    /\ UNCHANGED <<orphan, orphans, target, mem, disk, torn, files, passed, hubVars>>

Failing(n) ==
    /\ Answered(n, "failing")
    /\ Goto(n, "heartbeat")
    /\ UNCHANGED <<target, mem, disk, torn, files, running, passed, hubVars>>

HealthCheck(n) ==
    /\ pc[n] = "health"
    /\ passed' = [passed EXCEPT ![n] = @ \cup {target[n]}]
    /\ Goto(n, "activate")
    /\ UNCHANGED <<target, mem, disk, torn, files, running, hubVars, netVars>>

\* Mutant of ActivateVersion: the state names the release before its files.
ActivateStateFirst(n) ==
    /\ pc[n] = "activate"
    /\ files' = [files EXCEPT ![n].version = target[n]]
    /\ mem' = [mem EXCEPT ![n].current = target[n]]
    /\ Goto(n, "content")
    /\ UNCHANGED <<target, disk, torn, running, passed, hubVars, netVars>>

\* activate_release_artifacts writes the version file first, then the three
\* content files.
ActivateVersion(n) ==
    /\ pc[n] = "activate"
    /\ files' = [files EXCEPT ![n].version = target[n]]
    /\ Goto(n, "content")
    /\ UNCHANGED <<target, mem, disk, torn, running, passed, hubVars, netVars>>

\* The content files are written, the in-memory state is set and the release
\* is acknowledged, all before anything is persisted.
ActivateContent(n) ==
    /\ pc[n] = "content"
    /\ files' = [files EXCEPT ![n].content = target[n]]
    /\ mem' = [mem EXCEPT ![n].current = target[n]]
    /\ Report(n, target[n], "success", "acking")
    /\ UNCHANGED <<target, disk, torn, running, passed, hubVars>>

\* Mutant of Acknowledged: the result of the ack request is ignored.
AcknowledgedUnanswered(n) ==
    /\ pc[n] \in {"acking", "confirming"}
    /\ req' = [req EXCEPT ![n] = NoHandler]
    /\ mem' = [mem EXCEPT ![n].acked = target[n]]
    /\ disk' = [disk EXCEPT ![n] = mem'[n]]
    /\ Goto(n, "heartbeat")
    /\ UNCHANGED <<orphan, faults, orphans, target, torn, files, running, passed,
                   hubVars>>

\* The success ack is answered: remember it and persist the state.
Acknowledged(n) ==
    /\ \E l \in {"acking", "confirming"} : Answered(n, l)
    /\ mem' = [mem EXCEPT ![n].acked = target[n]]
    /\ disk' = [disk EXCEPT ![n] = mem'[n]]
    /\ Goto(n, "heartbeat")
    /\ UNCHANGED <<target, torn, files, running, passed, hubVars>>

-----------------------------------------------------------------------------
(***************************************************************************)
(* Faults.                                                                 *)
(***************************************************************************)

\* What becomes of the handler of a request nobody waits for any more: it is
\* dropped where it is, or it goes on as an orphan.
Abandon(n) ==
    \/ UNCHANGED <<orphan, orphans>>
    \/ /\ req[n] # NoHandler
       /\ req[n].step # "replied"
       /\ orphan[n] = NoHandler
       /\ orphans < MaxOrphans
       /\ orphan' = [orphan EXCEPT ![n] = req[n]]
       /\ orphans' = orphans + 1

\* A poll, a download or an ack gets no usable answer.  The agent warns and
\* goes round its loop, or, told that its token is stale, polls again at once.
RequestFails(n) ==
    /\ pc[n] \in Waiting \cup {"poll", "fetch"}
    /\ \/ Goto(n, "heartbeat")
       \/ pc[n] # "failing" /\ Goto(n, "poll")
    /\ Fault
    /\ Abandon(n)
    /\ req' = [req EXCEPT ![n] = NoHandler]
    /\ UNCHANGED <<target, mem, disk, torn, files, running, passed, hubVars>>

\* A current-* file cannot be written: sync_latest_release returns early.
ActivateFails(n) ==
    /\ pc[n] \in {"activate", "content"}
    /\ Goto(n, "heartbeat")
    /\ Fault
    /\ UNCHANGED <<req, orphan, orphans, target, mem, disk, torn, files,
                   running, passed, hubVars>>

\* The success ack was answered but state.json cannot be written: the agent
\* goes on with what it holds in memory.
PersistFails(n) ==
    /\ pc[n] \in {"acking", "confirming"}
    /\ req[n] # NoHandler
    /\ req[n].step = "replied"
    /\ req' = [req EXCEPT ![n] = NoHandler]
    /\ mem' = [mem EXCEPT ![n].acked = target[n]]
    /\ Goto(n, "heartbeat")
    /\ Fault
    /\ UNCHANGED <<orphan, orphans, target, disk, torn, files, running, passed,
                   hubVars>>

\* The process is killed inside the write of state.json that follows every
\* heartbeat, which replaces the file in place: what is left does not parse.
\* The write after an ack can be cut short in the same way.
TornPersist(n) ==
    /\ TornWrites
    /\ pc[n] = "heartbeat"
    /\ seen' = [seen EXCEPT ![n] = mem[n].current]
    /\ torn' = torn \cup {n}
    /\ Goto(n, "down")
    /\ Fault
    /\ UNCHANGED <<releases, ack, stored, req, orphan, orphans, target, mem,
                   disk, files, running, passed>>

\* The agent process ends: a crash, a failed heartbeat or a failed persist.
Crash(n) ==
    /\ pc[n] # "down"
    /\ Goto(n, "down")
    /\ Fault
    /\ Abandon(n)
    /\ req' = [req EXCEPT ![n] = NoHandler]
    /\ UNCHANGED <<target, mem, disk, torn, files, running, passed, hubVars>>

-----------------------------------------------------------------------------
AgentStep(n) ==
    \/ Start(n) \/ Heartbeat(n) \/ PollDownload(n) \/ PollConfirm(n)
    \/ PollIdle(n) \/ Downloading(n) \/ Fetch(n) \/ Applying(n)
    \/ ApplyCommand(n) \/ Failing(n) \/ HealthCheck(n) \/ ActivateVersion(n)
    \/ ActivateContent(n) \/ Acknowledged(n)

Environment(n) ==
    \/ ApplyFails(n) \/ RequestFails(n) \/ ActivateFails(n)
    \/ PersistFails(n) \/ TornPersist(n) \/ Crash(n)

Next ==
    \/ \E s \in Sites, T \in SUBSET Nodes : Publish(s, T)
    \/ \E n \in Nodes : AgentStep(n) \/ HubStep(n) \/ OrphanStep(n)
                        \/ Environment(n)

Spec == Init /\ [][Next]_vars

\* An agent that can go on does (systemd restarts it, every wait has a
\* timeout), and so does a request handler.  Administrators and faults need
\* never act.
Fairness == \A n \in Nodes : /\ WF_vars(AgentStep(n))
                             /\ WF_vars(HubStep(n))
                             /\ WF_vars(OrphanStep(n))

FairSpec == Spec /\ Fairness

-----------------------------------------------------------------------------
(***************************************************************************)
(* Properties.                                                             *)
(***************************************************************************)

\* A release counts as successful on a node - in its ack row, in the release
\* overview, in the stored status that concurrent acks race to write, and as
\* the version a heartbeat reports in force - only if the apply command and
\* the health check of that release have succeeded on that node
\* (sync_latest_release, update_release_ack, aggregate_release_status).
RowSound      == \A r \in Ids, n \in Nodes :
                    ack[r][n] = "success" => r \in passed[n]
OverviewSound == \A r \in 1..Len(releases) : Overview(r) = "success" =>
                    \A n \in releases[r].targets : r \in passed[n]
StoredSound   == \A r \in 1..Len(releases) : stored[r] = "success" =>
                    \A n \in releases[r].targets : r \in passed[n]
SeenSound     == \A n \in Nodes : seen[n] \in passed[n] \cup {NoRelease}
SuccessMeansPassed == RowSound /\ OverviewSound /\ StoredSound /\ SeenSound

\* What the agent believes is in force is backed by the current-* files:
\* neither its memory nor state.json ever names a release newer than the last
\* one whose content files were all written (activate_release_artifacts runs
\* before the state is set), across crashes and failed writes.
StateBackedByFiles ==
    \A n \in Nodes :
        /\ mem[n].current <= files[n].content
        /\ disk[n].current <= files[n].content
        /\ files[n].content <= files[n].version

\* Neither the proxy nor the persisted state ever goes back to an older
\* release, whatever is lost, retried or restarted.
NoDowngrade ==
    [][\A n \in Nodes : /\ running[n] <= running'[n]
                        /\ disk[n].current <= disk'[n].current]_vars

\* Once an agent holds a release as acknowledged it stops reporting on it, so
\* the hub must be showing it as successful, and stay so.
AckedMeansRecorded ==
    \A n \in Nodes : mem[n].acked # NoRelease => ack[mem[n].acked][n] = "success"

\* An agent with nothing left to do has applied, for every site, the newest
\* release of that site that targets its node.
IdleMeansReconciled ==
    \A n \in Nodes :
        mem[n].acked \in LatestRelease(n) =>
            \A r \in Targeting(n) :
                \/ ack[r][n] = "success"
                \/ \E q \in Targeting(n) : q > r /\ releases[q].site = releases[r].site

\* Once nothing more is published and the faults are over, every node settles
\* on its newest release and the hub shows it there as successful.
Settles ==
    \A n \in Nodes :
        <>[](\A r \in LatestRelease(n) :
                /\ mem[n] = [current |-> r, acked |-> r]
                /\ ack[r][n] = "success")
=============================================================================
