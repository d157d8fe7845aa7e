# A TLA+ model of PingoraMesh

PingoraMesh (the code calls it PingoraHub) manages a fleet of Pingora proxy
nodes from a central hub. This directory holds TLA+ modules for the parts of it
where steps of several processes meet, TLC configurations that check them on
small instances, and TLAPS proofs for every size.

Paths below are relative to the repository; "agent" is
`apps/node-agent/src/main.rs`, "service" and "store" are
`apps/hub-api/src/service.rs` and `store.rs`, "failover worker" is
`apps/failover-worker/src/main.rs`, "dns-worker" is
`apps/dns-worker/src/lib.rs` and its `main.rs`.

## 1. Inventory

| Component | State it keeps | Operations | Talks to |
|---|---|---|---|
| Release store and ack handling (service, store) | `config_releases`, `node_release_status` | save a release with a row for each target, serve a node's newest release, record an ack and the aggregate | agents (HTTP), site publishing, failover worker (both insert releases) |
| Node agent: releases | `state.json`, `current-*` files, the proxy's loaded configuration | heartbeat, poll, download, apply command, health check, activate, ack, persist | hub |
| Node agent: operations | none that survives | claim, run, report | hub |
| Node operations (service, store) | `operation_templates`, `node_operations` | create, claim (transaction with `SKIP LOCKED`), record result, edit template | administrators, failover worker, agents |
| Failover worker | `failover_policies`, `failover_events`, and the bindings, releases and operations it writes | judge policies, record an event, switch (one transaction), tell the DNS provider, close the event | status worker and agents (through `nodes`), hub (through `site_node_bindings`), DNS provider |
| Status worker (`apps/status-worker`, `crates/application`) | `nodes.status` | scan all nodes, write verdicts | failover worker |
| Site bindings, publishing, cleanup (service, store) | `sites`, `site_node_bindings` | create, update, enable, disable, delete, bind, manual switch, release | release store, failover worker |
| Certificate orders (service, store, dns-worker) | `certificate_orders`, `certificates`, `certificate_versions`, `site_cert_bindings`, TXT records at the provider | create, renew, retry, reset (hub); enqueue renewals, claim, prepare, present, acknowledge, finalize, clean up, persist (worker) | ACME server, DNS provider, site publishing |
| DNS providers and zones (service, store, `crates/dns-provider`) | `dns_providers`, `dns_zones` | create, update, sync, enable, disable, delete | certificate orders, failover worker |
| Node registration and tokens (service, `token_store.rs`, agent) | `nodes`, leases in Redis or memory, the agent's registration file | create, register, refresh, authorize, delete | agents, administrators |
| Configuration compiler, operation templates | none | render, hash | publishing, operations |
| Console, administrator sessions | sessions | login, logout | administrators |
| Release worker | none | none: it logs and exits | - |

What is hard in this system is what happens between processes that share
nothing but a database and HTTP:

* handlers are several statements, mostly outside a transaction, and go on when
  their client has given up;
* agents crash anywhere and restart from a file they overwrite in place;
* workers act on snapshots: policies read once per cycle, verdicts computed on
  one read and written later, a whole site read and saved back;
* a switch spans an event row, a transaction and a DNS provider, which cannot
  be rolled back;
* claims move a row to a state only the claimer moves it out of;
* a token is replaced at the hub before the agent has the new one on disk, by
  Redis commands that other handlers interleave with;
* checks come before what they protect: an order's status before a reset, the
  orders of a zone before its deletion, the node before its tokens are issued.

`PROJECT.json` lists these hazards with the line where each bites and the
properties aimed at it.

What makes each component correct:

* releases: what is called successful really passed on that node; an agent's
  state never runs ahead of its files and never goes back; every node settles
  on its newest release;
* failover: one primary, watched by the policy, with DNS on the pair; one
  switch for one failure; a dead primary is always replaced;
* operations: run at most once, only if approved, with real and lasting results,
  and nothing is left half done without a cause;
* certificate orders: one worker on an order, one version for an issued order,
  a TXT record that stays until it was looked for and goes with the attempt
  that is issued, sites bound to the newest version, every order ends;
* tokens: one live pair for a node, up to what overlapping requests can leave
  behind, none after deletion, and an agent that gets its session back;
* publishing: a node that loses a site gets a release without it, edits are
  mixed, in the row or in a release, only once requests have overlapped, and a
  publication reaches every bound node.

## 2. Modules

| Module | Models | Size of the question |
|---|---|---|
| `ReleaseRollout` | release store, ack handler, release half of the agent | any nodes, sites, releases |
| `ReleaseRolloutProofs`, `ReleaseOrderProofs` | TLAPS proofs about it | |
| `Failover` | status worker, failover worker, and the hub's handlers that write the same rows, for one site | any nodes and policies of the site |
| `FailoverProofs` | TLAPS proofs about it | |
| `NodeOperations` | templates, operations, claims, the operation half of the agent | any nodes and operations |
| `NodeOperationsProofs` | TLAPS proofs about it | |
| `CertificateOrders` | orders, zones and provider at the hub, the dns-workers, the ACME server and the TXT records | any workers, administrators, sites and orders, one zone |
| `CertificateOrdersProofs`, `CertificateIssuanceProofs` | TLAPS proofs about it | |
| `TokenLeases` | what a token store promises about a node (abstract) | |
| `TokenStore` | registration, refresh and deletion of one node, both token stores, the agent's session; implements `TokenLeases` | any handlers at once |
| `TokenStoreProofs` | TLAPS proofs about it, the refinement included | |
| `SitePublishing` | every request that writes a site, and the releases they leave | one site, any nodes and administrators |
| `SitePublishingProofs` | TLAPS proofs about it | |
| `MCReleaseRollout`, `MCFailover`, `MCNodeOperations`, `MCCertificateOrders`, `MCTokenStore`, `MCSitePublishing` | instances for TLC | |

The modules meet in the rows they share. `SitePublishing` says which releases
exist and for which nodes; `ReleaseRollout` starts from there. `Failover`
writes the bindings and releases that `SitePublishing` sees as
`FailoverRelease`, and the post-switch operations `NodeOperations` begins with.
`CertificateOrders` ends with the default bindings a release is compiled from.
A request of an agent that `TokenStore` would reject is a failed request in
`ReleaseRollout` and `NodeOperations`.

### ReleaseRollout

`releases`, `ack` and `stored` are `config_releases`, `node_release_status` and
the status column of the former; releases are numbered by `created_at`. `seen`
is the version a node's last heartbeat reported. For each agent, `pc` is its
place in the loop of `main` and `sync_latest_release`, `target` the release it
works on, `mem` and `disk` its `LocalAgentState` in memory and in `state.json`,
`torn` says that the file was cut short, `files` is the version in
`current-release-version` and in the three other `current-*` files, `running`
what the proxy was last reloaded with. `passed` is a history variable: the
releases whose apply command and health check succeeded.

`update_release_ack` is three statements and so three steps (`HandleRow`,
`HandleRead`, `HandleWrite`), interleaved with everything else. A request an
agent waits for is its handler (`req`). When the agent gives up (20 s) or dies,
the handler is dropped where it is or becomes an `orphan` that goes on. The
agent's steps are one action for each point at which something outside can
happen or the process can die: `PollDownload`, `PollConfirm` and `PollIdle` are
the three outcomes of the comparison at the top of `sync_latest_release`;
`Downloading`, `Fetch`, `Applying`, `ApplyCommand`, `HealthCheck`,
`ActivateVersion`, `ActivateContent` and `Acknowledged` are its course; each `?`
of the code is one of `ApplyFails`, `RequestFails`, `ActivateFails`,
`PersistFails` and `Crash`.

Left out: the contents of a release, the staging directory under `releases/`
(written under a fresh name before anything else), tokens (a rejected token is
a `RequestFails` that polls again at once), and the choice of targets.

### Failover

`alive` and `missed` are the nodes and the heartbeat intervals each has missed;
`status` is `nodes.status`. `StatusScan` and `StatusWrite` are
`reconcile_node_statuses`: verdicts on all nodes from one read, written one by
one later (`judged`). `todo` holds the policy snapshots of one cycle of the
failover worker, taken in the order of the policies (`job` is the next);
`CreateEvent` reads the site and settles what will be written,
`Execute` is the transaction, `Abort` its rollback, `Finish` closes the event,
`Interrupt` is a killed worker. The provider's record (`dns`) changes inside
`Execute`, and may change in an `Abort` or `Interrupt` too, since the provider
is told before the commit. `BindSiteNodes`, `SwitchSitePrimary` with its two
saves, and `CreateRelease` with its read, release and write are the hub's
handlers, one administrator at a time. `SwitchedBindings`, `NextStandby`,
`ManualBindings` and `Normalized` are the pure functions on bindings.

Left out: policies of other modes or scopes (the worker ignores them), manual
policy edits, nodes in maintenance or never seen (the status worker skips
them), the site's status column, the audit row; a publication's release and its
cleanup release are one step here (two in `SitePublishing`). Post-switch operations, written
by the same transaction, are where `NodeOperations` begins.

### NodeOperations

`template` is the one template all operations use, as its current form and its
`approval_required`; an operation's parameters fit one form
(`render_command` succeeds or fails accordingly). `ops` and `status` are
`node_operations`. A claim handler (`claim`, or `late` when its agent has given
up) selects and locks a row (`ClaimSelect`), then marks it and commits
(`ClaimCommit`); another claim of the node meanwhile skips the locked row.
`results` are the reports posted and not yet handled. `runs`, `outcome` and
`lost` are history: how often a command was started, how it ended, and which
operations were stranded by a crash, a lost claim answer, a lost report or
parameters that stopped rendering.

`ClassifyEnding` keeps a quirk of `classify_operation_error`: a command that
fails with the words "timed out" in its output is recorded as a timeout.

Left out: deleting a template (the database refuses it while an operation refers
to it), deleting a node, the text of logs.

### CertificateOrders

`orders`, `certs` and `bound` are `certificate_orders`, `certificates` (each with
the orders its versions came from) and the default rows of
`site_cert_bindings`; `provider` and `zone` the one row of each table. A request
of an administrator (`req`) is a step for each point at which the code has read
and not yet written: `CreateOrder` and `RenewSite`/`CheckRenewal` before
`IssueOrder`, `RetryOrder` and `ResetOrder` before `RequeueOrder`, `ReadZone`
before `SaveZone`, `CheckZone` before `DeleteZone`, `CheckProvider` before
`DeleteProvider`. The schema takes part: the partial unique index on active
renewals (`RenewalActive`, which also ends a worker that would make a requeued renewal
active next to another one, in `EndChallenge`), the foreign key of `zone_id` (`Storable`,
`InsertRenewal`), `ON DELETE SET NULL` (`DropZone`), and the decoding of a NULL
`zone_id`, which panics (`OrdersDecode`).

A worker's loop is `SelectDue`, `InsertRenewal`; `ClaimPending` (one transaction,
`SKIP LOCKED`, the `Oldest` rows), then for each job `Prepare`, `Present`, `Acknowledge`,
`SavePayload`, `EndChallenge`; `ClaimReady`, then for each job `Finalize`,
`Cleanup`, and `ReadVersion` and `Commit`, the two ends of the transaction of
`persist_issued_certificate`, or `FailIssue`. Every external call may fail after
it took effect. A database error that the code passes up with `?`, and a kill,
are `Exit`: the jobs in hand are nobody's (`stranded`). `raced` records the
orders that were requeued from a stale read or while a worker held them; the
properties about one worker exclude those and `certificates_reset` is about
them. A TXT record and the urls of an ACME order are the number of that order,
so "found by its content" is visible.

Left out: the mock ACME client (it answers at once), several zones (the longest
match is a pure choice), certificates of deleted sites, the keys and
certificates themselves. Coarser than the code: claims do not overlap (the claims'
`FOR UPDATE SKIP LOCKED` has no `OF`, so it locks the joined zone, provider and
certificate rows too and an overlapping claim may come back with fewer orders or
none until its next round); `SyncZone` reads, asks the provider and saves in one
step; `ReadVersion` reads the bindings together with the version, the code later in
the same transaction.

### TokenLeases and TokenStore

`TokenLeases` is the abstract specification: pairs are numbered, issuing grants
a new one, a dead token never comes back, and at most one access and one refresh
token is live, plus one for each disturbance.

In `TokenStore` a handler is a program of commands (`Program`): the check, the
commands of the store, the row, the reply. With Redis, issuing is
eight commands and revoking six, each a step (`GetCurrent`, `DelLease`,
`SetLease`, `SetCurrent`, `DelCurrent`); with the memory store each is one step
under its lock (`MemoryIssue`, `MemoryRevoke`). The agent starts from its
registration file, refreshes when told 401 or when five minutes are left, and
writes the file afterwards (`Persist`), which is the step a kill can come before.
`Interrupt` is a kill, a failed write or a 20 s timeout, with the handler dropped
or running on; `Abandon` ends a handler nobody waits for half way, `delete_node`
inside `revoke_tokens` included; `HubRestart` empties the memory store.
`KeepsPromise` is `Leases!Spec` under the mapping that takes as
`owed` the pairs whose access token is written and whose refresh token is not,
and as `slack` the history variable `upsets`: the times a handler passed its
check while another one was past its own, or was dropped half way.

Left out: the refusal of `delete_node` for a node with bindings or policies
(it changes nothing), the memory store's leases that expire without being removed.

### SitePublishing

`site` is the row with its bindings, `configs` the versions in `site_configs`,
`releases` the site's rows of `config_releases` with their scope, targets and
the contents they were compiled from. A number stands for one accepted edit, once
in the row's columns (`fields`) and once in the JSON (`config`): they are
written together and can be read, and saved back, apart. Each request goes
through the steps of its handler: `ReadSite`, `ReadBindings`, then `Save`, or
`Detach`, `Compile`, `Commit` (for the release and for the cleanup release) and
`Publish`, or `DeleteRow`. A switch saves and then publishes, reading the site
anew. `created_at` is taken in `Compile`, before the `Commit`. `Drop` ends a
handler anywhere. `FailoverRelease` is the worker's transaction.

Left out: roles and priorities (in `Failover`), the validation of a site's
contents and the uniqueness of its code, other sites. The failover worker's
snapshot is taken in the same step as its transaction: that it writes the
bindings back from an older read and stamps its release with the start of its
cycle is left out, and every request under way counts as overlapped by it.

## 3. Runs

| Run | Instance | Shows |
|---|---|---|
| `rollout_success` | 2 nodes, 2 releases, 1 fault, 1 orphan, torn writes; nodes symmetric | `TypeOK`, `SuccessMeansPassed`: no row, overview, stored aggregate or heartbeat calls a release successful where it did not pass |
| `rollout_agent` | 1 node, 2 sites, 3 releases, 3 faults | `StateBackedByFiles`, `NoDowngrade`, `AckedMeansRecorded`, and `Settles` under fairness |
| `failover_switch` | 3 nodes, 1 policy, 2 outages, 1 fault, DNS | `TypeOK`, `OnePrimary`, `PolicyWatchesPrimary`, `DnsAtPair`, `NoRepeatedSwitch` |
| `failover_live` | 3 nodes, 1 policy, 2 outages | `FailsOver` and `StatusSettles` under fairness |
| `failover_admin` | 3 nodes, two priorities, 1 outage, 1 fault, 1 request of any kind | `SomePrimary` |
| `operations` | 1 node, 2 operations, 2 forms, 1 edit, 2 faults | `TypeOK`, `AtMostOnce`, `RunsAsRequested`, `ResultIsReal`, `ResultStays`, and `Finishes` under fairness |
| `certificates` | 2 workers, 2 administrators, 1 site, batches of 2, 3 orders, 2 requests, 1 renewal, 1 fault; workers and administrators symmetric | `OneWorker`, `IssuedOnce`, `RecordStaysUntilChecked`, `IssuedIsClean`, `DefaultIsNewest`, `VersionsNeverClash`, `TypeOK` |
| `certificates_live` | 2 workers, 2 administrators, 2 orders, 2 requests, 1 renewal, 1 fault | `OrdersEnd` under fairness |
| `tokens` | 2 handlers, both stores, 3 pairs, 1 fault | `KeepsPromise` (the refinement of `TokenLeases`), `DeletedLeavesNothing`, `AgentRecovers` under fairness, `TypeOK` |
| `publishing` | 2 nodes, 2 administrators, 5 requests, 1 dropped handler | `StrandsOnly`, `MixesOnly`, `Reaches`, `TypeOK` |
| `rollout_sites` | 2 sites on 1 node, no faults | violates `IdleMeansReconciled` |
| `certificates_reset` | 1 worker, 1 administrator, 1 order, no faults | violates `IssuedNeverReset` |

Every property of a passing run has a mutant in `PROJECT.json`: a definition
changed as a bug would change it, which TLC then catches.

### Bounds

Bounds are CONSTANTS whose names begin with `Max`. Two releases let an older
one's late handler meet a newer one's success; the third lets a skipped release
be followed by another. Three faults allow failing, crashing and failing again
in one round. In `Failover`, two outages allow a switch and a switch back
(or on to a third node); `missed` saturates at `MissedCap`, above which no code
tells counts apart; releases saturate at `MaxReleases`, which is 1 where no
property compares versions and 3 where one does. In `NodeOperations` two
operations let a late claim hold one row while its node claims the other. Nodes
do not interact there except through the choice of rows, so one node is checked
and any number proved. In `CertificateOrders`
three orders are one with a renewal by hand and one enqueued, which is what two
workers can collide on; a batch of two lets an exit strand an order that was not
worked on. Two handlers in `TokenStore` are every pair of overlapping requests;
`MaxPairs` stops only a deleted node's agent from asking for ever. Five requests
in `SitePublishing` are a creation, a binding, a publication, a rebinding and
one more, the shortest way to forget a node; two of them may overlap.

### Fairness

Weak fairness only. Agents (`AgentStep`, `Agent`): systemd restarts them
(`Restart=always` in `deploy/systemd`), every request has a 20 s limit and every
command a time limit, so a process that can take a step takes it. Handlers
(`HubStep`, `OrphanStep`, `Hub`, `Late`, `Result`): a statement sent to
PostgreSQL returns; a handler may also be dropped, which is a fault. Workers
(`StatusWorker`, `Worker`): they loop on a timer and are restarted. Time
(`Tick`) passes. In `CertificateOrders` the workers (`WorkerStep`) and the ACME
server's answers (`Validate`; the code's polls have a deadline besides) are
fair; in `TokenStore` the handlers (`HubStep`) and the agent (`AgentStep`), which
systemd restarts. Nothing is assumed of administrators, recoveries or faults;
the fault counters make faults finitely many, which is what "the faults are over"
means in a liveness property.

`CHECK_DEADLOCK FALSE` is set where a torn `state.json` really stops a node for
good, in the failover runs, and in `publishing`, where administrators may have
asked for everything they will.

## 4. Proofs

`ReleaseRolloutProofs` assumes only `RolloutAssumption` (the bounds are natural
numbers, `TornWrites` is Boolean).

* `TypeCorrect`: `Spec => []TypeOK`. `TypeOK` is not inductive: an agent past
  `PollDownload` reports on `target[n]`, which must then be a release. `Aimed`
  says so, and `TypeInv` is both.
* `SuccessIsEarned`: `Spec => []SuccessMeansPassed`. The rows are sound only if
  whatever may still write them is: a handler with status `success`
  (`HandlersSound`, for `req` and `orphan`), a handler that has read the rows
  and will write the aggregate later, an agent that believes a release in force
  and will confirm it after a restart (`BeliefSound`, memory and disk), and an
  agent past the health check (`PipelineSound`). The aggregate read by one
  handler and written by another is the interesting case: `passed` only grows,
  so an aggregate that was right when computed is still right when written,
  however late, and `RowsExist` says that a row is there for each target, so
  that "all rows are successes" is about all targets.

`NodeOperationsProofs` assumes only `OperationsAssumption`.

* `TypeCorrect`: `Spec => []TypeOK`, with `Named`: handlers with a lock or
  something to run, and agents that run it, name an operation.
* `CommandsRunAtMostOnce`, `CommandsRunAsRequested`, `ResultsAreReal` and
  `ResultsStay` (an action property) follow from one invariant, `OpInv`: the
  right to run an operation is in exactly one place - its approved row, one
  claim's answer, one agent, one report - and each place says what has happened
  so far. Nodes keep out of each other's way because what a claim or an agent
  holds belongs to its node; two claims of one node because of the row lock
  (`LateInv`).

`ReleaseOrderProofs` continues `ReleaseRolloutProofs` from the same assumption.

* `StateIsBacked` and `NeverDowngrades` (an action property): `OrderInv`. A
  release reaches the proxy, the version file, the content files and the agent's
  state in that order, so each holds a release no newer than the one before it
  (`Ladder`), and the release being worked on is above them all (`Climbing`).
  The agent compares versions for inequality, not for age, so that a newly polled
  release is not older needs an argument about the hub: the newest release for a
  node is no older than any it ever ran.
* `AcknowledgedIsRecorded`: `Spec => [](orphans = 0 => AckedMeansRecorded)`. While
  no handler has outlived its client, a node's row says what its last answered
  report said (`RecordInv`). Without the condition the property is false, as
  section 5 says; `orphans` counts the handlers that ever did, so it is a
  condition on the past, not on the moment.

`FailoverProofs` assumes only `FailoverAssumption`.

* `TypeCorrect`: with what the worker and a manual switch carry from one step to
  the next (`WorkerSound`, `AdminSound`): pairs of two different nodes. It rests
  on lemmas about `SwitchedBindings`, `NextStandby`, `ManualBindings` and
  `Normalized`, which say what those functions on bindings return.
* `SiteKeepsAPrimary`: for any number of policies and requests. `SomeInv` adds
  that each set of bindings worked out and not yet written has a primary.
* `OnePolicyOnePrimary`, `OnePolicyWatches`, `DnsFollows` and `SwitchesOnce`: as
  long as one policy is the only writer (`SoleWriter`: one policy, no request so
  far). The conditions are needed: section 5 shows what a second policy and a
  request that overlaps a switch do. `SoleInv` ties the bindings, the policy, the
  snapshots in `todo`, the plan under way and the DNS record together through
  aborted and interrupted switches.
* The code takes the first of an ordered list in several places (a `CHOOSE` of a
  least element here). That a least element exists is proved from the
  well-foundedness of the natural numbers: the set of counterexamples has a
  minimal member (`LeastNumber`).

`CertificateOrdersProofs` and `CertificateIssuanceProofs` assume only
`CertificatesAssumption` (`NoSite` is no site, a batch is not empty, the bounds
are natural numbers).

* `TypeCorrect`: with what the tables, the workers and the requests refer to
  (`TablesSound`, `WorkerSound`, `AdminSound`): a worker writes orders it read
  long before, which must still be rows, and saves the payload of an ACME order
  it must have created. `Oldest`, which picks a batch, is shown to return a
  sequence of different orders.
* The other theorems go by what a step does to the rows and to the batches
  (`Aside`, `Requeued`, `Vacant`, `Onward`, `Saved`, `Ended`, `Took`): each of
  the actions is one of these (`StepActs`), and the invariants are shown for
  these alone.
* `OneWorkerPerOrder`: `HeldInv`. An order in a batch has the status its claim
  gave it, which no claim takes, unless it was requeued (`raced`); so no other
  worker has it, and no worker has it twice.
* `EachIssuedOnce`: `IssuedInv`, from `HeldInv`: a worker about to commit holds an
  order that is `issuing`, so none of the versions came from it yet.
* `RecordsStay`: `RecordInv`, from `OwnerInv`: an ACME order belongs to one
  certificate order, whether it is in the row or only in a worker's hands after a
  crash or a reset. It holds of requeued orders too. A worker that cleans up does
  so after the server has decided.
* `IssuedRecordIsGone`: `CleanInv`. Once the record of an attempt is deleted
  nobody presents it again, before the commit or after: only the owner would, and
  by `HeldInv` it has no second worker. The records of earlier attempts of the
  order are another matter (section 5).
* `WorkersNeverClash`: `LineInv` and `OneRenewal`. The database allows one active
  renewal of a certificate, but an order of kind `issue` is outside that index,
  so two active orders of one certificate are not excluded by it alone. `LineInv`
  says that all orders of a certificate but the first are renewals, made when it
  had a version; that its first order then is the one that version came from; and
  that whatever leads to a renewal (a certificate that is active or due, a binding,
  a request that read one) is about a certificate with a version. With `IssuedInv`
  an `issue` order in `issuing` has no version yet, so nobody renews it.
* `SitesBoundToNewest`: `HomeInv` and `NewestInv`. The orders of a certificate name
  one site or none, and only that site is ever bound to it (`HomeInv`), so the
  bindings a worker reads before its commit are all there are (`Current`); a
  worker that read the version before another one stored it is refused by the
  unique key. It holds of requeued orders too.

`TokenStoreProofs` assumes only `TokensAssumption`.

* `TypeCorrect`: `TypeInv` also says where in its program a handler can hold what.
* `StoresImplementLeases`: `Spec => KeepsPromise`, the refinement of
  `TokenLeases`. The promise bounds the live tokens by the disturbances, which no
  handler can see; the proof keeps an account for each kind of token
  (`Account`): each live token is the current one, or held by a handler that will
  delete it, or paid for by an upset, and a handler past its check that has not
  issued yet leaves room for what it owes. `Distinct` gives each pair that is owed
  a refresh token to one handler. Each step then is a step of `TokenLeases` or a
  stutter: it retires tokens (`Retiring`), is an upset (`Disturbing`) or grants
  (`Leasing`).
* `DeletedLeaves`: `Alone`, what is known while requests never overlapped.

`SitePublishingProofs` assumes `PublishingAssumption`, which asks for at least
one request: without any there is no site.

* `TypeCorrect`: versions are as many as requests, and the code computes a
  version from a copy that may be old. That the next one exists is a counting
  argument (`Roomy`: the requests that will still save a new version are no more
  than the versions left).
* `OnlyStaleCopiesMix`, `PublicationsReach` and `PublishingStrandsNone` (action
  properties): `FreshInv` says what a request that nobody has disturbed knows at
  each of its steps: its copy is the row and the newest config (`Copied`), the
  release it has compiled is of that copy and will be the newest (`Ready`), and what it has committed
  is what its nodes apply last (`Sent`). Others lose that knowledge exactly when
  somebody writes, which is when the model marks them stale.

Only model-checked: everything under fairness (`Settles`, `FailsOver`,
`StatusSettles`, `Finishes`, `OrdersEnd`, `AgentRecovers`), which is beyond the
prover.

## 5. Where the code and its documents differ

Two of these are runs that TLC refutes; `PROJECT.json` quotes the lines.

* A node that serves two sites skips a release of one when the other is released
  before it polls (`rollout_sites`).
* "issued certificate orders cannot be reset" (service), but the status is
  checked on a copy: an order issued between the check and the save goes back to
  pending and is issued again (`certificates_reset`).

The others are found by running a property of a passing run with other
constants:

* A node's retries are not idempotent: the `downloading` report of an attempt
  the agent gave up on can overwrite the `success` of its retry, for good
  (`AckedMeansRecorded` with 1 release, 1 fault and 1 orphan).
* A failover worker killed inside a switch leaves an event open; the policy is
  then skipped for ever (`FailsOver` with 2 nodes and 1 fault).
* Publishing while a switch commits writes the dead primary's binding back, and
  no policy watches it (`FailsOver` with 2 nodes and 1 request).
* `require_config_prewarm` compares the standby with the primary, so a release
  published while the primary is down blocks the failover (`FailsOver` with
  prewarm and 1 release request).
* Two policies of one site switch it twice for one failure, the second time
  away from a healthy primary (`NoRepeatedSwitch` with 2 policies).
* With `TornWrites`, `Settles` fails because an agent whose `state.json` was cut
  short never starts again; with `Rebinding`, `OnePrimary` fails because
  `build_switched_bindings` demotes the policy's primary, which after
  `bind_site_nodes` need not be the site's.

What the exceptions in the properties stand for is part of the result:

* `OrdersEnd` excepts orders in the hands of a worker that exited (nothing but a
  reset takes them out of `presenting` or `issuing`) and orders whose zone was
  deleted between their check and their insert, although the code means to
  refuse that ("dns zone is still referenced by certificate orders"): they are
  never claimed, and listing the orders panics from then on.
* `IssuedIsClean` speaks of the attempt that was issued, the ACME order in the
  row's payload. An attempt that fails after its record was created leaves it at
  the provider, also when a retry of the order is issued later: nothing looks for
  records of earlier attempts. Orders requeued in a race are excluded. `bound` is a set because two workers that issue different
  certificates of one site at once leave two default bindings.
* `AgentRecovers` excepts `lost`: one refresh answer that is lost or not
  written to disk, one handler that goes on after the agent gave up, or a
  restart of a hub that keeps tokens in memory, locks the agent out until it is registered anew, for which there is no bootstrap
  token left.
* `DeletedLeavesNothing` excepts overlapping handlers: a refresh past its check
  issues a pair to a node being deleted (a request with it is refused by
  `authorize_node`, which looks at the row), and a registration past its check
  writes the row back.
* `MixesOnly` excepts overlapping requests, which do join one edit's columns to
  another's config, and a row that is mixed already: any later publication or
  failover ships it as it is, until the next edit.
* `StrandsOnly` lists what makes the hub forget a node that was taken off a
  site: enabling, disabling, a failover or a deletion before the next
  publication, a publication that ends half way, or overlapping requests. All
  but the last do so with a single administrator.
* `Reaches` speaks of the contents only after a publication: the bundle is
  compiled before the status is set, so publishing a disabled site ships a
  bundle that says "disabled" while the row says "published".

A release whose health check fails also stays loaded in the proxy
(`ApplyCommand` precedes `HealthCheck` and nothing undoes it), and an operation
stranded in `running` has no way out.

## 6. Plan

Every invariant and every action property of the passing runs is proved, those
of section 4 that name a condition under that condition. The liveness properties
stay with TLC. The hazards without a property in `PROJECT.json` are what the code
does get wrong and a property could only restate; the notes there say so.

Not modelled and not planned: rendering of configurations and commands, wire
formats of DNS and ACME providers, console pages and administrator sessions
(rows that are inserted, looked up, expire and are deleted), the in-memory
repository of the tests, the release worker (a stub).
