--------------------------- MODULE SitePublishing ---------------------------
(***************************************************************************)
(* The life of one site at the hub (apps/hub-api/src/service.rs and        *)
(* store.rs): administrators create, edit, bind, enable, disable, publish, *)
(* switch and delete it, and every request is a handler that reads the     *)
(* site, works on its copy and writes the whole copy back.  Publishing     *)
(* leaves releases behind; the newest one for a node is what its agent     *)
(* applies (module ReleaseRollout).  Requests of several administrators    *)
(* overlap, and a handler may end half way: its client disconnects, the    *)
(* hub stops or the database refuses.                                      *)
(*                                                                         *)
(* A number stands for the contents of one accepted edit: the columns of   *)
(* the sites row and the JSON in site_configs.  Roles and priorities of    *)
(* bindings are the subject of module Failover; here a binding is a node.  *)
(***************************************************************************)
EXTENDS Naturals, FiniteSets

CONSTANTS
    Nodes,        \* registered nodes
    Admins,       \* bound: requests under way at one time
    MaxRequests,  \* bound: requests of administrators and failovers
    MaxDrops      \* bound: handlers that end half way

ASSUME PublishingAssumption == MaxRequests \in Nat \ {0} /\ MaxDrops \in Nat

VARIABLES
    site,      \* the sites row, and the nodes in site_node_bindings
    configs,   \* site_configs: the contents stored under each version
    releases,  \* config_releases of the site
    clock,     \* orders the created_at of releases
    job,       \* the request each administrator is waiting for
    requests,  \* number of requests so far
    drops      \* number of handlers that ended half way

vars == <<site, configs, releases, clock, job, requests, drops>>

Statuses == {"draft", "published", "disabled"}
Versions == 1..MaxRequests
Contents == 0..MaxRequests   \* 0 when nothing is stored
Ops      == {"update", "bind", "switch", "enable", "disable", "publish", "delete"}

\* SiteRecord, as a handler holds it: the row, the newest config and the nodes.
SiteRecord == [status: Statuses, fields: Contents, config: Contents, version: Versions,
               bound: SUBSET Nodes]

\* A compiled bundle with its scope, its targets and its created_at.
Release == [at: Nat, scope: {"site", "site_cleanup"}, targets: SUBSET Nodes,
            status: Statuses, fields: Contents, config: Contents]

NoSite    == [status |-> "draft", fields |-> 0, config |-> 0, version |-> 1, bound |-> {}]
NoRelease == [at |-> 0, scope |-> "site", targets |-> {}, status |-> "draft",
              fields |-> 0, config |-> 0]

\* A request: its input, its copy of the site, the nodes it found detached, the
\* release it has compiled, and as history whether nobody else has written the
\* site or a release of it since the request began.
NoJob == [op |-> "none", step |-> "idle", input |-> 0, nodes |-> {}, site |-> NoSite,
          detached |-> {}, release |-> NoRelease, fresh |-> FALSE]

TypeOK ==
    /\ site \in [exists: BOOLEAN, status: Statuses, fields: Contents, bound: SUBSET Nodes]
    /\ configs \in [Versions -> Contents]
    /\ releases \subseteq Release
    /\ clock \in Nat
    /\ \A r \in releases : r.at \in 1..clock
    /\ \A r, q \in releases : r.at = q.at => r = q
    /\ job \in [Admins -> [op: Ops \cup {"none"},
                           step: {"idle", "read", "bindings", "save", "detach", "compile",
                                  "cleanup", "commit", "publish", "delete"},
                           input: Contents, nodes: SUBSET Nodes, site: SiteRecord,
                           detached: SUBSET Nodes, release: Release, fresh: BOOLEAN]]
    /\ requests \in 0..MaxRequests
    /\ drops \in 0..MaxDrops

Init ==
    /\ site = [exists |-> FALSE, status |-> "draft", fields |-> 0, bound |-> {}]
    /\ configs = [v \in Versions |-> 0]
    /\ releases = {}
    /\ clock = 0
    /\ job = [a \in Admins |-> NoJob]
    /\ requests = 0
    /\ drops = 0

At(a, step) == job[a].step = step
Request     == requests < MaxRequests /\ requests' = requests + 1

\* A step that only reads, and one that writes what other requests may have read.
Continue(a, j) == job' = [job EXCEPT ![a] = j]
Written(a, j)  == job' = [b \in Admins |-> IF b = a THEN j
                                           ELSE [job[b] EXCEPT !.fresh = FALSE]]

----------------------------------------------------------------------------
(* The store.                                                              *)

\* The newest version that is stored.
Version == CHOOSE v \in Versions : /\ configs[v] # 0
                                   /\ \A w \in Versions : configs[w] # 0 => w <= v

\* Mutant of SaveSite: the contents of the newest version are not replaced.
SaveSiteKeepingConfig(s) ==
    /\ site' = [exists |-> TRUE, status |-> s.status, fields |-> s.fields, bound |-> s.bound]
    /\ configs' = IF \E v \in Versions : configs[v] # 0 THEN configs
                  ELSE [configs EXCEPT ![s.version] = s.config]

\* save_site, one transaction: the row is inserted or overwritten, so is the
\* config of the copy's version, and the bindings are replaced.
SaveSite(s) ==
    /\ site' = [exists |-> TRUE, status |-> s.status, fields |-> s.fields, bound |-> s.bound]
    /\ configs' = [configs EXCEPT ![s.version] = s.config]

\* The releases of a scope, and the last of some releases by created_at.
OfScope(scope) == {r \in releases : r.scope = scope}
Last(rs)       == {r \in rs : \A q \in rs : q.at <= r.at}

\* Mutant of DetachedNodes: cleanup releases count as well.
DetachedAnyScope(bound) == (UNION {r.targets : r \in Last(releases)}) \ bound

\* Mutant of DetachedNodes: nodes that are still bound are not left out.
DetachedAll(bound) == UNION {r.targets : r \in Last(OfScope("site"))}

\* detached_node_ids_for_site: the targets of the site's last release, other than
\* a cleanup, that the copy does not bind.
DetachedNodes(bound) == (UNION {r.targets : r \in Last(OfScope("site"))}) \ bound

----------------------------------------------------------------------------
(* The requests.                                                           *)

\* create_site: a new id, so nobody else can have it in hand.
CreateSite ==
    /\ requests = 0 /\ Request
    /\ SaveSite([NoSite EXCEPT !.fields = 1, !.config = 1])
    /\ UNCHANGED <<releases, clock, job, drops>>

\* A request comes in: an edit with its contents, a binding with its nodes.
Begin(a, op, nodes) ==
    /\ At(a, "idle")
    /\ requests > 0 /\ Request
    /\ Continue(a, [NoJob EXCEPT !.op = op, !.step = "read", !.nodes = nodes, !.fresh = TRUE,
                                 !.input = IF op = "update" THEN requests' ELSE 0])
    /\ UNCHANGED <<site, configs, releases, clock, drops>>

\* site(): the row with its newest config is one query; a site that is not
\* there ends the request.
ReadSite(a) ==
    /\ At(a, "read")
    /\ Continue(a, IF ~site.exists THEN NoJob
                   ELSE [job[a] EXCEPT !.step = "bindings",
                            !.site = [status |-> site.status, fields |-> site.fields,
                                      config |-> configs[Version], version |-> Version,
                                      bound |-> {}]])
    /\ UNCHANGED <<site, configs, releases, clock, requests, drops>>

\* What the request makes of its copy s: update_site, bind_site_nodes,
\* switch_site_primary and update_site_status.
Edited(j, s) ==
    CASE j.op = "update"  -> [s EXCEPT !.fields = j.input, !.config = j.input,
                                       !.version = @ + 1, !.status = "draft"]
      [] j.op = "bind"    -> [s EXCEPT !.bound = j.nodes]
      [] j.op = "switch"  -> [s EXCEPT !.bound = j.nodes, !.version = @ + 1,
                                       !.status = "draft"]
      [] j.op = "enable"  -> [s EXCEPT !.version = @ + 1,
                                       !.status = IF s.bound = {} THEN "draft" ELSE "published"]
      [] j.op = "disable" -> [s EXCEPT !.version = @ + 1, !.status = "disabled"]
      [] OTHER            -> s

\* A switch makes a node the primary, and may drop the previous one.
Switches(from, to) ==
    \E target \in to, previous \in from :
        /\ target # previous
        /\ to \in {from \cup {target}, (from \cup {target}) \ {previous}}

\* site(): the bindings are a second query.
ReadBindings(a) ==
    /\ At(a, "bindings")
    /\ LET read == [job[a].site EXCEPT !.bound = site.bound]
           next == CASE job[a].op = "publish" -> "detach"
                     [] job[a].op = "delete"  -> IF site.bound = {} THEN "delete" ELSE "cleanup"
                     [] OTHER                 -> "save"
       IN  Continue(a, IF job[a].op = "switch" /\ ~Switches(site.bound, job[a].nodes) THEN NoJob
                       ELSE [job[a] EXCEPT !.site = Edited(job[a], read), !.step = next,
                                !.detached = IF job[a].op = "delete" THEN site.bound ELSE {}])
    /\ UNCHANGED <<site, configs, releases, clock, requests, drops>>

\* A switch goes on as a publication, which reads the site anew; enabling and
\* disabling a site with nodes releases the copy.
Save(a) ==
    /\ At(a, "save")
    /\ SaveSite(job[a].site)
    /\ Written(a, CASE job[a].op = "switch" ->
                         [NoJob EXCEPT !.op = "publish", !.step = "read", !.fresh = job[a].fresh]
                    [] job[a].op \in {"enable", "disable"} /\ job[a].site.bound # {} ->
                         [job[a] EXCEPT !.step = "compile"]
                    [] OTHER -> NoJob)
    /\ UNCHANGED <<releases, clock, requests, drops>>

\* create_release looks for detached nodes; without any nodes it is refused.
Detach(a) ==
    /\ At(a, "detach")
    /\ LET detached == DetachedNodes(job[a].site.bound)
       IN  Continue(a, IF job[a].site.bound # {}
                       THEN [job[a] EXCEPT !.detached = detached, !.step = "compile"]
                       ELSE IF detached # {}
                       THEN [job[a] EXCEPT !.detached = detached, !.step = "cleanup"]
                       ELSE NoJob)
    /\ UNCHANGED <<site, configs, releases, clock, requests, drops>>

\* save_site_release and save_site_cleanup_release compile a bundle from the copy
\* (compile_site_bundle, compile_site_cleanup_bundle) and take its created_at.
Compiled(s, scope, targets, at) ==
    [at |-> at, scope |-> scope, targets |-> targets, status |-> s.status,
     fields |-> s.fields, config |-> IF scope = "site" THEN s.config ELSE 0]

\* Mutant of Compile: created_at is left at the previous release's.
CompileUnstamped(a) ==
    /\ At(a, "compile")
    /\ Continue(a, [job[a] EXCEPT !.step = "commit",
            !.release = Compiled(job[a].site, "site", job[a].site.bound, clock)])
    /\ UNCHANGED <<site, configs, releases, clock, requests, drops>>

Compile(a) ==
    /\ clock' = clock + 1
    /\ \/ /\ At(a, "compile")
          /\ Continue(a, [job[a] EXCEPT !.step = "commit",
                !.release = Compiled(job[a].site, "site", job[a].site.bound, clock')])
       \/ /\ At(a, "cleanup")
          /\ Continue(a, [job[a] EXCEPT !.step = "commit",
                !.release = Compiled(job[a].site, "site_cleanup", job[a].detached, clock')])
    /\ UNCHANGED <<site, configs, releases, requests, drops>>

\* save_release, and what comes after it.
Commit(a) ==
    /\ At(a, "commit")
    /\ releases' = releases \cup {job[a].release}
    /\ LET done == [job[a] EXCEPT !.release = NoRelease,
                          !.detached = IF job[a].release.scope = "site" THEN @ ELSE {}]
       IN  Written(a, CASE job[a].op \in {"enable", "disable"} -> NoJob
                        [] job[a].op = "delete"               -> [done EXCEPT !.step = "delete"]
                        [] job[a].op = "publish" ->
                             [done EXCEPT !.step = IF done.detached # {} THEN "cleanup"
                                                   ELSE "publish"])
    /\ UNCHANGED <<site, configs, clock, requests, drops>>

\* The end of create_release: the copy is written back with its new status.
Publish(a) ==
    /\ At(a, "publish")
    /\ SaveSite([job[a].site EXCEPT
                    !.status = IF job[a].site.bound = {} THEN "draft" ELSE "published"])
    /\ Written(a, NoJob)
    /\ UNCHANGED <<releases, clock, requests, drops>>

\* store.delete_site: the configs and bindings go with the row.
DeleteRow(a) ==
    /\ At(a, "delete")
    /\ site' = [exists |-> FALSE, status |-> "draft", fields |-> 0, bound |-> {}]
    /\ configs' = [v \in Versions |-> 0]
    /\ Written(a, NoJob)
    /\ UNCHANGED <<releases, clock, requests, drops>>

\* The handler's client disconnects, the hub stops or PostgreSQL fails.
Drop(a) ==
    /\ ~At(a, "idle")
    /\ drops < MaxDrops /\ drops' = drops + 1
    /\ Continue(a, NoJob)
    /\ UNCHANGED <<site, configs, releases, clock, requests>>

\* The failover-worker's transaction: a release of the site for the nodes bound
\* to it, and the row is called published.  The code works from a snapshot that
\* it read before the transaction, writes the bindings back from it and stamps
\* the release with the start of its cycle; here snapshot and stamp are taken
\* with the transaction, and every request under way counts as overlapped.
FailoverRelease ==
    /\ site.exists /\ Cardinality(site.bound) > 1
    /\ Request
    /\ clock' = clock + 1
    /\ releases' = releases \cup
         {[at |-> clock', scope |-> "site", targets |-> site.bound, status |-> site.status,
           fields |-> site.fields, config |-> configs[Version]]}
    /\ site' = [site EXCEPT !.status = "published"]
    /\ job' = [b \in Admins |-> [job[b] EXCEPT !.fresh = FALSE]]
    /\ UNCHANGED <<configs, drops>>

Step(a) ==
    \/ ReadSite(a) \/ ReadBindings(a) \/ Save(a) \/ Detach(a)
    \/ Compile(a) \/ Commit(a) \/ Publish(a) \/ DeleteRow(a)

Next ==
    \/ CreateSite \/ FailoverRelease
    \/ \E a \in Admins :
         \/ \E op \in {"update", "enable", "disable", "publish", "delete"} : Begin(a, op, {})
         \/ \E op \in {"bind", "switch"}, nodes \in SUBSET Nodes \ {{}} : Begin(a, op, nodes)
         \/ Step(a) \/ Drop(a)

Spec == Init /\ [][Next]_vars

----------------------------------------------------------------------------
(* Properties.                                                             *)

\* What the agent of a node applies last: latest_release_for_node.
Newest(n) == Last({r \in releases : n \in r.targets})
Serves(n) == \E r \in Newest(n) : r.scope = "site"

\* Nodes that serve the site and that nothing would clean up once they are taken
\* off it: no request has them in hand, and no publication would find them.
Stranded ==
    {n \in Nodes :
        /\ Serves(n)
        /\ ~(site.exists /\ \E r \in Last(OfScope("site")) : n \in r.targets)
        /\ \A a \in Admins : n \notin job[a].detached}

\* StrandsOnly: a publication by itself never forgets a node that was taken off
\* the site.  One keeps serving the site for good only when the site is enabled,
\* disabled, failed over or deleted before the next publication, when a
\* publication ends half way, or when requests overlap.
Forgets(a) ==
    \/ job[a].op \in {"enable", "disable"} /\ Commit(a)
    \/ DeleteRow(a)
    \/ Drop(a)
    \/ ~job[a].fresh /\ Step(a)
StrandsOnly == [][Stranded' \subseteq Stranded \/ FailoverRelease \/ \E a \in Admins : Forgets(a)]_vars

\* MixesOnly: a row that joins the columns of one edit to the config of another,
\* and a release compiled that way, come from a step of a request that another
\* one has overlapped, or from a row that was already mixed.  So the first
\* mix, stored or released, is the work of a stale copy; what is released from
\* the mixed row afterwards is mixed as well.
Mixed     == site.exists /\ site.fields # configs[Version]
Mixes(r)  == r.scope = "site" /\ r.fields # r.config
MixesOnly ==
    [][Mixed' \/ (\E r \in releases' \ releases : Mixes(r))
         => Mixed \/ \E a \in Admins : ~job[a].fresh /\ Step(a)]_vars

\* Reaches: when a publication, an enabling or a disabling ends and no other
\* request has written meanwhile, the newest release of every bound node
\* carries the contents the hub stores, and after a change of status the status.
Carries(n, status) ==
    \E r \in Newest(n)' : /\ r.scope = "site" /\ r.fields = site'.fields
                          /\ r.config = configs'[Version']
                          /\ status => r.status = site'.status
Reaches == [][\A a \in Admins :
                 /\ job[a].fresh
                 /\ Publish(a) \/ (job[a].op \in {"enable", "disable"} /\ Commit(a))
                 => \A n \in site'.bound : Carries(n, job[a].op # "publish")]_vars

=============================================================================
