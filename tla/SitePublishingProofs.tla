------------------------ MODULE SitePublishingProofs ------------------------
(***************************************************************************)
(* What is true of publishing a site for any nodes, any number of          *)
(* administrators and any bounds: its types, that only a stale copy can    *)
(* begin to mix two edits, that an undisturbed publication reaches every   *)
(* bound node, and that a publication by itself strands no node.           *)
(***************************************************************************)
EXTENDS SitePublishing, FiniteSetTheorems, NaturalsInduction, TLAPS

-----------------------------------------------------------------------------
(***************************************************************************)
(* Types.  The parts of TypeOK, and what makes them inductive.             *)
(***************************************************************************)

Steps == {"idle", "read", "bindings", "save", "detach", "compile", "cleanup", "commit",
          "publish", "delete"}
Job   == [op: Ops \cup {"none"}, step: Steps, input: Contents, nodes: SUBSET Nodes,
          site: SiteRecord, detached: SUBSET Nodes, release: Release, fresh: BOOLEAN]

RowType     == site \in [exists: BOOLEAN, status: Statuses, fields: Contents, bound: SUBSET Nodes]
ConfigType  == configs \in [Versions -> Contents]
ReleaseType == /\ releases \subseteq Release /\ clock \in Nat
               /\ \A r \in releases : r.at \in 1..clock
               /\ \A r, q \in releases : r.at = q.at => r = q
JobType     == job \in [Admins -> Job]
CountType   == requests \in 0..MaxRequests /\ drops \in 0..MaxDrops

\* A row is never without a config, nor is a copy of it.
Stored == site.exists => \E v \in Versions : configs[v] # 0

\* The requests that come to each step, and what they have in hand there.
InHand(j) ==
    /\ j.step = "idle" => j = NoJob
    /\ j.step # "idle" => j.op # "none"
    /\ j.step = "save" => j.op \notin {"publish", "delete"}
    /\ j.step \in {"detach", "publish"} => j.op = "publish"
    /\ j.step = "compile" => j.op \in {"publish", "enable", "disable"}
    /\ j.step = "cleanup" => j.op \in {"publish", "delete"}
    /\ j.step = "commit" => j.op \in {"publish", "enable", "disable", "delete"}
    /\ j.step = "delete" => j.op = "delete"
    /\ j.op = "update" => j.input # 0
    /\ j.step \notin {"idle", "read"} => j.site.config # 0
    /\ j.step \in {"idle", "read", "bindings", "save", "detach", "publish"} => j.detached = {}

Handled == \A a \in Admins : InHand(job[a])

\* A release that is still to be committed has a created_at of its own.
Stamped == \A a \in Admins : At(a, "commit") =>
              /\ job[a].release.at \in 1..clock
              /\ \A r \in releases : r.at # job[a].release.at
              /\ \A b \in Admins : At(b, "commit") /\ job[b].release.at = job[a].release.at
                                   => a = b

\* Versions count saves, and each request saves a new version once at most: those
\* still to do it have a version left.
Edits(j)  == /\ j.op \in {"update", "bind", "switch", "enable", "disable"}
             /\ j.step \in {"read", "bindings", "save"}
Editing   == {a \in Admins : Edits(job[a])}
Fits(v)   == v + Cardinality(Editing) <= requests
Roomy     == /\ IsFiniteSet(Editing) /\ Cardinality(Editing) <= requests
             /\ \A v \in Versions : configs[v] # 0 => Fits(v)
             /\ \A a \in Admins : /\ job[a].step \notin {"idle", "read", "save"} =>
                                        Fits(job[a].site.version)
                                  /\ job[a].step = "save" => Fits(job[a].site.version - 1)

\* Before the site is created nothing is there.
Blank == requests = 0 => /\ ~site.exists /\ \A v \in Versions : configs[v] = 0
                         /\ releases = {} /\ job = [a \in Admins |-> NoJob]

TypeInv == /\ RowType /\ ConfigType /\ ReleaseType /\ JobType /\ CountType
           /\ Stored /\ Handled /\ Stamped /\ Roomy /\ Blank

LEMMA TypeInvOK == TypeInv => TypeOK
BY DEF TypeInv, TypeOK, RowType, ConfigType, ReleaseType, JobType, CountType, Job, Steps

LEMMA NoJobFacts == NoJob \in Job /\ InHand(NoJob) /\ ~Edits(NoJob)
<1>1. NoSite \in SiteRecord /\ NoRelease \in Release
    BY PublishingAssumption
    DEF NoSite, NoRelease, SiteRecord, Release, Statuses, Contents, Versions
<1> QED BY <1>1, PublishingAssumption
        DEF NoJob, Job, Ops, Steps, Contents, InHand, Edits

LEMMA TypeInit == Init => TypeInv
<1> SUFFICES ASSUME Init PROVE TypeInv
    OBVIOUS
<1>1. RowType /\ ConfigType /\ ReleaseType /\ JobType /\ CountType /\ Stored /\ Blank
    BY NoJobFacts, PublishingAssumption
    DEF Init, RowType, ConfigType, ReleaseType, JobType, CountType, Stored, Blank,
        Statuses, Contents, Versions
<1>2. Handled /\ Stamped
    BY NoJobFacts DEF Init, Handled, Stamped, At, NoJob
<1>3. Roomy
  <2>1. Editing = {}
      BY NoJobFacts DEF Init, Editing
  <2>2. IsFiniteSet(Editing) /\ Cardinality(Editing) = 0
      BY <2>1, FS_EmptySet
  <2> QED BY <2>2 DEF Init, Roomy, NoJob, Fits
<1> QED BY <1>1, <1>2, <1>3 DEF TypeInv

(***************************************************************************)
(* The newest of some stored versions.                                     *)
(***************************************************************************)
Top(c) == CHOOSE v \in Versions : /\ c[v] # 0
                                  /\ \A w \in Versions : c[w] # 0 => w <= v

LEMMA TopFacts ==
    ASSUME NEW c \in [Versions -> Contents], NEW u \in Versions, c[u] # 0
    PROVE  /\ Top(c) \in Versions /\ c[Top(c)] # 0
           /\ \A w \in Versions : c[w] # 0 => w <= Top(c)
<1> DEFINE T == {k \in Nat : \E v \in Versions : c[v] # 0 /\ k = MaxRequests - v}
<1>1. MaxRequests - u \in T
    BY PublishingAssumption DEF Versions
<1>2. \E x \in T : \A y \in T : ~(<<y, x>> \in OpToRel(<, Nat))
    BY <1>1, NatLessThanWellFounded, WFMin
<1>3. PICK x \in T : \A y \in T : ~(<<y, x>> \in OpToRel(<, Nat))
    BY <1>2
<1>4. PICK v \in Versions : c[v] # 0 /\ x = MaxRequests - v
    BY <1>3
<1>5. ASSUME NEW w \in Versions, c[w] # 0
      PROVE  w <= v
  <2>1. MaxRequests - w \in T
      BY <1>5, PublishingAssumption DEF Versions
  <2>2. ~(MaxRequests - w < x)
      BY <2>1, <1>3 DEF OpToRel
  <2> QED BY <2>2, <1>4, PublishingAssumption DEF Versions
<1> QED BY <1>4, <1>5 DEF Top

LEMMA TopIs ==
    ASSUME NEW c \in [Versions -> Contents], NEW u \in Versions, c[u] # 0,
           \A w \in Versions : c[w] # 0 => w <= u
    PROVE  Top(c) = u
<1>1. /\ Top(c) \in Versions /\ c[Top(c)] # 0
      /\ \A w \in Versions : c[w] # 0 => w <= Top(c)
    BY TopFacts
<1> QED BY <1>1, PublishingAssumption DEF Versions

LEMMA VersionFacts ==
    ASSUME ConfigType, Stored, site.exists
    PROVE  /\ Version \in Versions /\ configs[Version] \in Contents \ {0}
           /\ \A w \in Versions : configs[w] # 0 => w <= Version
<1>1. PICK u \in Versions : configs[u] # 0
    BY DEF Stored
<1>2. Version = Top(configs)
    BY DEF Version, Top
<1>3. /\ Top(configs) \in Versions /\ configs[Top(configs)] # 0
      /\ \A w \in Versions : configs[w] # 0 => w <= Top(configs)
    BY <1>1, TopFacts DEF ConfigType
<1> QED BY <1>2, <1>3 DEF ConfigType

(***************************************************************************)
(* The parts of the invariant about requests, for a step of one of them.   *)
(***************************************************************************)
Stale(j) == [j EXCEPT !.fresh = FALSE]

LEMMA StaleFacts ==
    ASSUME NEW j \in Job, InHand(j)
    PROVE  /\ Stale(j) \in Job /\ InHand(Stale(j)) /\ Edits(Stale(j)) = Edits(j)
           /\ Stale(j).step = j.step /\ Stale(j).site = j.site /\ Stale(j).op = j.op
           /\ Stale(j).detached = j.detached /\ Stale(j).release = j.release
           /\ ~Stale(j).fresh
<1>1. /\ Stale(j) \in Job
      /\ Stale(j).step = j.step /\ Stale(j).site = j.site /\ Stale(j).op = j.op
      /\ Stale(j).detached = j.detached /\ Stale(j).release = j.release
      /\ Stale(j).input = j.input /\ ~Stale(j).fresh
    BY DEF Job, Stale
<1>2. j.step = "idle" => Stale(j) = NoJob
  <2>1. j = [j EXCEPT !.fresh = j.fresh]
      BY DEF Job
  <2>2. j.step = "idle" => j = NoJob /\ j.fresh = FALSE
      BY DEF InHand, NoJob
  <2> QED BY <2>1, <2>2 DEF Stale
<1> QED BY <1>1, <1>2 DEF InHand, Edits

LEMMA JobStep ==
    ASSUME JobType, Handled, NEW a \in Admins, NEW j \in Job, InHand(j),
           Continue(a, j) \/ Written(a, j)
    PROVE  /\ JobType' /\ Handled' /\ job'[a] = j
           /\ \A b \in Admins \ {a} : job'[b] = job[b] \/ job'[b] = Stale(job[b])
<1>1. \A b \in Admins : job[b] \in Job /\ InHand(job[b])
    BY DEF JobType, Handled
<1>2. job'[a] = j /\ \A b \in Admins \ {a} : job'[b] = job[b] \/ job'[b] = Stale(job[b])
    BY DEF Continue, Written, JobType, Stale
<1>3. job' = [b \in Admins |-> job'[b]]
    BY DEF Continue, Written, JobType
<1>4. \A b \in Admins : job'[b] \in Job /\ InHand(job'[b])
    BY <1>1, <1>2, StaleFacts
<1> QED BY <1>2, <1>3, <1>4 DEF JobType, Handled

\* How the requests still to save change in number.
LEMMA EditingStep ==
    ASSUME JobType, Handled, IsFiniteSet(Editing), NEW a \in Admins, NEW j \in Job, InHand(j),
           Continue(a, j) \/ Written(a, j)
    PROVE  /\ IsFiniteSet(Editing')
           /\ Cardinality(Editing) \in Nat /\ Cardinality(Editing') \in Nat
           /\ (Edits(job[a]) <=> Edits(j)) => Cardinality(Editing') = Cardinality(Editing)
           /\ Edits(job[a]) /\ ~Edits(j) => Cardinality(Editing') = Cardinality(Editing) - 1
           /\ ~Edits(job[a]) /\ Edits(j) => Cardinality(Editing') = Cardinality(Editing) + 1
           /\ Edits(job[a]) => Cardinality(Editing) >= 1
<1>1. job'[a] = j /\ \A b \in Admins \ {a} : Edits(job'[b]) <=> Edits(job[b])
  <2>1. \A b \in Admins : job[b] \in Job /\ InHand(job[b])
      BY DEF JobType, Handled
  <2> QED BY <2>1, JobStep, StaleFacts
<1>2. Editing' = IF Edits(j) THEN Editing \cup {a} ELSE Editing \ {a}
    BY <1>1 DEF Editing
<1>3. a \in Editing <=> Edits(job[a])
    BY DEF Editing
<1>4. Cardinality(Editing) \in Nat
    BY FS_CardinalityType
<1>5. CASE Edits(j) /\ Edits(job[a])
  <2>1. Editing' = Editing
      BY <1>2, <1>3, <1>5
  <2>2. Cardinality(Editing \ {a}) \in Nat /\ Cardinality(Editing \ {a}) = Cardinality(Editing) - 1
      BY <1>3, <1>5, FS_RemoveElement, FS_CardinalityType
  <2> QED BY <2>1, <2>2, <1>4, <1>5
<1>6. CASE Edits(j) /\ ~Edits(job[a])
  <2>1. Editing' = Editing \cup {a} /\ a \notin Editing
      BY <1>2, <1>3, <1>6
  <2>2. IsFiniteSet(Editing') /\ Cardinality(Editing') = Cardinality(Editing) + 1
      BY <2>1, FS_AddElement
  <2> QED BY <2>2, <1>4, <1>6
<1>7. CASE ~Edits(j) /\ Edits(job[a])
  <2>1. Editing' = Editing \ {a} /\ a \in Editing
      BY <1>2, <1>3, <1>7
  <2>2. IsFiniteSet(Editing') /\ Cardinality(Editing') = Cardinality(Editing) - 1
      BY <2>1, FS_RemoveElement
  <2>3. Cardinality(Editing') \in Nat
      BY <2>2, FS_CardinalityType
  <2> QED BY <2>2, <2>3, <1>4, <1>7
<1>8. CASE ~Edits(j) /\ ~Edits(job[a])
  <2>1. Editing' = Editing
      BY <1>2, <1>3, <1>8
  <2> QED BY <2>1, <1>4, <1>8
<1> QED BY <1>5, <1>6, <1>7, <1>8

LEMMA EditingFacts ==
    ASSUME IsFiniteSet(Editing), NEW a \in Admins, Edits(job[a])
    PROVE  Cardinality(Editing) \in Nat /\ Cardinality(Editing) >= 1
<1>1. a \in Editing
    BY DEF Editing
<1>2. /\ Cardinality(Editing) \in Nat /\ Cardinality(Editing \ {a}) \in Nat
      /\ Cardinality(Editing \ {a}) = Cardinality(Editing) - 1
    BY <1>1, FS_RemoveElement, FS_CardinalityType
<1> QED BY <1>2

\* Room is kept by a request that makes room for what it holds and stores.
LEMMA RoomyStep ==
    ASSUME TypeInv, NEW a \in Admins, NEW j \in Job, InHand(j),
           Continue(a, j) \/ Written(a, j),
           requests' \in Nat, requests <= requests',
           Cardinality(Editing') - Cardinality(Editing) <= requests' - requests,
           \A v \in Versions : configs'[v] # 0 =>
               configs[v] # 0 \/ v + Cardinality(Editing') <= requests',
           j.step \notin {"idle", "read", "save"} =>
               j.site.version + Cardinality(Editing') <= requests',
           j.step = "save" => j.site.version - 1 + Cardinality(Editing') <= requests'
    PROVE  Roomy'
<1>1. /\ IsFiniteSet(Editing') /\ Cardinality(Editing) \in Nat /\ Cardinality(Editing') \in Nat
    BY EditingStep DEF TypeInv, Roomy
<1>2. requests \in Nat /\ Versions \subseteq Nat
    BY PublishingAssumption DEF TypeInv, CountType, Versions
<1>3. Cardinality(Editing') <= requests'
    BY <1>1, <1>2 DEF TypeInv, Roomy
<1>4. ASSUME NEW v \in Versions, configs'[v] # 0
      PROVE  v + Cardinality(Editing') <= requests'
    BY <1>1, <1>2, <1>4 DEF TypeInv, Roomy, Fits
<1>5. ASSUME NEW b \in Admins
      PROVE  /\ job'[b].step \notin {"idle", "read", "save"} =>
                   job'[b].site.version + Cardinality(Editing') <= requests'
             /\ job'[b].step = "save" =>
                   job'[b].site.version - 1 + Cardinality(Editing') <= requests'
  <2>1. CASE b = a
      BY <2>1, JobStep DEF TypeInv
  <2>2. CASE b # a
    <3>1. job[b] \in Job /\ InHand(job[b])
        BY DEF TypeInv, JobType, Handled
    <3>2. job'[b].step = job[b].step /\ job'[b].site = job[b].site
        BY <2>2, <3>1, JobStep, StaleFacts DEF TypeInv
    <3>3. job[b].site.version \in Nat
        BY <3>1, <1>2 DEF Job, SiteRecord
    <3>4. /\ job[b].step \notin {"idle", "read", "save"} =>
                job[b].site.version + Cardinality(Editing) <= requests
          /\ job[b].step = "save" =>
                job[b].site.version - 1 + Cardinality(Editing) <= requests
        BY DEF TypeInv, Roomy, Fits
    <3> QED BY <3>2, <3>3, <3>4, <1>1, <1>2
  <2> QED BY <2>1, <2>2
<1> QED BY <1>1, <1>3, <1>4, <1>5 DEF Roomy, Fits

LEMMA StampedStep ==
    ASSUME TypeInv, NEW a \in Admins, NEW j \in Job, InHand(j),
           Continue(a, j) \/ Written(a, j), j.step # "commit", UNCHANGED <<releases, clock>>
    PROVE  Stamped'
<1>1. \A b \in Admins : job[b] \in Job /\ InHand(job[b])
    BY DEF TypeInv, JobType, Handled
<1>2. job'[a].step # "commit"
    BY JobStep DEF TypeInv
<1>3. \A b \in Admins \ {a} : job'[b].step = job[b].step /\ job'[b].release = job[b].release
    BY <1>1, JobStep, StaleFacts DEF TypeInv
<1> QED BY <1>2, <1>3 DEF TypeInv, Stamped, At

\* Somebody is at work only after the site was created.
LEMMA Busy ==
    ASSUME TypeInv, NEW a \in Admins, ~At(a, "idle")
    PROVE  requests \in Nat /\ requests > 0
BY PublishingAssumption DEF TypeInv, CountType, Blank, At, NoJob

\* A request goes on to j, or ends, and stores nothing.
LEMMA QuietStep ==
    ASSUME TypeInv, NEW a \in Admins, NEW j \in Job, InHand(j), ~At(a, "idle"),
           Continue(a, j) \/ Written(a, j), Edits(j) => Edits(job[a]), j.step # "commit",
           UNCHANGED <<site, configs, releases, clock, requests>>, drops' \in 0..MaxDrops,
           j.step \notin {"idle", "read", "save"} => Fits(j.site.version),
           j.step = "save" => Fits(j.site.version - 1)
    PROVE  TypeInv'
<1>1. requests \in Nat /\ requests > 0
    BY Busy
<1>2. /\ Cardinality(Editing) \in Nat /\ Cardinality(Editing') \in Nat
      /\ Cardinality(Editing') <= Cardinality(Editing)
    BY EditingStep DEF TypeInv, Roomy
<1>3. j.site.version \in Nat
    BY PublishingAssumption DEF Job, SiteRecord, Versions
<1>4. Roomy'
    BY <1>1, <1>2, <1>3, RoomyStep DEF Fits
<1>5. JobType' /\ Handled' /\ Stamped'
    BY JobStep, StampedStep DEF TypeInv
<1>6. RowType' /\ ConfigType' /\ ReleaseType' /\ CountType' /\ Stored' /\ Blank'
    BY <1>1 DEF TypeInv, RowType, ConfigType, ReleaseType, CountType, Stored, Blank
<1> QED BY <1>4, <1>5, <1>6 DEF TypeInv

LEMMA QuietEnd ==
    ASSUME TypeInv, NEW a \in Admins, ~At(a, "idle"), Continue(a, NoJob),
           UNCHANGED <<site, configs, releases, clock, requests>>, drops' \in 0..MaxDrops
    PROVE  TypeInv'
<1>1. NoJob.step = "idle"
    BY DEF NoJob
<1> QED BY <1>1, NoJobFacts, QuietStep

-----------------------------------------------------------------------------
(* Types: the actions.                                                     *)

LEMMA TypeCreate ==
    ASSUME TypeInv, CreateSite
    PROVE  TypeInv'
<1> DEFINE s == [NoSite EXCEPT !.fields = 1, !.config = 1]
<1>1. /\ requests = 0 /\ requests' = 1 /\ requests < MaxRequests
      /\ UNCHANGED <<releases, clock, job, drops>>
      /\ site' = [exists |-> TRUE, status |-> s.status, fields |-> s.fields, bound |-> s.bound]
      /\ configs' = [configs EXCEPT ![s.version] = s.config]
    BY DEF CreateSite, SaveSite, Request
<1>2. /\ s.status = "draft" /\ s.fields = 1 /\ s.bound = {} /\ s.version = 1 /\ s.config = 1
    BY DEF NoSite
<1>3. 1 \in Versions /\ 1 \in Contents
    BY PublishingAssumption DEF Versions, Contents
<1>4. /\ configs' \in [Versions -> Contents] /\ configs'[1] = 1
      /\ \A v \in Versions : configs'[v] # 0 => v = 1
    BY <1>1, <1>2, <1>3 DEF TypeInv, ConfigType, Blank
<1>5. RowType' /\ ConfigType' /\ Stored'
    BY <1>1, <1>2, <1>3, <1>4 DEF RowType, ConfigType, Stored, Statuses
<1>6. ReleaseType' /\ JobType' /\ CountType' /\ Handled' /\ Stamped'
    BY <1>1, PublishingAssumption
    DEF TypeInv, ReleaseType, JobType, CountType, Handled, Stamped, At
<1>7. Roomy' /\ Blank'
  <2>1. \A a \in Admins : job[a] = NoJob
      BY <1>1 DEF TypeInv, Blank
  <2>2. Editing' = {}
      BY <1>1, <2>1, NoJobFacts DEF Editing
  <2>3. IsFiniteSet(Editing') /\ Cardinality(Editing') = 0
      BY <2>2, FS_EmptySet
  <2> QED BY <1>1, <1>4, <2>1, <2>3 DEF Roomy, Fits, Blank, NoJob
<1> QED BY <1>5, <1>6, <1>7 DEF TypeInv

LEMMA TypeBegin ==
    ASSUME TypeInv, NEW a \in Admins, NEW op \in Ops, NEW nodes \in SUBSET Nodes,
           Begin(a, op, nodes)
    PROVE  TypeInv'
<1> DEFINE j == [NoJob EXCEPT !.op = op, !.step = "read", !.nodes = nodes, !.fresh = TRUE,
                              !.input = IF op = "update" THEN requests' ELSE 0]
<1>1. /\ requests \in Nat /\ requests > 0 /\ requests' = requests + 1 /\ requests' \in 0..MaxRequests
      /\ Continue(a, j) /\ At(a, "idle")
      /\ UNCHANGED <<site, configs, releases, clock, drops>>
    BY PublishingAssumption DEF Begin, Request, TypeInv, CountType
<1>2. /\ j.op = op /\ j.step = "read" /\ j.detached = {} /\ j.nodes = nodes
      /\ j.input = IF op = "update" THEN requests' ELSE 0
    BY DEF NoJob
<1>3. j \in Job
    BY <1>1, NoJobFacts DEF Job, NoJob, Steps, Contents
<1>4. InHand(j)
    BY <1>1, <1>2 DEF InHand, Ops
<1> HIDE DEF j
<1>5. ~Edits(job[a])
    BY <1>1 DEF Edits, At
<1>6. /\ Cardinality(Editing) \in Nat /\ Cardinality(Editing') \in Nat
      /\ Cardinality(Editing') <= Cardinality(Editing) + 1
    BY <1>1, <1>3, <1>4, <1>5, EditingStep DEF TypeInv, Roomy
<1>7. Roomy'
    BY <1>1, <1>2, <1>3, <1>4, <1>6, RoomyStep
<1>8. JobType' /\ Handled' /\ Stamped'
    BY <1>1, <1>2, <1>3, <1>4, JobStep, StampedStep DEF TypeInv
<1>9. RowType' /\ ConfigType' /\ ReleaseType' /\ CountType' /\ Stored' /\ Blank'
    BY <1>1 DEF TypeInv, RowType, ConfigType, ReleaseType, CountType, Stored, Blank
<1> QED BY <1>7, <1>8, <1>9 DEF TypeInv

LEMMA TypeReadSite ==
    ASSUME TypeInv, NEW a \in Admins, ReadSite(a)
    PROVE  TypeInv'
<1>1. /\ At(a, "read") /\ ~At(a, "idle") /\ job[a] \in Job /\ InHand(job[a])
      /\ UNCHANGED <<site, configs, releases, clock, requests>> /\ drops' \in 0..MaxDrops
    BY DEF ReadSite, At, TypeInv, JobType, Handled, CountType
<1>2. CASE ~site.exists
    BY <1>1, <1>2, QuietEnd DEF ReadSite
<1>3. CASE site.exists
  <2> DEFINE s == [status |-> site.status, fields |-> site.fields,
                   config |-> configs[Version], version |-> Version, bound |-> {}]
             j == [job[a] EXCEPT !.step = "bindings", !.site = s]
  <2>1. /\ Version \in Versions /\ configs[Version] \in Contents \ {0}
      BY <1>3, VersionFacts DEF TypeInv
  <2>2. s \in SiteRecord
      BY <2>1 DEF SiteRecord, TypeInv, RowType
  <2>3. j \in Job
      BY <1>1, <2>2 DEF Job, Steps
  <2>4. /\ j.step = "bindings" /\ j.site = s /\ j.op = job[a].op /\ j.input = job[a].input
        /\ j.detached = job[a].detached /\ j.site.version = Version
        /\ j.site.config = configs[Version]
      BY <1>1 DEF Job
  <2>5. InHand(j)
      BY <1>1, <2>1, <2>4 DEF InHand, At
  <2>6. Edits(j) => Edits(job[a])
      BY <1>1, <2>4 DEF Edits, At
  <2>7. Fits(j.site.version)
      BY <2>1, <2>4 DEF TypeInv, Roomy
  <2>8. Continue(a, j)
      BY <1>3 DEF ReadSite
  <2> HIDE DEF j
  <2> QED BY <1>1, <2>3, <2>4, <2>5, <2>6, <2>7, <2>8, QuietStep
<1> QED BY <1>2, <1>3

\* What an edit makes of a copy, and what it leaves.
LEMMA EditedFacts ==
    ASSUME NEW j \in Job, InHand(j), NEW s \in SiteRecord, s.config # 0,
           Edits(j) => s.version + 1 \in Versions, j.step = "bindings"
    PROVE  /\ Edited(j, s) \in SiteRecord /\ Edited(j, s).config # 0
           /\ Edited(j, s).version \in {s.version, s.version + 1}
           /\ \/ Edited(j, s).fields = Edited(j, s).config
              \/ Edited(j, s).fields = s.fields /\ Edited(j, s).config = s.config
           /\ j.op \in {"publish", "delete"} => Edited(j, s) = s
           /\ j.op \in {"enable", "disable"} => Edited(j, s).bound = s.bound
<1>1. /\ j.op \in Ops /\ j.input \in Contents /\ j.nodes \in SUBSET Nodes
      /\ j.op = "update" => j.input # 0
    BY DEF Job, InHand
<1>2. j.op \in {"update", "bind", "switch", "enable", "disable"} => s.version + 1 \in Versions
    BY DEF Edits
<1>3. CASE j.op = "update"
    BY <1>1, <1>2, <1>3 DEF Edited, SiteRecord, Statuses
<1>4. CASE j.op = "bind"
    BY <1>1, <1>2, <1>4 DEF Edited, SiteRecord, Statuses
<1>5. CASE j.op = "switch"
    BY <1>1, <1>2, <1>5 DEF Edited, SiteRecord, Statuses
<1>6. CASE j.op = "enable"
    BY <1>1, <1>2, <1>6 DEF Edited, SiteRecord, Statuses
<1>7. CASE j.op = "disable"
    BY <1>1, <1>2, <1>7 DEF Edited, SiteRecord, Statuses
<1>8. CASE j.op \in {"publish", "delete"}
    BY <1>1, <1>8 DEF Edited, SiteRecord, Statuses
<1> QED BY <1>1, <1>3, <1>4, <1>5, <1>6, <1>7, <1>8 DEF Ops

LEMMA TypeReadBindings ==
    ASSUME TypeInv, NEW a \in Admins, ReadBindings(a)
    PROVE  TypeInv'
<1>1. /\ At(a, "bindings") /\ ~At(a, "idle") /\ job[a] \in Job /\ InHand(job[a])
      /\ UNCHANGED <<site, configs, releases, clock, requests>> /\ drops' \in 0..MaxDrops
    BY DEF ReadBindings, At, TypeInv, JobType, Handled, CountType
<1> DEFINE read == [job[a].site EXCEPT !.bound = site.bound]
           next == CASE job[a].op = "publish" -> "detach"
                     [] job[a].op = "delete"  -> IF site.bound = {} THEN "delete" ELSE "cleanup"
                     [] OTHER                 -> "save"
           held == IF job[a].op = "delete" THEN site.bound ELSE {}
           j    == [job[a] EXCEPT !.site = Edited(job[a], read), !.step = next,
                                  !.detached = held]
<1>2. Continue(a, NoJob) \/ Continue(a, j)
    BY DEF ReadBindings
<1>3. CASE Continue(a, NoJob)
    BY <1>1, <1>3, QuietEnd
<1>4. CASE Continue(a, j)
  <2>1. /\ read \in SiteRecord /\ read.config # 0 /\ read.version = job[a].site.version
        /\ read.version \in Nat
      BY <1>1, PublishingAssumption
      DEF Job, SiteRecord, InHand, At, TypeInv, RowType, Versions
  <2>2. Fits(read.version) /\ Cardinality(Editing) \in Nat /\ requests \in 0..MaxRequests
      BY <1>1, <2>1, FS_CardinalityType DEF TypeInv, Roomy, At, CountType
  <2>3. Edits(job[a]) => Cardinality(Editing) >= 1
      BY EditingFacts DEF TypeInv, Roomy
  <2>4. Edits(job[a]) => read.version + 1 \in Versions
      BY <2>1, <2>2, <2>3, PublishingAssumption DEF Fits, Versions
  <2> DEFINE s == Edited(job[a], read)
  <2>5. /\ s \in SiteRecord /\ s.config # 0 /\ s.version \in {read.version, read.version + 1}
        /\ job[a].op \in {"publish", "delete"} => s = read
      BY <1>1, <2>1, <2>4, EditedFacts DEF At
  <2>6. /\ next \in {"detach", "delete", "cleanup", "save"}
        /\ next = "save" <=> job[a].op \notin {"publish", "delete"}
        /\ next = "detach" <=> job[a].op = "publish"
        /\ next \in {"delete", "cleanup"} <=> job[a].op = "delete"
      OBVIOUS
  <2>7. held \in SUBSET Nodes /\ (job[a].op # "delete" => held = {})
      BY DEF TypeInv, RowType
  <2> HIDE DEF s, read, next, held
  <2>8. /\ j \in Job /\ j.op = job[a].op /\ j.step = next /\ j.site = s /\ j.detached = held
        /\ j.input = job[a].input
      BY <1>1, <2>5, <2>6, <2>7 DEF Job, Steps, s
  <2> HIDE DEF j
  <2>9. InHand(j)
      BY <1>1, <2>5, <2>6, <2>7, <2>8 DEF InHand, At
  <2>10. Edits(j) => Edits(job[a])
      BY <1>1, <2>6, <2>8 DEF Edits, At
  <2>11. j.step # "save" => Fits(j.site.version)
      BY <2>2, <2>5, <2>6, <2>8
  <2>12. Fits(j.site.version - 1)
      BY <2>1, <2>2, <2>5, <2>8 DEF Fits
  <2> QED BY <1>1, <1>4, <2>6, <2>8, <2>9, <2>10, <2>11, <2>12, QuietStep
<1> QED BY <1>2, <1>3, <1>4

\* A request writes a site record back and goes on to j, or ends.
LEMMA StoreStep ==
    ASSUME TypeInv, NEW a \in Admins, NEW j \in Job, InHand(j), ~At(a, "idle"),
           Written(a, j), Edits(j) => Edits(job[a]), j.step \notin {"commit", "save"},
           NEW s \in SiteRecord, s.config # 0, SaveSite(s),
           UNCHANGED <<releases, clock, requests, drops>>,
           s.version + Cardinality(Editing') <= requests,
           j.step \notin {"idle", "read"} => j.site.version + Cardinality(Editing') <= requests
    PROVE  TypeInv'
<1>1. requests \in Nat /\ requests > 0
    BY Busy
<1>2. /\ Cardinality(Editing) \in Nat /\ Cardinality(Editing') \in Nat
      /\ Cardinality(Editing') <= Cardinality(Editing)
    BY EditingStep DEF TypeInv, Roomy
<1>3. /\ site' = [exists |-> TRUE, status |-> s.status, fields |-> s.fields, bound |-> s.bound]
      /\ configs' = [configs EXCEPT ![s.version] = s.config]
      /\ s.status \in Statuses /\ s.fields \in Contents /\ s.bound \in SUBSET Nodes
      /\ s.version \in Versions /\ s.config \in Contents
    BY DEF SaveSite, SiteRecord
<1>4. /\ configs' \in [Versions -> Contents] /\ configs'[s.version] # 0
      /\ \A v \in Versions : configs'[v] # 0 => configs[v] # 0 \/ v = s.version
    BY <1>3 DEF TypeInv, ConfigType
<1>5. Roomy'
    BY <1>1, <1>2, <1>4, RoomyStep
<1>6. JobType' /\ Handled' /\ Stamped'
    BY JobStep, StampedStep DEF TypeInv
<1>7. RowType' /\ ConfigType' /\ Stored'
    BY <1>3, <1>4 DEF RowType, ConfigType, Stored
<1>8. ReleaseType' /\ CountType' /\ Blank'
    BY <1>1 DEF TypeInv, ReleaseType, CountType, Blank
<1> QED BY <1>5, <1>6, <1>7, <1>8 DEF TypeInv

\* What a request that has saved its copy goes on to.
AfterSave(j) ==
    CASE j.op = "switch" -> [NoJob EXCEPT !.op = "publish", !.step = "read", !.fresh = j.fresh]
      [] j.op \in {"enable", "disable"} /\ j.site.bound # {} -> [j EXCEPT !.step = "compile"]
      [] OTHER -> NoJob

LEMMA AfterSaveFacts ==
    ASSUME NEW j \in Job, InHand(j), j.step = "save"
    PROVE  /\ AfterSave(j) \in Job /\ InHand(AfterSave(j)) /\ ~Edits(AfterSave(j))
           /\ AfterSave(j).step \in {"idle", "read", "compile"}
           /\ AfterSave(j).detached = {}
           /\ AfterSave(j).step = "compile" =>
                 /\ AfterSave(j) = [j EXCEPT !.step = "compile"]
                 /\ AfterSave(j).site = j.site /\ AfterSave(j).op = j.op
                 /\ j.op \in {"enable", "disable"} /\ AfterSave(j).fresh = j.fresh
<1>1. CASE j.op = "switch"
  <2> DEFINE k == [NoJob EXCEPT !.op = "publish", !.step = "read", !.fresh = j.fresh]
  <2>1. AfterSave(j) = k
      BY <1>1 DEF AfterSave
  <2>2. /\ k \in Job /\ k.op = "publish" /\ k.step = "read" /\ k.detached = {}
      BY NoJobFacts DEF NoJob, Job, Steps, Ops
  <2> HIDE DEF k
  <2>3. InHand(k) /\ ~Edits(k)
      BY <2>2 DEF InHand, Edits
  <2> QED BY <2>1, <2>2, <2>3
<1>2. CASE j.op \in {"enable", "disable"} /\ j.site.bound # {}
  <2> DEFINE k == [j EXCEPT !.step = "compile"]
  <2>1. AfterSave(j) = k
      BY <1>2 DEF AfterSave
  <2>2. /\ k \in Job /\ k.op = j.op /\ k.step = "compile" /\ k.detached = j.detached
        /\ k.site = j.site /\ k.input = j.input /\ k.fresh = j.fresh
      BY DEF Job, Steps
  <2> HIDE DEF k
  <2>3. InHand(k) /\ ~Edits(k) /\ k.detached = {}
      BY <1>2, <2>2 DEF InHand, Edits
  <2> QED BY <1>2, <2>1, <2>2, <2>3 DEF k
<1>3. CASE ~(j.op = "switch") /\ ~(j.op \in {"enable", "disable"} /\ j.site.bound # {})
  <2>1. AfterSave(j) = NoJob
      BY <1>3 DEF AfterSave
  <2> QED BY <2>1, NoJobFacts DEF NoJob
<1> QED BY <1>1, <1>2, <1>3

LEMMA TypeSave ==
    ASSUME TypeInv, NEW a \in Admins, Save(a)
    PROVE  TypeInv'
<1> DEFINE j == AfterSave(job[a])
<1>1. /\ At(a, "save") /\ ~At(a, "idle") /\ job[a] \in Job /\ InHand(job[a])
      /\ SaveSite(job[a].site) /\ Written(a, j) /\ UNCHANGED <<releases, clock, requests, drops>>
    BY DEF Save, AfterSave, At, TypeInv, JobType, Handled
<1>2. /\ j \in Job /\ InHand(j) /\ ~Edits(j) /\ j.step \in {"idle", "read", "compile"}
      /\ j.step = "compile" => j.site = job[a].site
    BY <1>1, AfterSaveFacts DEF At
<1> HIDE DEF j
<1>3. /\ job[a].site \in SiteRecord /\ job[a].site.config # 0 /\ job[a].site.version \in Nat
    BY <1>1, PublishingAssumption DEF Job, InHand, At, SiteRecord, Versions
<1>4. Edits(job[a])
    BY <1>1 DEF Edits, InHand, At, Job, Ops
<1>5. /\ Cardinality(Editing) \in Nat /\ Cardinality(Editing') = Cardinality(Editing) - 1
    BY <1>1, <1>2, <1>4, EditingStep DEF TypeInv, Roomy
<1>6. Fits(job[a].site.version - 1)
    BY <1>1 DEF TypeInv, Roomy, At
<1>7. job[a].site.version + Cardinality(Editing') <= requests
    BY <1>3, <1>5, <1>6 DEF Fits, TypeInv, CountType
<1> QED BY <1>1, <1>2, <1>3, <1>7, StoreStep

LEMMA TypePublish ==
    ASSUME TypeInv, NEW a \in Admins, Publish(a)
    PROVE  TypeInv'
<1> DEFINE s == [job[a].site EXCEPT
                    !.status = IF job[a].site.bound = {} THEN "draft" ELSE "published"]
<1>1. /\ At(a, "publish") /\ ~At(a, "idle") /\ job[a] \in Job /\ InHand(job[a])
      /\ SaveSite(s) /\ Written(a, NoJob) /\ UNCHANGED <<releases, clock, requests, drops>>
    BY DEF Publish, At, TypeInv, JobType, Handled
<1>2. s \in SiteRecord /\ s.config # 0 /\ s.version = job[a].site.version
    BY <1>1 DEF Job, InHand, At, SiteRecord, Statuses
<1> HIDE DEF s
<1>3. ~Edits(job[a])
    BY <1>1 DEF Edits, At
<1>4. Cardinality(Editing') = Cardinality(Editing)
    BY <1>1, <1>3, NoJobFacts, EditingStep DEF TypeInv, Roomy
<1>5. Fits(job[a].site.version)
    BY <1>1 DEF TypeInv, Roomy, At
<1>6. s.version + Cardinality(Editing') <= requests
    BY <1>2, <1>4, <1>5 DEF Fits
<1>7. NoJob.step = "idle"
    BY DEF NoJob
<1> QED BY <1>1, <1>2, <1>6, <1>7, NoJobFacts, StoreStep

LEMMA DetachedType ==
    ASSUME ReleaseType, NEW bound
    PROVE  DetachedNodes(bound) \in SUBSET Nodes
BY DEF ReleaseType, DetachedNodes, Last, OfScope, Release

LEMMA DetachedMembers ==
    ASSUME NEW bound, NEW n
    PROVE  n \in DetachedNodes(bound) <=>
              n \notin bound /\ \E r \in Last(OfScope("site")) : n \in r.targets
BY DEF DetachedNodes

LEMMA TypeDetach ==
    ASSUME TypeInv, NEW a \in Admins, Detach(a)
    PROVE  TypeInv'
<1>1. /\ At(a, "detach") /\ ~At(a, "idle") /\ job[a] \in Job /\ InHand(job[a])
      /\ job[a].op = "publish"
      /\ UNCHANGED <<site, configs, releases, clock, requests>> /\ drops' \in 0..MaxDrops
    BY DEF Detach, At, TypeInv, JobType, Handled, CountType, InHand
<1> DEFINE found    == DetachedNodes(job[a].site.bound)
           going(w) == [job[a] EXCEPT !.detached = found, !.step = w]
<1>2. Continue(a, NoJob) \/ \E w \in {"compile", "cleanup"} : Continue(a, going(w))
    BY DEF Detach
<1>3. CASE Continue(a, NoJob)
    BY <1>1, <1>3, QuietEnd
<1>4. ASSUME NEW w \in {"compile", "cleanup"}, Continue(a, going(w))
      PROVE  TypeInv'
  <2> DEFINE j == going(w)
  <2>1. found \in SUBSET Nodes
      BY DetachedType DEF TypeInv
  <2> HIDE DEF found
  <2>2. /\ j \in Job /\ j.step = w /\ j.op = job[a].op /\ j.site = job[a].site
        /\ j.input = job[a].input
      BY <1>1, <2>1 DEF Job, Steps
  <2>3. Continue(a, j)
      BY <1>4
  <2> HIDE DEF going
  <2>4. InHand(j) /\ ~Edits(j)
      BY <1>1, <2>2 DEF InHand, Edits, At
  <2>5. Fits(j.site.version)
      BY <1>1, <2>2 DEF TypeInv, Roomy, At
  <2> QED BY <1>1, <2>2, <2>3, <2>4, <2>5, QuietStep
<1> QED BY <1>2, <1>3, <1>4

LEMMA CompiledType ==
    ASSUME NEW s \in SiteRecord, NEW scope \in {"site", "site_cleanup"},
           NEW targets \in SUBSET Nodes, NEW at \in Nat
    PROVE  /\ Compiled(s, scope, targets, at) \in Release
           /\ Compiled(s, scope, targets, at).at = at
           /\ Compiled(s, scope, targets, at).scope = scope
           /\ Compiled(s, scope, targets, at).targets = targets
BY PublishingAssumption DEF Compiled, Release, SiteRecord, Contents

\* The release that is compiled at a step, and the request that has it in hand.
CompiledBy(j, at) ==
    IF j.step = "compile" THEN Compiled(j.site, "site", j.site.bound, at)
    ELSE Compiled(j.site, "site_cleanup", j.detached, at)
WithRelease(j, at) == [j EXCEPT !.step = "commit", !.release = CompiledBy(j, at)]

LEMMA WithReleaseFacts ==
    ASSUME NEW j \in Job, InHand(j), j.step \in {"compile", "cleanup"}, NEW at \in Nat
    PROVE  /\ WithRelease(j, at) \in Job /\ InHand(WithRelease(j, at))
           /\ ~Edits(WithRelease(j, at)) /\ ~Edits(j)
           /\ WithRelease(j, at).step = "commit" /\ WithRelease(j, at).op = j.op
           /\ WithRelease(j, at).site = j.site /\ WithRelease(j, at).detached = j.detached
           /\ WithRelease(j, at).release = CompiledBy(j, at)
           /\ WithRelease(j, at).release.at = at /\ WithRelease(j, at).fresh = j.fresh
<1>1. /\ CompiledBy(j, at) \in Release /\ CompiledBy(j, at).at = at
    BY CompiledType DEF CompiledBy, Job, SiteRecord
<1>2. /\ WithRelease(j, at) \in Job /\ WithRelease(j, at).step = "commit"
      /\ WithRelease(j, at).op = j.op /\ WithRelease(j, at).site = j.site
      /\ WithRelease(j, at).detached = j.detached /\ WithRelease(j, at).input = j.input
      /\ WithRelease(j, at).release = CompiledBy(j, at) /\ WithRelease(j, at).fresh = j.fresh
    BY <1>1 DEF WithRelease, Job, Steps
<1>3. InHand(WithRelease(j, at)) /\ ~Edits(WithRelease(j, at)) /\ ~Edits(j)
    BY <1>2 DEF InHand, Edits
<1> QED BY <1>1, <1>2, <1>3

LEMMA TypeCompile ==
    ASSUME TypeInv, NEW a \in Admins, Compile(a)
    PROVE  TypeInv'
<1> DEFINE j == WithRelease(job[a], clock')
<1>1. /\ job[a].step \in {"compile", "cleanup"} /\ ~At(a, "idle")
      /\ job[a] \in Job /\ InHand(job[a])
      /\ clock \in Nat /\ clock' = clock + 1
      /\ UNCHANGED <<site, configs, releases, requests, drops>>
    BY DEF Compile, At, TypeInv, JobType, Handled, ReleaseType
<1>2. Continue(a, j)
    BY DEF Compile, At, WithRelease, CompiledBy
<1>3. /\ j \in Job /\ InHand(j) /\ ~Edits(j) /\ ~Edits(job[a]) /\ j.step = "commit"
      /\ j.site = job[a].site /\ j.release.at = clock'
    BY <1>1, WithReleaseFacts
<1> HIDE DEF j
<1>4. requests \in Nat /\ requests > 0
    BY <1>1, Busy
<1>5. JobType' /\ Handled' /\ job'[a] = j
    BY <1>2, <1>3, JobStep DEF TypeInv
<1>6. Roomy'
  <2>1. Cardinality(Editing') = Cardinality(Editing) /\ Cardinality(Editing) \in Nat
      BY <1>2, <1>3, EditingStep DEF TypeInv, Roomy
  <2>2. Fits(job[a].site.version)
      BY <1>1 DEF TypeInv, Roomy
  <2>3. j.site.version + Cardinality(Editing') <= requests'
      BY <1>1, <1>3, <2>1, <2>2 DEF Fits
  <2> QED BY <1>1, <1>2, <1>3, <1>4, <2>1, <2>3, RoomyStep
<1>7. Stamped'
  <2>1. \A b \in Admins \ {a} : job'[b] = job[b]
      BY <1>2 DEF Continue, TypeInv, JobType
  <2>2. \A r \in releases : r.at \in 1..clock
      BY DEF TypeInv, ReleaseType
  <2>3. \A b \in Admins : job[b].step = "commit" => job[b].release.at \in 1..clock
      BY DEF TypeInv, Stamped, At
  <2>4. ASSUME NEW b \in Admins \ {a}, job'[b].step = "commit"
        PROVE  /\ job'[b].release.at \in 1..clock'
               /\ \A r \in releases' : r.at # job'[b].release.at
               /\ \A c \in Admins : job'[c].step = "commit"
                                    /\ job'[c].release.at = job'[b].release.at => b = c
      BY <1>1, <1>3, <1>5, <2>1, <2>3, <2>4 DEF TypeInv, Stamped, At
  <2>5. /\ job'[a].release.at \in 1..clock'
        /\ \A r \in releases' : r.at # job'[a].release.at
        /\ \A c \in Admins : job'[c].step = "commit"
                             /\ job'[c].release.at = job'[a].release.at => a = c
      BY <1>1, <1>3, <1>5, <2>1, <2>2, <2>3
  <2> QED BY <2>4, <2>5 DEF Stamped, At
<1>8. RowType' /\ ConfigType' /\ ReleaseType' /\ CountType' /\ Stored' /\ Blank'
    BY <1>1, <1>4 DEF TypeInv, RowType, ConfigType, ReleaseType, CountType, Stored, Blank
<1> QED BY <1>5, <1>6, <1>7, <1>8 DEF TypeInv

\* What a request that has committed its release goes on to.
Released(j) == [j EXCEPT !.release = NoRelease,
                         !.detached = IF j.release.scope = "site" THEN @ ELSE {}]
AfterCommit(j) ==
    CASE j.op \in {"enable", "disable"} -> NoJob
      [] j.op = "delete"                -> [Released(j) EXCEPT !.step = "delete"]
      [] j.op = "publish"               ->
           [Released(j) EXCEPT !.step = IF Released(j).detached # {} THEN "cleanup" ELSE "publish"]

LEMMA AfterCommitFacts ==
    ASSUME NEW j \in Job, InHand(j), j.step = "commit"
    PROVE  /\ AfterCommit(j) \in Job /\ InHand(AfterCommit(j)) /\ ~Edits(AfterCommit(j))
           /\ AfterCommit(j).step \in {"idle", "delete", "cleanup", "publish"}
           /\ AfterCommit(j).step = "idle" <=> j.op \in {"enable", "disable"}
           /\ AfterCommit(j).step # "idle" =>
                 /\ AfterCommit(j).site = j.site /\ AfterCommit(j).op = j.op
                 /\ AfterCommit(j).fresh = j.fresh
                 /\ AfterCommit(j).detached = IF j.release.scope = "site" THEN j.detached ELSE {}
<1>1. /\ Released(j) \in Job /\ Released(j).op = j.op /\ Released(j).site = j.site
      /\ Released(j).input = j.input /\ Released(j).fresh = j.fresh
      /\ Released(j).detached = IF j.release.scope = "site" THEN j.detached ELSE {}
    BY NoJobFacts DEF Released, Job, NoJob
<1>2. CASE j.op \in {"enable", "disable"}
  <2>1. AfterCommit(j) = NoJob
      BY <1>2 DEF AfterCommit
  <2> QED BY <1>2, <2>1, NoJobFacts DEF NoJob
<1>3. ASSUME NEW w \in {"delete", "cleanup", "publish"},
             AfterCommit(j) = [Released(j) EXCEPT !.step = w],
             j.op \notin {"enable", "disable"},
             w = "delete" <=> j.op = "delete",
             w = "publish" => Released(j).detached = {}
      PROVE  /\ AfterCommit(j) \in Job /\ InHand(AfterCommit(j)) /\ ~Edits(AfterCommit(j))
             /\ AfterCommit(j).step = w
             /\ AfterCommit(j).site = j.site /\ AfterCommit(j).op = j.op
             /\ AfterCommit(j).fresh = j.fresh
             /\ AfterCommit(j).detached = Released(j).detached
  <2>1. /\ AfterCommit(j) \in Job /\ AfterCommit(j).step = w
        /\ AfterCommit(j).site = j.site /\ AfterCommit(j).op = j.op
        /\ AfterCommit(j).input = j.input /\ AfterCommit(j).fresh = j.fresh
        /\ AfterCommit(j).detached = Released(j).detached
      BY <1>1, <1>3 DEF Job, Steps
  <2> QED BY <1>3, <2>1 DEF InHand, Edits
<1>4. CASE j.op = "delete"
  <2>1. AfterCommit(j) = [Released(j) EXCEPT !.step = "delete"]
      BY <1>4 DEF AfterCommit
  <2> QED BY <1>1, <1>3, <1>4, <2>1
<1>5. CASE j.op = "publish" /\ Released(j).detached # {}
  <2>1. AfterCommit(j) = [Released(j) EXCEPT !.step = "cleanup"]
      BY <1>5 DEF AfterCommit
  <2> QED BY <1>1, <1>3, <1>5, <2>1
<1>6. CASE j.op = "publish" /\ Released(j).detached = {}
  <2>1. AfterCommit(j) = [Released(j) EXCEPT !.step = "publish"]
      BY <1>6 DEF AfterCommit
  <2> QED BY <1>1, <1>3, <1>6, <2>1
<1>7. j.op \in {"publish", "enable", "disable", "delete"}
    BY DEF InHand
<1> QED BY <1>2, <1>4, <1>5, <1>6, <1>7

LEMMA TypeCommit ==
    ASSUME TypeInv, NEW a \in Admins, Commit(a)
    PROVE  TypeInv'
<1> DEFINE j == AfterCommit(job[a])
<1>1. /\ At(a, "commit") /\ ~At(a, "idle") /\ job[a] \in Job /\ InHand(job[a])
      /\ releases' = releases \cup {job[a].release}
      /\ UNCHANGED <<site, configs, clock, requests, drops>>
    BY DEF Commit, At, TypeInv, JobType, Handled
<1>2. Written(a, j)
    BY DEF Commit, AfterCommit, Released
<1>3. /\ j \in Job /\ InHand(j) /\ ~Edits(j)
      /\ j.step \in {"idle", "delete", "cleanup", "publish"}
      /\ j.step # "idle" => j.site = job[a].site
    BY <1>1, AfterCommitFacts DEF At
<1> HIDE DEF j
<1>4. requests \in Nat /\ requests > 0
    BY <1>1, Busy
<1>5. JobType' /\ Handled' /\ job'[a] = j
    BY <1>2, <1>3, JobStep DEF TypeInv
<1>6. Roomy'
  <2>1. Cardinality(Editing') = Cardinality(Editing) /\ Cardinality(Editing) \in Nat
      BY <1>1, <1>2, <1>3, EditingStep DEF TypeInv, Roomy, Edits, At
  <2>2. Fits(job[a].site.version)
      BY <1>1 DEF TypeInv, Roomy, At
  <2>3. j.step # "idle" => j.site.version + Cardinality(Editing') <= requests'
      BY <1>1, <1>3, <2>1, <2>2 DEF Fits
  <2> QED BY <1>1, <1>2, <1>3, <1>4, <2>1, <2>3, RoomyStep
<1>7. Stamped'
  <2>1. \A b \in Admins : job[b] \in Job /\ InHand(job[b])
      BY DEF TypeInv, JobType, Handled
  <2>2. \A b \in Admins \ {a} : job'[b].step = job[b].step /\ job'[b].release = job[b].release
      BY <1>2, <1>3, <2>1, JobStep, StaleFacts DEF TypeInv
  <2> QED BY <1>1, <1>3, <1>5, <2>2 DEF TypeInv, Stamped, At
<1>8. ReleaseType'
    BY <1>1 DEF TypeInv, ReleaseType, Stamped, Job
<1>9. RowType' /\ ConfigType' /\ CountType' /\ Stored' /\ Blank'
    BY <1>1, <1>4 DEF TypeInv, RowType, ConfigType, CountType, Stored, Blank
<1> QED BY <1>5, <1>6, <1>7, <1>8, <1>9 DEF TypeInv

LEMMA TypeDelete ==
    ASSUME TypeInv, NEW a \in Admins, DeleteRow(a)
    PROVE  TypeInv'
<1>1. /\ At(a, "delete") /\ ~At(a, "idle") /\ Written(a, NoJob)
      /\ site' = [exists |-> FALSE, status |-> "draft", fields |-> 0, bound |-> {}]
      /\ configs' = [v \in Versions |-> 0]
      /\ UNCHANGED <<releases, clock, requests, drops>>
    BY DEF DeleteRow, At
<1>2. requests \in Nat /\ requests > 0
    BY <1>1, Busy
<1>3. NoJob.step = "idle"
    BY DEF NoJob
<1>4. JobType' /\ Handled' /\ Stamped'
    BY <1>1, <1>3, NoJobFacts, JobStep, StampedStep DEF TypeInv
<1>5. Roomy'
  <2>1. Cardinality(Editing') = Cardinality(Editing) /\ Cardinality(Editing) \in Nat
      BY <1>1, NoJobFacts, EditingStep DEF TypeInv, Roomy, Edits, At
  <2> QED BY <1>1, <1>2, <1>3, <2>1, NoJobFacts, RoomyStep
<1>6. RowType' /\ ConfigType' /\ ReleaseType' /\ CountType' /\ Stored' /\ Blank'
    BY <1>1, <1>2, PublishingAssumption
    DEF TypeInv, RowType, ConfigType, ReleaseType, CountType, Stored, Blank, Statuses, Contents
<1> QED BY <1>4, <1>5, <1>6 DEF TypeInv

LEMMA TypeDrop ==
    ASSUME TypeInv, NEW a \in Admins, Drop(a)
    PROVE  TypeInv'
<1>1. drops' \in 0..MaxDrops
    BY PublishingAssumption DEF TypeInv, CountType, Drop
<1> QED BY <1>1, QuietEnd DEF Drop

LEMMA TypeFailover ==
    ASSUME TypeInv, FailoverRelease
    PROVE  TypeInv'
<1> DEFINE r == [at |-> clock', scope |-> "site", targets |-> site.bound, status |-> site.status,
                 fields |-> site.fields, config |-> configs[Version]]
<1>1. /\ site.exists /\ requests \in Nat /\ requests' = requests + 1 /\ requests' \in 0..MaxRequests
      /\ clock \in Nat /\ clock' = clock + 1 /\ releases' = releases \cup {r}
      /\ site' = [site EXCEPT !.status = "published"]
      /\ job' = [b \in Admins |-> Stale(job[b])]
      /\ UNCHANGED <<configs, drops>>
    BY PublishingAssumption DEF FailoverRelease, Request, TypeInv, CountType, ReleaseType, Stale
<1>2. \A b \in Admins : job[b] \in Job /\ InHand(job[b])
    BY DEF TypeInv, JobType, Handled
<1>3. r \in Release /\ r.at = clock'
  <2>1. configs[Version] \in Contents
      BY <1>1, VersionFacts DEF TypeInv
  <2> QED BY <1>1, <2>1 DEF Release, TypeInv, RowType
<1> HIDE DEF r
<1>4. JobType' /\ Handled'
    BY <1>1, <1>2, StaleFacts DEF JobType, Handled
<1>5. ReleaseType'
    BY <1>1, <1>3 DEF TypeInv, ReleaseType
<1>6. Stamped'
  <2>1. \A b \in Admins : job'[b].step = job[b].step /\ job'[b].release = job[b].release
      BY <1>1, <1>2, StaleFacts
  <2> QED BY <1>1, <1>3, <2>1 DEF TypeInv, Stamped, At
<1>7. Roomy'
  <2>1. \A b \in Admins : /\ Edits(job'[b]) <=> Edits(job[b])
                          /\ job'[b].step = job[b].step /\ job'[b].site = job[b].site
                          /\ job[b].site.version \in Nat
      BY <1>1, <1>2, StaleFacts, PublishingAssumption DEF Job, SiteRecord, Versions
  <2>2. Editing' = Editing
      BY <2>1 DEF Editing
  <2>3. Cardinality(Editing) \in Nat /\ Versions \subseteq Nat
      BY FS_CardinalityType, PublishingAssumption DEF TypeInv, Roomy, Versions
  <2>4. IsFiniteSet(Editing') /\ Cardinality(Editing') = Cardinality(Editing)
      BY <2>2 DEF TypeInv, Roomy
  <2> QED BY <1>1, <2>1, <2>3, <2>4 DEF TypeInv, Roomy, Fits
<1>8. RowType' /\ ConfigType' /\ CountType' /\ Stored' /\ Blank'
    BY <1>1 DEF TypeInv, RowType, ConfigType, CountType, Stored, Blank, Statuses
<1> QED BY <1>4, <1>5, <1>6, <1>7, <1>8 DEF TypeInv

LEMMA TypeNext == TypeInv /\ [Next]_vars => TypeInv'
<1>1. ASSUME TypeInv, UNCHANGED vars
      PROVE  TypeInv'
  <2>1. Editing' = Editing
      BY <1>1 DEF Editing, vars
  <2>2. Roomy'
      BY <1>1, <2>1 DEF TypeInv, vars, Roomy, Fits
  <2> QED BY <1>1, <2>2 DEF TypeInv, vars, RowType, ConfigType, ReleaseType, JobType, CountType,
                            Stored, Handled, Stamped, Blank, At
<1>2. ASSUME TypeInv, NEW a \in Admins, Step(a)
      PROVE  TypeInv'
    BY <1>2, TypeReadSite, TypeReadBindings, TypeSave, TypeDetach, TypeCompile, TypeCommit,
       TypePublish, TypeDelete DEF Step
<1>3. ASSUME TypeInv, NEW a \in Admins, NEW op \in Ops, NEW nodes \in SUBSET Nodes,
             Begin(a, op, nodes)
      PROVE  TypeInv'
    BY <1>3, TypeBegin
<1> QED BY <1>1, <1>2, <1>3, TypeCreate, TypeFailover, TypeDrop DEF Next, Ops

LEMMA TypeAlways == Spec => []TypeInv
BY TypeInit, TypeNext, PTL DEF Spec

\* Every variable keeps its type: in particular the version a request saves, one
\* more than the version it has read, never exceeds the number of requests,
\* whatever copies overtake one another in save_site, and no two releases of
\* the site have the same created_at.
THEOREM TypeCorrect == Spec => []TypeOK
BY TypeAlways, TypeInvOK, PTL

-----------------------------------------------------------------------------
(***************************************************************************)
(* Undisturbed requests.                                                   *)
(***************************************************************************)
Matches(s) == /\ site.exists /\ s.fields = site.fields
              /\ s.config = configs[Version] /\ s.version = Version

Copied(j) ==
    /\ j.step = "bindings" => Matches(j.site) /\ j.site.status = site.status
    /\ j.step = "save" =>
          /\ site.exists /\ j.site.version \in {Version, Version + 1}
          /\ \/ j.site.fields = j.site.config
             \/ j.site.fields = site.fields /\ j.site.config = configs[Version]
    /\ j.step \in {"detach", "compile", "cleanup", "commit", "publish"} => Matches(j.site)
    /\ j.step \in {"compile", "commit"} /\ j.op \in {"enable", "disable"} =>
          j.site.status = site.status /\ j.site.bound = site.bound

\* What a request that has its release compiled holds.
Ready(j) ==
    j.step = "commit" =>
        /\ \A r \in releases : r.at < j.release.at
        /\ \/ /\ j.release.scope = "site" /\ j.op # "delete"
              /\ j.release = Compiled(j.site, "site", j.site.bound, j.release.at)
           \/ /\ j.release.scope = "site_cleanup" /\ j.op \in {"publish", "delete"}
              /\ j.release.targets = j.detached

\* The contents of its copy are what the nodes apply last.
Reached(s) == \A n \in s.bound : \E r \in Newest(n) :
                 r.scope = "site" /\ r.fields = s.fields /\ r.config = s.config

Sent(j) ==
    j.op = "publish" =>
        /\ j.detached \cap j.site.bound = {}
        /\ j.step \in {"cleanup", "publish"} \/ (j.step = "commit" /\ j.release.scope = "site_cleanup")
              => Reached(j.site)
        /\ j.step = "compile" \/ (j.step = "commit" /\ j.release.scope = "site")
              => j.detached = DetachedNodes(j.site.bound)

Undisturbed(a) == Copied(job[a]) /\ Ready(job[a]) /\ Sent(job[a])
FreshInv       == \A a \in Admins : job[a].fresh => Undisturbed(a)

\* Others are disturbed by what is written, and by nothing else.
LEMMA FreshStep ==
    ASSUME TypeInv, FreshInv, NEW a \in Admins, NEW j,
           \/ Continue(a, j) /\ UNCHANGED <<site, configs, releases>>
           \/ Written(a, j),
           j.fresh => Undisturbed(a)'
    PROVE  FreshInv'
<1>1. job'[a] = j
    BY DEF Continue, Written, TypeInv, JobType
<1>2. ASSUME NEW b \in Admins \ {a}, job'[b].fresh
      PROVE  Undisturbed(b)'
  <2>1. CASE Written(a, j)
    <3>1. job'[b] = Stale(job[b])
        BY <2>1 DEF Written, Stale
    <3>2. job[b] \in Job /\ InHand(job[b])
        BY DEF TypeInv, JobType, Handled
    <3> QED BY <1>2, <3>1, <3>2, StaleFacts
  <2>2. CASE Continue(a, j) /\ UNCHANGED <<site, configs, releases>>
    <3>1. job'[b] = job[b]
        BY <2>2 DEF Continue, TypeInv, JobType
    <3>2. Undisturbed(b)
        BY <1>2, <3>1 DEF FreshInv
    <3> QED BY <2>2, <3>1, <3>2
            DEF Undisturbed, Copied, Ready, Sent, Matches, Version, Reached, Newest,
                DetachedNodes, OfScope
  <2> QED BY <2>1, <2>2
<1> QED BY <1>1, <1>2 DEF FreshInv

LEMMA FreshEnd ==
    ASSUME TypeInv, FreshInv, NEW a \in Admins,
           \/ Continue(a, NoJob) /\ UNCHANGED <<site, configs, releases>>
           \/ Written(a, NoJob)
    PROVE  FreshInv'
<1>1. ~NoJob.fresh
    BY DEF NoJob
<1> QED BY <1>1, FreshStep

LEMMA FreshInit == Init => FreshInv
BY DEF Init, FreshInv, NoJob

LEMMA FreshCreate ==
    ASSUME TypeInv, CreateSite
    PROVE  FreshInv'
BY DEF TypeInv, Blank, CreateSite, FreshInv, NoJob

LEMMA FreshFailover ==
    ASSUME TypeInv, FailoverRelease
    PROVE  FreshInv'
<1>1. \A b \in Admins : job[b] \in Job /\ InHand(job[b])
    BY DEF TypeInv, JobType, Handled
<1>2. \A b \in Admins : job'[b] = Stale(job[b])
    BY DEF FailoverRelease, Stale
<1> QED BY <1>1, <1>2, StaleFacts DEF FreshInv

LEMMA FreshBegin ==
    ASSUME TypeInv, FreshInv, NEW a \in Admins, NEW op \in Ops, NEW nodes \in SUBSET Nodes,
           Begin(a, op, nodes)
    PROVE  FreshInv'
<1> DEFINE j == [NoJob EXCEPT !.op = op, !.step = "read", !.nodes = nodes, !.fresh = TRUE,
                              !.input = IF op = "update" THEN requests' ELSE 0]
<1>1. Continue(a, j) /\ UNCHANGED <<site, configs, releases>>
    BY DEF Begin
<1>2. j.step = "read" /\ j.detached = {}
    BY DEF NoJob
<1> HIDE DEF j
<1>3. job'[a] = j
    BY <1>1 DEF Continue, TypeInv, JobType
<1>4. Undisturbed(a)'
    BY <1>2, <1>3 DEF Undisturbed, Copied, Ready, Sent
<1> QED BY <1>1, <1>4, FreshStep

LEMMA FreshReadSite ==
    ASSUME TypeInv, FreshInv, NEW a \in Admins, ReadSite(a)
    PROVE  FreshInv'
<1>1. /\ At(a, "read") /\ job[a] \in Job /\ InHand(job[a]) /\ job[a].detached = {}
      /\ UNCHANGED <<site, configs, releases>>
    BY DEF ReadSite, At, TypeInv, JobType, Handled, InHand
<1>2. CASE ~site.exists
    BY <1>1, <1>2, FreshEnd DEF ReadSite
<1>3. CASE site.exists
  <2> DEFINE s == [status |-> site.status, fields |-> site.fields,
                   config |-> configs[Version], version |-> Version, bound |-> {}]
             j == [job[a] EXCEPT !.step = "bindings", !.site = s]
  <2>1. /\ j.step = "bindings" /\ j.detached = {} /\ j.site = s
      BY <1>1 DEF Job
  <2>2. Continue(a, j)
      BY <1>3 DEF ReadSite
  <2> HIDE DEF j
  <2>3. job'[a] = j
      BY <2>2 DEF Continue, TypeInv, JobType
  <2>4. Version' = Version
      BY <1>1 DEF Version
  <2>5. Copied(job[a])'
      BY <1>1, <1>3, <2>1, <2>3, <2>4 DEF Copied, Matches
  <2>6. Ready(job[a])' /\ Sent(job[a])'
      BY <2>1, <2>3 DEF Ready, Sent
  <2> QED BY <1>1, <2>2, <2>5, <2>6, FreshStep DEF Undisturbed
<1> QED BY <1>2, <1>3

LEMMA FreshReadBindings ==
    ASSUME TypeInv, FreshInv, NEW a \in Admins, ReadBindings(a)
    PROVE  FreshInv'
<1>1. /\ At(a, "bindings") /\ job[a] \in Job /\ InHand(job[a])
      /\ UNCHANGED <<site, configs, releases>>
    BY DEF ReadBindings, At, TypeInv, JobType, Handled
<1> DEFINE read == [job[a].site EXCEPT !.bound = site.bound]
           next == CASE job[a].op = "publish" -> "detach"
                     [] job[a].op = "delete"  -> IF site.bound = {} THEN "delete" ELSE "cleanup"
                     [] OTHER                 -> "save"
           held == IF job[a].op = "delete" THEN site.bound ELSE {}
           j    == [job[a] EXCEPT !.site = Edited(job[a], read), !.step = next,
                                  !.detached = held]
<1>2. Continue(a, NoJob) \/ Continue(a, j)
    BY DEF ReadBindings
<1>3. CASE Continue(a, NoJob)
    BY <1>1, <1>3, FreshEnd
<1>4. CASE Continue(a, j)
  <2>1. /\ j.site = Edited(job[a], read) /\ j.op = job[a].op /\ j.detached = held /\ j.step = next
        /\ j.fresh = job[a].fresh
      BY <1>1 DEF Job
  <2>2. job'[a] = j
      BY <1>4 DEF Continue, TypeInv, JobType
  <2>3. /\ next \in {"detach", "delete", "cleanup", "save"}
        /\ next = "save" <=> job[a].op \notin {"publish", "delete"}
        /\ next \in {"delete", "cleanup"} <=> job[a].op = "delete"
        /\ job[a].op = "publish" => held = {}
      OBVIOUS
  <2>4. ASSUME j.fresh PROVE Undisturbed(a)'
    <3>1. Matches(job[a].site) /\ site.exists /\ Version \in Versions
        BY <1>1, <2>1, <2>4, VersionFacts DEF FreshInv, Undisturbed, Copied, At, Matches, TypeInv
    <3>2. /\ read \in SiteRecord /\ read.config # 0 /\ read.version = Version
          /\ read.fields = site.fields /\ read.config = configs[Version]
        BY <1>1, <3>1 DEF Job, SiteRecord, InHand, At, TypeInv, RowType, Matches
    <3>3. Edits(job[a]) => read.version + 1 \in Versions
      <4>1. Fits(Version) /\ Cardinality(Editing) \in Nat /\ requests \in 0..MaxRequests
          BY <1>1, <3>1, <3>2, FS_CardinalityType DEF TypeInv, Roomy, At, CountType, Matches
      <4>2. Edits(job[a]) => Cardinality(Editing) >= 1
          BY EditingFacts DEF TypeInv, Roomy
      <4> QED BY <3>1, <3>2, <4>1, <4>2, PublishingAssumption DEF Fits, Versions
    <3> DEFINE s == Edited(job[a], read)
    <3>4. /\ s.version \in {read.version, read.version + 1}
          /\ s.fields = s.config \/ (s.fields = read.fields /\ s.config = read.config)
          /\ job[a].op \in {"publish", "delete"} => s = read
        BY <1>1, <3>2, <3>3, EditedFacts DEF At
    <3> HIDE DEF s, read, next, held
    <3>5. Version' = Version
        BY <1>1 DEF Version
    <3>6. job'[a].site = s /\ job'[a].step = next /\ job'[a].op = job[a].op /\ job'[a].detached = held
        BY <2>1, <2>2 DEF s
    <3> HIDE DEF j
    <3>7. Copied(job[a])'
        BY <1>1, <2>3, <3>1, <3>2, <3>4, <3>5, <3>6 DEF Copied, Matches
    <3>8. Ready(job[a])' /\ Sent(job[a])'
        BY <2>3, <3>6 DEF Ready, Sent
    <3> QED BY <3>7, <3>8 DEF Undisturbed
  <2> HIDE DEF j
  <2> QED BY <1>1, <1>4, <2>4, FreshStep
<1> QED BY <1>2, <1>3, <1>4

\* The version that is written becomes the newest, if it is not an old one.
LEMMA SavedVersion ==
    ASSUME TypeInv, NEW s \in SiteRecord, s.config # 0, SaveSite(s),
           \A w \in Versions : configs[w] # 0 => w <= s.version
    PROVE  /\ Version' = s.version /\ configs'[Version'] = s.config /\ site'.exists
           /\ site'.fields = s.fields /\ site'.status = s.status /\ site'.bound = s.bound
<1>1. /\ configs' = [configs EXCEPT ![s.version] = s.config] /\ s.version \in Versions
      /\ s.config \in Contents
    BY DEF SaveSite, SiteRecord
<1>2. /\ configs' \in [Versions -> Contents] /\ configs'[s.version] = s.config
      /\ \A w \in Versions : configs'[w] # 0 => configs[w] # 0 \/ w = s.version
    BY <1>1 DEF TypeInv, ConfigType
<1>3. \A w \in Versions : configs'[w] # 0 => w <= s.version
    BY <1>1, <1>2, PublishingAssumption DEF Versions
<1>4. Version' = Top(configs')
    BY DEF Version, Top
<1>5. Top(configs') = s.version
    BY <1>1, <1>2, <1>3, TopIs
<1> QED BY <1>2, <1>4, <1>5 DEF SaveSite

\* What a fresh request saves.
LEMMA FreshSaves ==
    ASSUME TypeInv, FreshInv, NEW a \in Admins, job[a].fresh, Save(a)
    PROVE  /\ Version' = job[a].site.version /\ configs'[Version'] = job[a].site.config
           /\ site'.exists /\ site'.fields = job[a].site.fields
           /\ site'.status = job[a].site.status /\ site'.bound = job[a].site.bound
<1>1. /\ At(a, "save") /\ job[a] \in Job /\ InHand(job[a]) /\ SaveSite(job[a].site)
    BY DEF Save, TypeInv, JobType, Handled
<1>2. job[a].site \in SiteRecord /\ job[a].site.config # 0
    BY <1>1 DEF Job, InHand, At
<1>3. site.exists /\ job[a].site.version \in {Version, Version + 1}
    BY <1>1 DEF FreshInv, Undisturbed, Copied, At
<1>4. \A w \in Versions : configs[w] # 0 => w <= job[a].site.version
  <2>1. Version \in Versions /\ \A w \in Versions : configs[w] # 0 => w <= Version
      BY <1>3, VersionFacts DEF TypeInv
  <2> QED BY <1>3, <2>1, PublishingAssumption DEF Versions
<1> QED BY <1>1, <1>2, <1>4, SavedVersion

LEMMA FreshSave ==
    ASSUME TypeInv, FreshInv, NEW a \in Admins, Save(a)
    PROVE  FreshInv'
<1> DEFINE j == AfterSave(job[a])
<1>1. /\ At(a, "save") /\ job[a] \in Job /\ InHand(job[a]) /\ Written(a, j)
    BY DEF Save, AfterSave, TypeInv, JobType, Handled
<1>2. /\ j.step \in {"idle", "read", "compile"} /\ j.detached = {}
      /\ j.step = "compile" => /\ j.site = job[a].site /\ j.op \in {"enable", "disable"}
                               /\ j.fresh = job[a].fresh
    BY <1>1, AfterSaveFacts DEF At
<1> HIDE DEF j
<1>3. job'[a] = j
    BY <1>1 DEF Written
<1>4. ASSUME j.fresh PROVE Undisturbed(a)'
  <2>1. CASE j.step = "compile"
    <3>1. /\ Version' = job[a].site.version /\ configs'[Version'] = job[a].site.config
          /\ site'.exists /\ site'.fields = job[a].site.fields
          /\ site'.status = job[a].site.status /\ site'.bound = job[a].site.bound
        BY <1>2, <1>4, <2>1, FreshSaves
    <3> QED BY <1>2, <1>3, <2>1, <3>1 DEF Undisturbed, Copied, Matches, Ready, Sent
  <2>2. CASE j.step # "compile"
      BY <1>2, <1>3, <2>2 DEF Undisturbed, Copied, Ready, Sent
  <2> QED BY <2>1, <2>2
<1> QED BY <1>1, <1>4, FreshStep

LEMMA FreshDetach ==
    ASSUME TypeInv, FreshInv, NEW a \in Admins, Detach(a)
    PROVE  FreshInv'
<1>1. /\ At(a, "detach") /\ job[a] \in Job /\ job[a].op = "publish"
      /\ UNCHANGED <<site, configs, releases>>
    BY DEF Detach, At, TypeInv, JobType, Handled, InHand
<1> DEFINE found    == DetachedNodes(job[a].site.bound)
           going(w) == [job[a] EXCEPT !.detached = found, !.step = w]
<1>2. \/ Continue(a, NoJob)
      \/ Continue(a, going("compile"))
      \/ Continue(a, going("cleanup")) /\ job[a].site.bound = {}
    BY DEF Detach
<1>3. CASE Continue(a, NoJob)
    BY <1>1, <1>3, FreshEnd
<1>4. ASSUME NEW w \in {"compile", "cleanup"}, Continue(a, going(w)),
             w = "cleanup" => job[a].site.bound = {}
      PROVE  FreshInv'
  <2> DEFINE j == going(w)
  <2>1. /\ j.step = w /\ j.op = "publish" /\ j.site = job[a].site /\ j.fresh = job[a].fresh
        /\ j.detached = found
      BY <1>1 DEF Job
  <2>2. Continue(a, j)
      BY <1>4
  <2> HIDE DEF going, found
  <2>3. job'[a] = j
      BY <2>2 DEF Continue, TypeInv, JobType
  <2>4. ASSUME j.fresh PROVE Undisturbed(a)'
    <3>1. Version' = Version
        BY <1>1 DEF Version
    <3>2. Matches(job[a].site)
        BY <1>1, <2>1, <2>4 DEF FreshInv, Undisturbed, Copied, At
    <3>3. Copied(job[a])'
        BY <1>1, <2>1, <2>3, <3>1, <3>2 DEF Copied, Matches
    <3>4. Ready(job[a])'
        BY <2>1, <2>3 DEF Ready
    <3>5. found \cap job[a].site.bound = {} /\ found = DetachedNodes(job[a].site.bound)
        BY DetachedMembers DEF found
    <3>6. found = DetachedNodes(job[a].site.bound)'
        BY <1>1, <2>1, <2>3, <3>5 DEF DetachedNodes, OfScope
    <3>7. Sent(job[a])'
        BY <1>4, <2>1, <2>3, <3>5, <3>6 DEF Sent, Reached
    <3> QED BY <3>3, <3>4, <3>7 DEF Undisturbed
  <2> QED BY <1>1, <2>2, <2>4, FreshStep
<1> QED BY <1>2, <1>3, <1>4

LEMMA FreshCompile ==
    ASSUME TypeInv, FreshInv, NEW a \in Admins, Compile(a)
    PROVE  FreshInv'
<1> DEFINE j == WithRelease(job[a], clock')
<1>1. /\ job[a].step \in {"compile", "cleanup"} /\ job[a] \in Job /\ InHand(job[a])
      /\ clock \in Nat /\ clock' = clock + 1 /\ UNCHANGED <<site, configs, releases>>
    BY DEF Compile, At, TypeInv, JobType, Handled, ReleaseType
<1>2. Continue(a, j)
    BY DEF Compile, At, WithRelease, CompiledBy
<1>3. /\ j.step = "commit" /\ j.op = job[a].op /\ j.site = job[a].site /\ j.fresh = job[a].fresh
      /\ j.detached = job[a].detached /\ j.release = CompiledBy(job[a], clock')
      /\ j.release.at = clock'
    BY <1>1, WithReleaseFacts
<1> HIDE DEF j
<1>4. job'[a] = j
    BY <1>2 DEF Continue, TypeInv, JobType
<1>5. ASSUME j.fresh PROVE Undisturbed(a)'
  <2>1. Copied(job[a]) /\ Sent(job[a])
      BY <1>3, <1>5 DEF FreshInv, Undisturbed
  <2>2. Version' = Version
      BY <1>1 DEF Version
  <2>3. Copied(job[a])'
      BY <1>1, <1>3, <1>4, <2>1, <2>2 DEF Copied, Matches, InHand
  <2>4. CASE job[a].step = "compile"
    <3>1. /\ j.release = Compiled(job[a].site, "site", job[a].site.bound, clock')
          /\ j.release.scope = "site"
        BY <1>3, <2>4 DEF CompiledBy, Compiled
    <3>2. Ready(job[a])'
        BY <1>1, <1>3, <1>4, <2>4, <3>1 DEF Ready, InHand, TypeInv, ReleaseType
    <3>3. DetachedNodes(job[a].site.bound) = DetachedNodes(job[a].site.bound)'
        BY <1>1, <1>3, <1>4 DEF DetachedNodes, OfScope
    <3>4. Sent(job[a])'
        BY <1>3, <1>4, <2>1, <2>4, <3>1, <3>3 DEF Sent
    <3> QED BY <2>3, <3>2, <3>4 DEF Undisturbed
  <2>5. CASE job[a].step = "cleanup"
    <3>1. j.release.scope = "site_cleanup" /\ j.release.targets = job[a].detached
        BY <1>3, <2>5 DEF CompiledBy, Compiled
    <3>2. Ready(job[a])'
        BY <1>1, <1>3, <1>4, <2>5, <3>1 DEF Ready, InHand, TypeInv, ReleaseType
    <3>3. Reached(job[a].site) => Reached(job[a].site)'
        BY <1>1, <1>3, <1>4 DEF Reached, Newest
    <3>4. Sent(job[a])'
        BY <1>3, <1>4, <2>1, <2>5, <3>1, <3>3 DEF Sent
    <3> QED BY <2>3, <3>2, <3>4 DEF Undisturbed
  <2> QED BY <1>1, <2>4, <2>5
<1> QED BY <1>1, <1>2, <1>5, FreshStep

\* The last of some releases, when a later one is added.
LEMMA LastAdd ==
    ASSUME NEW rs, NEW r, r.at \in Nat, \A q \in rs : q.at \in Nat /\ q.at < r.at
    PROVE  Last(rs \cup {r}) = {r}
BY DEF Last

LEMMA CommitsLast ==
    ASSUME TypeInv, NEW a \in Admins, Commit(a), \A r \in releases : r.at < job[a].release.at
    PROVE  /\ \A n : n \in job[a].release.targets => Newest(n)' = {job[a].release}
           /\ \A n : n \notin job[a].release.targets => Newest(n)' = Newest(n)
           /\ Last(OfScope("site"))' = IF job[a].release.scope = "site" THEN {job[a].release}
                                       ELSE Last(OfScope("site"))
<1> DEFINE rel == job[a].release
<1>1. /\ releases' = releases \cup {rel} /\ rel.at \in Nat
      /\ \A q \in releases : q.at \in Nat /\ q.at < rel.at
    BY DEF Commit, At, TypeInv, ReleaseType, Stamped
<1> HIDE DEF rel
<1>2. ASSUME NEW n, n \in rel.targets
      PROVE  Newest(n)' = {rel}
  <2>1. {r \in releases' : n \in r.targets} = {r \in releases : n \in r.targets} \cup {rel}
      BY <1>1, <1>2
  <2>2. Last({r \in releases : n \in r.targets} \cup {rel}) = {rel}
      BY <1>1, LastAdd
  <2>3. Newest(n)' = Last({r \in releases' : n \in r.targets})
      BY DEF Newest, Last
  <2> QED BY <2>1, <2>2, <2>3
<1>3. ASSUME NEW n, n \notin rel.targets
      PROVE  Newest(n)' = Newest(n)
  <2>1. {r \in releases' : n \in r.targets} = {r \in releases : n \in r.targets}
      BY <1>1, <1>3
  <2>2. Newest(n)' = Last({r \in releases' : n \in r.targets})
      BY DEF Newest, Last
  <2> QED BY <2>1, <2>2 DEF Newest
<1>4. Last(OfScope("site"))' = IF rel.scope = "site" THEN {rel} ELSE Last(OfScope("site"))
  <2>1. Last(OfScope("site"))' = Last({r \in releases' : r.scope = "site"})
      BY DEF OfScope, Last
  <2>2. CASE rel.scope = "site"
    <3>1. {r \in releases' : r.scope = "site"} = {r \in releases : r.scope = "site"} \cup {rel}
        BY <1>1, <2>2
    <3>2. Last({r \in releases : r.scope = "site"} \cup {rel}) = {rel}
        BY <1>1, LastAdd
    <3> QED BY <2>1, <2>2, <3>1, <3>2
  <2>3. CASE rel.scope # "site"
    <3>1. {r \in releases' : r.scope = "site"} = {r \in releases : r.scope = "site"}
        BY <1>1, <2>3
    <3> QED BY <2>1, <2>3, <3>1 DEF OfScope
  <2> QED BY <2>2, <2>3
<1> QED BY <1>2, <1>3, <1>4 DEF rel

\* After a fresh request commits the site's release, its nodes have the copy.
LEMMA CommitReaches ==
    ASSUME TypeInv, FreshInv, NEW a \in Admins, job[a].fresh, Commit(a),
           job[a].release.scope = "site"
    PROVE  \A n \in job[a].site.bound : \E r \in Newest(n)' :
              /\ r.scope = "site" /\ r.fields = job[a].site.fields
              /\ r.config = job[a].site.config /\ r.status = job[a].site.status
<1>1. /\ \A r \in releases : r.at < job[a].release.at
      /\ job[a].release = Compiled(job[a].site, "site", job[a].site.bound, job[a].release.at)
    BY DEF FreshInv, Undisturbed, Ready, Commit, At
<1>2. /\ job[a].release.scope = "site" /\ job[a].release.fields = job[a].site.fields
      /\ job[a].release.config = job[a].site.config /\ job[a].release.status = job[a].site.status
      /\ job[a].release.targets = job[a].site.bound
    BY <1>1 DEF Compiled
<1>3. \A n : n \in job[a].release.targets => Newest(n)' = {job[a].release}
    BY <1>1, CommitsLast
<1> QED BY <1>2, <1>3

LEMMA FreshCommit ==
    ASSUME TypeInv, FreshInv, NEW a \in Admins, Commit(a)
    PROVE  FreshInv'
<1> DEFINE j == AfterCommit(job[a])
<1>1. /\ At(a, "commit") /\ job[a] \in Job /\ InHand(job[a])
      /\ UNCHANGED <<site, configs>>
    BY DEF Commit, TypeInv, JobType, Handled
<1>2. Written(a, j)
    BY DEF Commit, AfterCommit, Released
<1>3. /\ j.step \in {"idle", "delete", "cleanup", "publish"}
      /\ j.step = "idle" => j = NoJob
      /\ j.step # "idle" =>
            /\ j.site = job[a].site /\ j.op = job[a].op /\ j.fresh = job[a].fresh
            /\ j.detached = IF job[a].release.scope = "site" THEN job[a].detached ELSE {}
    BY <1>1, AfterCommitFacts DEF At, InHand
<1> HIDE DEF j
<1>4. job'[a] = j
    BY <1>2 DEF Written
<1>5. ASSUME j.fresh PROVE Undisturbed(a)'
  <2>1. j.step # "idle"
      BY <1>3, <1>5 DEF NoJob
  <2>2. /\ job[a].fresh /\ Copied(job[a]) /\ Ready(job[a]) /\ Sent(job[a])
      BY <1>3, <1>5, <2>1 DEF FreshInv, Undisturbed
  <2>3. Version' = Version
      BY <1>1 DEF Version
  <2>4. Copied(job[a])'
      BY <1>1, <1>3, <1>4, <2>1, <2>2, <2>3 DEF Copied, Matches, At
  <2>5. Ready(job[a])'
      BY <1>3, <1>4 DEF Ready
  <2>6. CASE job[a].op # "publish"
      BY <1>3, <1>4, <2>1, <2>4, <2>5, <2>6 DEF Sent, Undisturbed
  <2>7. CASE job[a].op = "publish"
    <3>1. job[a].detached \cap job[a].site.bound = {}
        BY <2>2, <2>7 DEF Sent
    <3>2. \A n \in job[a].site.bound : \E r \in Newest(n)' :
             r.scope = "site" /\ r.fields = job[a].site.fields /\ r.config = job[a].site.config
      <4>1. CASE job[a].release.scope = "site"
          BY <2>2, <4>1, CommitReaches
      <4>2. CASE job[a].release.scope # "site"
        <5>1. /\ Reached(job[a].site) /\ job[a].release.targets = job[a].detached
              /\ \A r \in releases : r.at < job[a].release.at
            BY <1>1, <2>2, <2>7, <4>2 DEF Ready, Sent, At
        <5>2. \A n \in job[a].site.bound : Newest(n)' = Newest(n)
            BY <3>1, <5>1, CommitsLast
        <5> QED BY <5>1, <5>2 DEF Reached
      <4> QED BY <4>1, <4>2
    <3>3. Reached(job[a].site)'
        BY <1>3, <1>4, <2>1, <3>2 DEF Reached
    <3>4. Sent(job[a])'
        BY <1>3, <1>4, <2>1, <3>1, <3>3 DEF Sent
    <3> QED BY <2>4, <2>5, <3>4 DEF Undisturbed
  <2> QED BY <2>6, <2>7
<1> QED BY <1>2, <1>5, FreshStep

LEMMA FreshNext == TypeInv /\ FreshInv /\ [Next]_vars => FreshInv'
<1>1. ASSUME TypeInv, FreshInv, UNCHANGED vars
      PROVE  FreshInv'
  <2>1. UNCHANGED <<site, configs, releases, job>> /\ Version' = Version
      BY <1>1 DEF vars, Version
  <2> QED BY <1>1, <2>1 DEF FreshInv, Undisturbed, Copied, Ready, Sent, Matches, Reached, Newest,
                            DetachedNodes, OfScope
<1>2. ASSUME TypeInv, FreshInv, NEW a \in Admins, Step(a)
      PROVE  FreshInv'
  <2>1. CASE Publish(a) \/ DeleteRow(a)
      BY <1>2, <2>1, FreshEnd DEF Publish, DeleteRow
  <2> QED BY <1>2, <2>1, FreshReadSite, FreshReadBindings, FreshSave, FreshDetach,
             FreshCompile, FreshCommit DEF Step
<1>3. ASSUME TypeInv, FreshInv, NEW a \in Admins, NEW op \in Ops, NEW nodes \in SUBSET Nodes,
             Begin(a, op, nodes)
      PROVE  FreshInv'
    BY <1>3, FreshBegin
<1>4. ASSUME TypeInv, FreshInv, NEW a \in Admins, Drop(a)
      PROVE  FreshInv'
    BY <1>4, FreshEnd DEF Drop
<1> QED BY <1>1, <1>2, <1>3, <1>4, FreshCreate, FreshFailover DEF Next, Ops

LEMMA FreshAlways == Spec => [](TypeInv /\ FreshInv)
<1>1. Init => TypeInv /\ FreshInv
    BY TypeInit, FreshInit
<1>2. (TypeInv /\ FreshInv) /\ [Next]_vars => (TypeInv /\ FreshInv)'
    BY TypeNext, FreshNext
<1> QED BY <1>1, <1>2, PTL DEF Spec

-----------------------------------------------------------------------------
(***************************************************************************)
(* MixesOnly.                                                              *)
(***************************************************************************)

\* What a fresh publication writes back at its end.
LEMMA FreshPublishes ==
    ASSUME TypeInv, FreshInv, NEW a \in Admins, job[a].fresh, Publish(a)
    PROVE  /\ site.exists /\ site.fields = job[a].site.fields
           /\ configs[Version] = job[a].site.config
           /\ Version' = Version /\ configs'[Version'] = job[a].site.config
           /\ site'.exists /\ site'.fields = job[a].site.fields
           /\ site'.bound = job[a].site.bound
<1> DEFINE s == [job[a].site EXCEPT
                    !.status = IF job[a].site.bound = {} THEN "draft" ELSE "published"]
<1>1. /\ At(a, "publish") /\ job[a] \in Job /\ InHand(job[a]) /\ SaveSite(s)
    BY DEF Publish, TypeInv, JobType, Handled
<1>2. /\ s \in SiteRecord /\ s.config # 0 /\ s.version = job[a].site.version
      /\ s.fields = job[a].site.fields /\ s.config = job[a].site.config
      /\ s.bound = job[a].site.bound
    BY <1>1 DEF Job, InHand, At, SiteRecord, Statuses
<1> HIDE DEF s
<1>3. Matches(job[a].site)
    BY <1>1 DEF FreshInv, Undisturbed, Copied, At
<1>4. \A w \in Versions : configs[w] # 0 => w <= s.version
    BY <1>2, <1>3, VersionFacts DEF TypeInv, Matches
<1>5. /\ Version' = s.version /\ configs'[Version'] = s.config /\ site'.exists
      /\ site'.fields = s.fields /\ site'.bound = s.bound
    BY <1>1, <1>2, <1>4, SavedVersion
<1> QED BY <1>2, <1>3, <1>5 DEF Matches

LEMMA FreshMixesNot ==
    ASSUME TypeInv, FreshInv, NEW a \in Admins, job[a].fresh, Step(a), Mixed'
    PROVE  Mixed
<1>1. CASE Save(a)
  <2>1. /\ configs'[Version'] = job[a].site.config /\ site'.fields = job[a].site.fields
      BY <1>1, FreshSaves
  <2>2. /\ site.exists
        /\ \/ job[a].site.fields = job[a].site.config
           \/ job[a].site.fields = site.fields /\ job[a].site.config = configs[Version]
      BY <1>1 DEF FreshInv, Undisturbed, Copied, Save, At
  <2> QED BY <2>1, <2>2 DEF Mixed
<1>2. CASE Publish(a)
    BY <1>2, FreshPublishes DEF Mixed
<1>3. CASE DeleteRow(a)
    BY <1>3 DEF DeleteRow, Mixed
<1>4. CASE UNCHANGED <<site, configs>>
    BY <1>4 DEF Mixed, Version
<1> QED BY <1>1, <1>2, <1>3, <1>4
        DEF Step, ReadSite, ReadBindings, Detach, Compile, Commit

LEMMA OthersMixNot ==
    ASSUME TypeInv, CreateSite \/ FailoverRelease \/ UNCHANGED <<site, configs>>, Mixed'
    PROVE  Mixed
<1>1. CASE CreateSite
  <2> DEFINE s == [NoSite EXCEPT !.fields = 1, !.config = 1]
  <2>1. s \in SiteRecord /\ s.config = 1 /\ s.fields = 1 /\ s.version = 1
    <3>1. 1 \in Contents /\ 1 \in Versions
        BY PublishingAssumption DEF Contents, Versions
    <3> QED BY <3>1 DEF NoSite, SiteRecord, Statuses
  <2>2. SaveSite(s) /\ \A w \in Versions : configs[w] = 0
      BY <1>1 DEF CreateSite, TypeInv, Blank
  <2> HIDE DEF s
  <2>3. configs'[Version'] = s.config /\ site'.fields = s.fields
      BY <2>1, <2>2, SavedVersion
  <2> QED BY <2>1, <2>3 DEF Mixed
<1>2. CASE FailoverRelease
  <2>1. site' = [site EXCEPT !.status = "published"] /\ UNCHANGED configs
      BY <1>2 DEF FailoverRelease
  <2>2. site'.exists = site.exists /\ site'.fields = site.fields /\ Version' = Version
      BY <2>1 DEF TypeInv, RowType, Version
  <2> QED BY <2>1, <2>2 DEF Mixed
<1>3. CASE UNCHANGED <<site, configs>>
    BY <1>3 DEF Mixed, Version
<1> QED BY <1>1, <1>2, <1>3

\* A new release is mixed only if the row is: an undisturbed request has compiled
\* it from a copy of the row, the failover worker from the row.
LEMMA FreshReleasesNot ==
    ASSUME TypeInv, FreshInv, NEW a \in Admins, job[a].fresh, Step(a),
           NEW r \in releases' \ releases, Mixes(r)
    PROVE  Mixed
<1>1. Commit(a) /\ r = job[a].release
    BY DEF Step, ReadSite, ReadBindings, Save, Detach, Compile, Commit, Publish, DeleteRow
<1>2. Copied(job[a]) /\ Ready(job[a]) /\ At(a, "commit")
    BY <1>1 DEF Commit, FreshInv, Undisturbed
<1>3. Matches(job[a].site)
    BY <1>2 DEF Copied, At
<1>4. r = Compiled(job[a].site, "site", job[a].site.bound, r.at)
    BY <1>1, <1>2 DEF Ready, At, Mixes
<1>5. r.fields = job[a].site.fields /\ r.config = job[a].site.config
    BY <1>4 DEF Compiled
<1> QED BY <1>3, <1>5 DEF Mixes, Matches, Mixed

LEMMA OthersReleaseNot ==
    ASSUME FailoverRelease \/ UNCHANGED releases, NEW r \in releases' \ releases, Mixes(r)
    PROVE  Mixed
<1>1. FailoverRelease
    OBVIOUS
<1>2. site.exists /\ r.fields = site.fields /\ r.config = configs[Version]
    BY <1>1 DEF FailoverRelease
<1> QED BY <1>2 DEF Mixes, Mixed

MixesStep ==
    Mixed' \/ (\E r \in releases' \ releases : Mixes(r))
      => Mixed \/ \E a \in Admins : ~job[a].fresh /\ Step(a)

\* update_site, update_site_status, create_release and the rest write the row and
\* the newest config from one copy, and save_site_release compiles from one: the
\* first row or release that mixes two edits comes from a request whose copy is
\* older than another's write, and only a mixed row lets others release a mix.
THEOREM OnlyStaleCopiesMix == Spec => MixesOnly
<1>1. TypeInv /\ FreshInv /\ [Next]_vars => [MixesStep]_vars
  <2>1. ASSUME TypeInv, FreshInv, Next, Mixed', ~Mixed
        PROVE  \E a \in Admins : ~job[a].fresh /\ Step(a)
    <3>1. ~(CreateSite \/ FailoverRelease \/ UNCHANGED <<site, configs>>)
        BY <2>1, OthersMixNot
    <3>2. \E a \in Admins : Step(a)
        BY <2>1, <3>1 DEF Next, Begin, Drop
    <3> QED BY <2>1, <3>2, FreshMixesNot
  <2>2. ASSUME TypeInv, FreshInv, Next, NEW r \in releases' \ releases, Mixes(r), ~Mixed
        PROVE  \E a \in Admins : ~job[a].fresh /\ Step(a)
    <3>1. ~(FailoverRelease \/ UNCHANGED releases)
        BY <2>2, OthersReleaseNot
    <3>2. \E a \in Admins : Step(a)
        BY <2>2, <3>1 DEF Next, CreateSite, Begin, Drop
    <3> QED BY <2>2, <3>2, FreshReleasesNot
  <2> QED BY <2>1, <2>2 DEF MixesStep
<1> QED BY <1>1, FreshAlways, PTL DEF Spec, MixesOnly, MixesStep

-----------------------------------------------------------------------------
(***************************************************************************)
(* Reaches.                                                                *)
(***************************************************************************)
ReachesStep ==
    \A a \in Admins :
        /\ job[a].fresh
        /\ Publish(a) \/ (job[a].op \in {"enable", "disable"} /\ Commit(a))
        => \A n \in site'.bound : Carries(n, job[a].op # "publish")

LEMMA PublishReaches ==
    ASSUME TypeInv, FreshInv, NEW a \in Admins, job[a].fresh, Publish(a),
           NEW n \in site'.bound
    PROVE  Carries(n, job[a].op # "publish")
<1>1. /\ At(a, "publish") /\ InHand(job[a]) /\ UNCHANGED releases
    BY DEF Publish, TypeInv, Handled
<1>2. job[a].op = "publish"
    BY <1>1 DEF InHand, At
<1>3. Reached(job[a].site)
    BY <1>1, <1>2 DEF FreshInv, Undisturbed, Sent, At
<1>4. /\ configs'[Version'] = job[a].site.config /\ site'.fields = job[a].site.fields
      /\ site'.bound = job[a].site.bound
    BY FreshPublishes
<1>5. Newest(n)' = Newest(n)
    BY <1>1 DEF Newest
<1> QED BY <1>2, <1>3, <1>4, <1>5 DEF Reached, Carries

LEMMA StatusReaches ==
    ASSUME TypeInv, FreshInv, NEW a \in Admins, job[a].fresh,
           job[a].op \in {"enable", "disable"}, Commit(a), NEW n \in site'.bound
    PROVE  Carries(n, job[a].op # "publish")
<1>1. At(a, "commit") /\ UNCHANGED <<site, configs>> /\ Version' = Version
    BY DEF Commit, Version
<1>2. /\ Matches(job[a].site) /\ job[a].site.status = site.status /\ job[a].site.bound = site.bound
      /\ job[a].release.scope = "site"
    BY <1>1 DEF FreshInv, Undisturbed, Copied, Ready, At
<1>3. \E r \in Newest(n)' : /\ r.scope = "site" /\ r.fields = job[a].site.fields
                            /\ r.config = job[a].site.config /\ r.status = job[a].site.status
    BY <1>1, <1>2, CommitReaches
<1> QED BY <1>1, <1>2, <1>3 DEF Carries, Matches

\* When create_release or update_site_status ends and nobody else has written
\* meanwhile, latest_release_for_node gives every bound node a release with
\* the contents the hub stores, the cleanup releases that may have followed
\* notwithstanding, and after a change of status with that status.
THEOREM PublicationsReach == Spec => Reaches
<1>1. TypeInv /\ FreshInv /\ [Next]_vars => [ReachesStep]_vars
    BY PublishReaches, StatusReaches DEF ReachesStep
<1> QED BY <1>1, FreshAlways, PTL DEF Spec, Reaches, ReachesStep

-----------------------------------------------------------------------------
(***************************************************************************)
(* StrandsOnly.                                                            *)
(***************************************************************************)

\* A step after which a node is stranded that was not: it no longer is served by
\* the last release, or a request no longer has it in hand.
LEMMA StrandedStep ==
    ASSUME TypeInv, NEW a \in Admins, NEW j, Continue(a, j) \/ Written(a, j),
           UNCHANGED releases, site.exists => site'.exists, job[a].detached \subseteq j.detached
    PROVE  Stranded' \subseteq Stranded
<1> SUFFICES ASSUME NEW n \in Stranded' PROVE n \in Stranded
    OBVIOUS
<1>1. /\ n \in Nodes /\ Serves(n)'
      /\ ~(site'.exists /\ \E r \in Last(OfScope("site"))' : n \in r.targets)
      /\ \A b \in Admins : n \notin job'[b].detached
    BY DEF Stranded
<1>2. Serves(n)
    BY <1>1 DEF Serves, Newest
<1>3. Last(OfScope("site"))' = Last(OfScope("site"))
    BY DEF OfScope
<1>4. job'[a] = j /\ \A b \in Admins \ {a} : job'[b].detached = job[b].detached
  <2>1. \A b \in Admins : job[b] \in Job /\ InHand(job[b])
      BY DEF TypeInv, JobType, Handled
  <2>2. /\ job'[a] = j
        /\ \A b \in Admins \ {a} : job'[b] = job[b] \/ job'[b] = Stale(job[b])
      BY DEF Continue, Written, TypeInv, JobType, Stale
  <2> QED BY <2>1, <2>2, StaleFacts
<1>5. \A b \in Admins : n \notin job[b].detached
    BY <1>1, <1>4
<1> QED BY <1>1, <1>2, <1>3, <1>5 DEF Stranded

\* A commit whose release is the newest: the site's releases strand only nodes
\* the request has in hand, and the cleanup reaches all of those.
LEMMA CommitStrandsNot ==
    ASSUME TypeInv, FreshInv, NEW a \in Admins, job[a].fresh, Commit(a),
           job[a].op \notin {"enable", "disable"}
    PROVE  Stranded' \subseteq Stranded
<1> SUFFICES ASSUME NEW n \in Stranded' PROVE n \in Stranded
    OBVIOUS
<1> DEFINE j   == AfterCommit(job[a])
           rel == job[a].release
<1>1. /\ n \in Nodes /\ Serves(n)'
      /\ ~(site'.exists /\ \E r \in Last(OfScope("site"))' : n \in r.targets)
      /\ \A b \in Admins : n \notin job'[b].detached
    BY DEF Stranded
<1>2. /\ At(a, "commit") /\ job[a] \in Job /\ InHand(job[a]) /\ UNCHANGED site
      /\ job[a].op \in {"publish", "delete"}
    BY DEF Commit, At, TypeInv, JobType, Handled, InHand
<1>3. Written(a, j)
    BY DEF Commit, AfterCommit, Released
<1>4. j.detached = IF rel.scope = "site" THEN job[a].detached ELSE {}
    BY <1>2, AfterCommitFacts DEF At
<1> HIDE DEF j
<1>5. job'[a] = j /\ \A b \in Admins \ {a} : job'[b].detached = job[b].detached
  <2>1. \A b \in Admins : job[b] \in Job /\ InHand(job[b])
      BY DEF TypeInv, JobType, Handled
  <2>2. job'[a] = j /\ \A b \in Admins \ {a} : job'[b] = Stale(job[b])
      BY <1>3 DEF Written, Stale
  <2> QED BY <2>1, <2>2, StaleFacts
<1>6. Copied(job[a]) /\ Ready(job[a]) /\ Sent(job[a])
    BY DEF FreshInv, Undisturbed
<1>7. \A r \in releases : r.at < rel.at
    BY <1>2, <1>6 DEF Ready, At
<1>8. /\ n \in rel.targets => Newest(n)' = {rel}
      /\ n \notin rel.targets => Newest(n)' = Newest(n)
      /\ Last(OfScope("site"))' = IF rel.scope = "site" THEN {rel} ELSE Last(OfScope("site"))
    BY <1>7, CommitsLast
<1>9. CASE rel.scope = "site"
  <2>1. /\ rel.targets = job[a].site.bound /\ job[a].op = "publish" /\ site.exists
      BY <1>2, <1>6, <1>9 DEF Ready, At, Compiled, Copied, Matches
  <2>2. n \notin rel.targets
      BY <1>1, <1>2, <1>8, <1>9, <2>1
  <2>3. Serves(n)
      BY <1>1, <1>8, <2>2 DEF Serves
  <2>4. \A b \in Admins : n \notin job[b].detached
      BY <1>1, <1>4, <1>5, <1>9
  <2>5. n \notin DetachedNodes(job[a].site.bound)
      BY <1>2, <1>6, <1>9, <2>1, <2>4 DEF Sent, At
  <2>6. ~\E r \in Last(OfScope("site")) : n \in r.targets
      BY <2>1, <2>2, <2>5, DetachedMembers
  <2> QED BY <1>1, <2>3, <2>4, <2>6 DEF Stranded
<1>10. CASE rel.scope # "site"
  <2>1. rel.targets = job[a].detached
      BY <1>2, <1>6, <1>10 DEF Ready, At
  <2>2. n \notin rel.targets
      BY <1>1, <1>8, <1>10 DEF Serves
  <2>3. Serves(n)
      BY <1>1, <1>8, <2>2 DEF Serves
  <2>4. \A b \in Admins : n \notin job[b].detached
      BY <1>1, <1>5, <2>1, <2>2
  <2> QED BY <1>1, <1>2, <1>8, <1>10, <2>3, <2>4 DEF Stranded
<1> QED BY <1>9, <1>10

LEMMA FreshStrandsNot ==
    ASSUME TypeInv, FreshInv, NEW a \in Admins, job[a].fresh, Step(a), ~DeleteRow(a),
           ~(job[a].op \in {"enable", "disable"} /\ Commit(a))
    PROVE  Stranded' \subseteq Stranded
<1>1. job[a] \in Job /\ InHand(job[a])
    BY DEF TypeInv, JobType, Handled
<1>2. CASE Commit(a)
    BY <1>2, CommitStrandsNot
<1>3. CASE Compile(a)
  <2>1. job[a].step \in {"compile", "cleanup"} /\ UNCHANGED <<site, releases>> /\ clock' \in Nat
      BY <1>3 DEF Compile, At, TypeInv, ReleaseType
  <2>2. Continue(a, WithRelease(job[a], clock'))
      BY <1>3 DEF Compile, At, WithRelease, CompiledBy
  <2>3. WithRelease(job[a], clock').detached = job[a].detached
      BY <1>1, <2>1, WithReleaseFacts
  <2> QED BY <2>1, <2>2, <2>3, StrandedStep
<1>4. CASE ReadSite(a) \/ ReadBindings(a) \/ Save(a) \/ Detach(a) \/ Publish(a)
  <2>1. job[a].detached = {}
      BY <1>1, <1>4 DEF InHand, ReadSite, ReadBindings, Save, Detach, Publish, At
  <2>2. /\ UNCHANGED releases /\ (site.exists => site'.exists)
        /\ \E j : Continue(a, j) \/ Written(a, j)
      BY <1>4 DEF ReadSite, ReadBindings, Save, Detach, Publish, SaveSite
  <2> QED BY <2>1, <2>2, StrandedStep
<1> QED BY <1>2, <1>3, <1>4 DEF Step

LEMMA OthersStrandNot ==
    ASSUME TypeInv,
           \/ CreateSite
           \/ \E a \in Admins : \E op, nodes : Begin(a, op, nodes)
    PROVE  Stranded' \subseteq Stranded
<1>1. CASE CreateSite
  <2>1. releases' = {}
      BY <1>1 DEF CreateSite, TypeInv, Blank
  <2> QED BY <2>1 DEF Stranded, Serves, Newest, Last
<1>2. ASSUME NEW a \in Admins, NEW op, NEW nodes, Begin(a, op, nodes)
      PROVE  Stranded' \subseteq Stranded
  <2>1. job[a].detached = {}
      BY <1>2 DEF Begin, At, TypeInv, Handled, InHand
  <2>2. UNCHANGED <<site, releases>> /\ \E j : Continue(a, j)
      BY <1>2 DEF Begin
  <2> QED BY <2>1, <2>2, StrandedStep
<1> QED BY <1>1, <1>2

StrandsStep == \/ Stranded' \subseteq Stranded \/ FailoverRelease
               \/ \E a \in Admins : Forgets(a)

\* A node that serves the site is lost track of only by a status change, a
\* failover or a deletion, when a handler ends half way, or by a request whose
\* copy is stale: detached_node_ids_for_site and the cleanup release find all
\* the others, in every order of create_release and its neighbours.
THEOREM PublishingStrandsNone == Spec => StrandsOnly
<1>1. TypeInv /\ FreshInv /\ [Next]_vars => [StrandsStep]_vars
  <2>1. ASSUME TypeInv, FreshInv, NEW a \in Admins, Step(a), ~Forgets(a)
        PROVE  Stranded' \subseteq Stranded
      BY <2>1, FreshStrandsNot DEF Forgets
  <2>2. ASSUME NEW a \in Admins, Drop(a)
        PROVE  Forgets(a)
      BY <2>2 DEF Forgets
  <2> SUFFICES ASSUME TypeInv, FreshInv, Next
               PROVE  StrandsStep
      OBVIOUS
  <2> QED BY <2>1, <2>2, OthersStrandNot DEF Next, StrandsStep
<1> QED BY <1>1, FreshAlways, PTL DEF Spec, StrandsOnly, StrandsStep

=============================================================================
