----------------------- MODULE ReleaseRolloutProofs -----------------------
(***************************************************************************)
(* Proofs about ReleaseRollout for every set of nodes and sites and every  *)
(* bound on releases, faults and orphaned handlers.                        *)
(***************************************************************************)
EXTENDS ReleaseRollout, TLAPS

-----------------------------------------------------------------------------
(***************************************************************************)
(* Type correctness.  It is not inductive alone: the release an agent      *)
(* reports on must be a release, and one that targets its node.            *)
(***************************************************************************)

Working == Waiting \cup {"fetch", "command", "health", "activate", "content"}

Aimed == \A n \in Nodes : pc[n] \in Working => target[n] \in Targeting(n)

TypeInv == TypeOK /\ Aimed

\* The next step of a handler is again a handler.
LEMMA AdvancedType ==
    ASSUME NEW h \in Handler, h.step \in {"row", "read", "write"}
    PROVE  Advanced(h) \in Handler
  <1>1. AggregateStatus(ack[h.rel]) \in Aggregate
    BY DEF AggregateStatus, Aggregate
  <1>2. CASE h.step = "row"
    BY <1>2 DEF Advanced, Handler, HandlerStep
  <1>3. CASE h.step = "read"
    BY <1>1, <1>3 DEF Advanced, Handler, HandlerStep
  <1>4. CASE h.step = "write"
    BY <1>4 DEF Advanced, Handler, HandlerStep
  <1>5. QED  BY <1>2, <1>3, <1>4

\* A step of a handler keeps the tables it writes well typed.
LEMMA HandleType ==
    ASSUME TypeOK, NEW n \in Nodes, NEW h \in Handler, Handle(n, h)
    PROVE  /\ ack' \in [Ids -> [Nodes -> ApplyStatus]]
           /\ stored' \in [Ids -> Aggregate]
           /\ h.step \in {"row", "read", "write"}
  <1>1. h.rel \in Ids /\ h.status \in ApplyStatus /\ h.agg \in Aggregate
    BY DEF Handler, Reported, ApplyStatus
  <1>2. CASE HandleRow(n, h)
    BY <1>1, <1>2 DEF HandleRow, TypeOK
  <1>3. CASE HandleRead(h)
    BY <1>3 DEF HandleRead, TypeOK
  <1>4. CASE HandleWrite(h)
    BY <1>1, <1>4 DEF HandleWrite, TypeOK
  <1>5. QED  BY <1>2, <1>3, <1>4 DEF Handle

\* The newest release of a node is one of the releases that target it.
LEMMA LatestType ==
    ASSUME TypeOK, NEW n \in Nodes, NEW r \in LatestRelease(n)
    PROVE  r \in Ids /\ r \in Targeting(n)
  <1>1. Len(releases) \in Nat /\ Len(releases) <= MaxReleases
    BY DEF TypeOK
  <1>2. QED  BY <1>1, RolloutAssumption DEF LatestRelease, Targeting, Ids

\* A release that targets a node is a release.
LEMMA TargetingType ==
    ASSUME TypeOK, NEW n \in Nodes, NEW r \in Targeting(n)
    PROVE  r \in Ids /\ r \in IdsOrNone /\ r \in 1..Len(releases)
  <1>1. Len(releases) \in Nat /\ Len(releases) <= MaxReleases
    BY DEF TypeOK
  <1>2. QED  BY <1>1, RolloutAssumption DEF Targeting, Ids, IdsOrNone

\* Posting a report keeps the network and the program counter well typed.
LEMMA ReportType ==
    ASSUME TypeOK, NEW n \in Nodes, NEW r \in Ids, NEW status \in Reported,
           NEW l \in PC, Report(n, r, status, l)
    PROVE  /\ req' \in [Nodes -> Handler \cup {NoHandler}]
           /\ orphan' \in [Nodes -> Handler \cup {NoHandler}]
           /\ pc' \in [Nodes -> PC]
           /\ faults' \in 0..MaxFaults
           /\ orphans' \in 0..MaxOrphans
  <1>1. [rel |-> r, status |-> status, step |-> "row", agg |-> "pending"] \in Handler
    BY DEF Handler, HandlerStep, Aggregate
  <1>2. QED  BY <1>1 DEF Report, Goto, TypeOK

\* The steps of an agent keep the state well typed.
LEMMA AgentType ==
    ASSUME TypeInv, NEW n \in Nodes, AgentStep(n)
    PROVE  TypeOK'
  <1> USE RolloutAssumption DEF TypeInv
  <1> USE DEF hubVars, netVars
  <1>0. /\ pc[n] \in Working => target[n] \in Ids /\ target[n] \in IdsOrNone
        /\ {"heartbeat", "poll", "downloading", "fetch", "applying", "command",
            "health", "failing", "activate", "content", "acking",
            "confirming", "down"} \subseteq PC
    BY TargetingType DEF Aimed, PC, Waiting
  <1>1. CASE Start(n)
    BY <1>0, <1>1 DEF Start, Goto, NoRelease, IdsOrNone, TypeOK
  <1>2. CASE Heartbeat(n)
    BY <1>0, <1>2 DEF Heartbeat, Goto, LocalState, TypeOK
  <1>3. CASE PollDownload(n)
    <2>1. PICK r \in LatestRelease(n) :
            /\ target' = [target EXCEPT ![n] = r]
            /\ Report(n, r, "downloading", "downloading")
      BY <1>3 DEF PollDownload
    <2>2. r \in Ids /\ r \in IdsOrNone
      BY <2>1, LatestType, TargetingType
    <2>3. target' \in [Nodes -> IdsOrNone]
      BY <2>1, <2>2 DEF TypeOK
    <2>4. /\ req' \in [Nodes -> Handler \cup {NoHandler}]
          /\ orphan' \in [Nodes -> Handler \cup {NoHandler}]
          /\ pc' \in [Nodes -> PC]
          /\ faults' \in 0..MaxFaults
          /\ orphans' \in 0..MaxOrphans
      BY <1>0, <2>1, <2>2, ReportType DEF Reported
    <2>5. QED  BY <1>3, <2>3, <2>4 DEF PollDownload, TypeOK
  <1>4. CASE PollConfirm(n)
    <2>1. PICK r \in LatestRelease(n) :
            /\ target' = [target EXCEPT ![n] = r]
            /\ Report(n, r, "success", "confirming")
      BY <1>4 DEF PollConfirm
    <2>2. r \in Ids /\ r \in IdsOrNone
      BY <2>1, LatestType, TargetingType
    <2>3. target' \in [Nodes -> IdsOrNone]
      BY <2>1, <2>2 DEF TypeOK
    <2>4. /\ req' \in [Nodes -> Handler \cup {NoHandler}]
          /\ orphan' \in [Nodes -> Handler \cup {NoHandler}]
          /\ pc' \in [Nodes -> PC]
          /\ faults' \in 0..MaxFaults
          /\ orphans' \in 0..MaxOrphans
      BY <1>0, <2>1, <2>2, ReportType DEF Reported
    <2>5. QED  BY <1>4, <2>3, <2>4 DEF PollConfirm, TypeOK
  <1>5. CASE PollIdle(n)
    BY <1>0, <1>5 DEF PollIdle, Goto, TypeOK
  <1>6. CASE Downloading(n)
    BY <1>0, <1>6 DEF Downloading, Answered, Goto, TypeOK
  <1>7. CASE Fetch(n)
    <2>1. target[n] \in Ids
      BY <1>0, <1>7 DEF Fetch, Working
    <2>2. /\ req' \in [Nodes -> Handler \cup {NoHandler}]
          /\ orphan' \in [Nodes -> Handler \cup {NoHandler}]
          /\ pc' \in [Nodes -> PC]
          /\ faults' \in 0..MaxFaults
          /\ orphans' \in 0..MaxOrphans
      BY <1>0, <1>7, <2>1, ReportType DEF Fetch, Reported
    <2>3. QED  BY <1>7, <2>2 DEF Fetch, TypeOK
  <1>8. CASE Applying(n)
    BY <1>0, <1>8 DEF Applying, Answered, Goto, TypeOK
  <1>9. CASE ApplyCommand(n)
    BY <1>0, <1>9 DEF ApplyCommand, Working, Goto, TypeOK
  <1>10. CASE Failing(n)
    BY <1>0, <1>10 DEF Failing, Answered, Goto, TypeOK
  <1>11. CASE HealthCheck(n)
    BY <1>0, <1>11 DEF HealthCheck, Working, Goto, TypeOK
  <1>12. CASE ActivateVersion(n)
    BY <1>0, <1>12 DEF ActivateVersion, Working, Goto, TypeOK
  <1>13. CASE ActivateContent(n)
    <2>1. target[n] \in Ids /\ target[n] \in IdsOrNone
      BY <1>0, <1>13 DEF ActivateContent, Working
    <2>2. /\ req' \in [Nodes -> Handler \cup {NoHandler}]
          /\ orphan' \in [Nodes -> Handler \cup {NoHandler}]
          /\ pc' \in [Nodes -> PC]
          /\ faults' \in 0..MaxFaults
          /\ orphans' \in 0..MaxOrphans
      BY <1>0, <1>13, <2>1, ReportType DEF ActivateContent, Reported
    <2>3. mem' \in [Nodes -> LocalState]
      BY <1>13, <2>1 DEF ActivateContent, LocalState, TypeOK
    <2>4. files' \in [Nodes -> [version: IdsOrNone, content: IdsOrNone]]
      BY <1>13, <2>1 DEF ActivateContent, TypeOK
    <2>5. QED  BY <1>13, <2>2, <2>3, <2>4 DEF ActivateContent, TypeOK
  <1>14. CASE Acknowledged(n)
    <2>1. target[n] \in IdsOrNone
      BY DEF TypeOK
    <2>2. mem' \in [Nodes -> LocalState]
      BY <1>14, <2>1 DEF Acknowledged, LocalState, TypeOK
    <2>3. QED  BY <1>0, <1>14, <2>2 DEF Acknowledged, Answered, Goto, TypeOK
  <1>15. QED
    BY AgentStep(n), <1>1, <1>2, <1>3, <1>4, <1>5, <1>6, <1>7, <1>8, <1>9, <1>10,
       <1>11, <1>12, <1>13, <1>14 DEF AgentStep

\* Giving up a request keeps the orphaned handlers well typed.
LEMMA AbandonType ==
    ASSUME TypeOK, NEW n \in Nodes, Abandon(n)
    PROVE  /\ orphan' \in [Nodes -> Handler \cup {NoHandler}]
           /\ orphans' \in 0..MaxOrphans
  BY RolloutAssumption DEF Abandon, TypeOK

\* Faults keep the state well typed.
LEMMA EnvironmentType ==
    ASSUME TypeInv, NEW n \in Nodes, Environment(n)
    PROVE  TypeOK'
  <1> USE RolloutAssumption DEF TypeInv
  <1> USE DEF hubVars, Fault
  <1>0. /\ pc[n] \in Working => target[n] \in Ids /\ target[n] \in IdsOrNone
        /\ {"heartbeat", "poll", "failing", "down"} \subseteq PC
    BY TargetingType DEF Aimed, PC, Waiting
  <1>1. CASE ApplyFails(n)
    <2>1. target[n] \in Ids /\ target[n] \in IdsOrNone
      BY <1>0, <1>1 DEF ApplyFails, Working
    <2>2. [rel |-> target[n], status |-> "failed", step |-> "row",
           agg |-> "pending"] \in Handler
      BY <2>1 DEF Handler, Reported, HandlerStep, Aggregate
    <2>3. running' \in [Nodes -> IdsOrNone]
      BY <1>1, <2>1 DEF ApplyFails, TypeOK
    <2>4. req' \in [Nodes -> Handler \cup {NoHandler}]
      BY <1>1, <2>2 DEF ApplyFails, TypeOK
    <2>5. pc' \in [Nodes -> PC] /\ faults' \in 0..MaxFaults
      BY <1>0, <1>1 DEF ApplyFails, Goto, TypeOK
    <2>6. QED  BY <1>1, <2>3, <2>4, <2>5 DEF ApplyFails, TypeOK
  <1>2. CASE RequestFails(n)
    <2>1. pc' \in [Nodes -> PC]
      BY <1>0, <1>2 DEF RequestFails, Goto, TypeOK
    <2>2. faults' \in 0..MaxFaults
      BY <1>2 DEF RequestFails, TypeOK
    <2>3. req' \in [Nodes -> Handler \cup {NoHandler}]
      BY <1>2 DEF RequestFails, TypeOK
    <2>4. /\ orphan' \in [Nodes -> Handler \cup {NoHandler}]
          /\ orphans' \in 0..MaxOrphans
      BY <1>2, AbandonType DEF RequestFails
    <2>5. QED  BY <1>2, <2>1, <2>2, <2>3, <2>4 DEF RequestFails, TypeOK
  <1>3. CASE ActivateFails(n)
    BY <1>0, <1>3 DEF ActivateFails, Goto, TypeOK
  <1>4. CASE PersistFails(n)
    <2>1. target[n] \in IdsOrNone
      BY DEF TypeOK
    <2>2. mem' \in [Nodes -> LocalState]
      BY <1>4, <2>1 DEF PersistFails, LocalState, TypeOK
    <2>3. QED  BY <1>0, <1>4, <2>2 DEF PersistFails, Goto, TypeOK
  <1>5. CASE TornPersist(n)
    BY <1>0, <1>5 DEF TornPersist, Goto, LocalState, TypeOK
  <1>6. CASE Crash(n)
    BY <1>0, <1>6, AbandonType DEF Crash, Goto, TypeOK
  <1>7. QED
    BY Environment(n), <1>1, <1>2, <1>3, <1>4, <1>5, <1>6 DEF Environment

\* Every step keeps every agent's target among the releases for its node:
\* releases are only added, and only a poll sets a target.
LEMMA AimedInductive ==
    ASSUME TypeInv, [Next]_vars
    PROVE  Aimed'
  <1> USE RolloutAssumption DEF TypeInv
  <1>1. ASSUME NEW s \in Sites, NEW T \in SUBSET Nodes, Publish(s, T)
        PROVE  Aimed'
    <2>1. \A n \in Nodes : Targeting(n) \subseteq Targeting(n)'
      BY <1>1 DEF Publish, Targeting, TypeOK
    <2>2. QED  BY <1>1, <2>1 DEF Publish, Aimed, agentVars
  <1>2. ASSUME UNCHANGED <<releases, pc, target>>  PROVE Aimed'
    BY <1>2 DEF Aimed, Targeting
  <1>3. ASSUME NEW n \in Nodes, UNCHANGED releases,
               PollDownload(n) \/ PollConfirm(n)
        PROVE  Aimed'
    <2>1. PICK r \in LatestRelease(n), l \in {"downloading", "confirming"} :
            /\ target' = [target EXCEPT ![n] = r]
            /\ pc' = [pc EXCEPT ![n] = l]
      BY <1>3 DEF PollDownload, PollConfirm, Report, Goto
    <2>2. r \in Targeting(n)
      BY <2>1, LatestType
    <2>3. QED  BY <1>3, <2>1, <2>2 DEF Aimed, Targeting, TypeOK
  <1>4. ASSUME NEW n \in Nodes, NEW l \in PC, UNCHANGED releases,
               pc' = [pc EXCEPT ![n] = l],
               \/ UNCHANGED target /\ (l \in Working => pc[n] \in Working)
               \/ target' = [target EXCEPT ![n] = NoRelease] /\ l \notin Working
        PROVE  Aimed'
    BY <1>4 DEF Aimed, Targeting, TypeOK
  <1> USE DEF hubVars, agentVars, netVars
  <1> HIDE DEF TypeInv
  <1>5. {"heartbeat", "poll", "downloading", "fetch", "applying", "command",
         "health", "failing", "activate", "content", "acking",
         "confirming", "down"} \subseteq PC
    BY DEF PC, Waiting
  <1>6. ASSUME NEW n \in Nodes, AgentStep(n)  PROVE Aimed'
    <2> USE DEF Goto, Working, Waiting
    <2>1. CASE Start(n)            BY <1>4, <1>5, <2>1 DEF Start
    <2>2. CASE Heartbeat(n)        BY <1>4, <1>5, <2>2 DEF Heartbeat
    <2>3. CASE PollDownload(n)     BY <1>3, <2>3 DEF PollDownload
    <2>4. CASE PollConfirm(n)      BY <1>3, <2>4 DEF PollConfirm
    <2>5. CASE PollIdle(n)         BY <1>4, <1>5, <2>5 DEF PollIdle
    <2>6. CASE Downloading(n)      BY <1>4, <1>5, <2>6 DEF Downloading, Answered
    <2>7. CASE Fetch(n)            BY <1>4, <1>5, <2>7 DEF Fetch, Report
    <2>8. CASE Applying(n)         BY <1>4, <1>5, <2>8 DEF Applying, Answered
    <2>9. CASE ApplyCommand(n)     BY <1>4, <1>5, <2>9 DEF ApplyCommand
    <2>10. CASE Failing(n)         BY <1>4, <1>5, <2>10 DEF Failing
    <2>11. CASE HealthCheck(n)     BY <1>4, <1>5, <2>11 DEF HealthCheck
    <2>12. CASE ActivateVersion(n) BY <1>4, <1>5, <2>12 DEF ActivateVersion
    <2>13. CASE ActivateContent(n) BY <1>4, <1>5, <2>13 DEF ActivateContent, Report
    <2>14. CASE Acknowledged(n)    BY <1>4, <1>5, <2>14 DEF Acknowledged
    <2>15. QED
      BY <1>6, <2>1, <2>2, <2>3, <2>4, <2>5, <2>6, <2>7, <2>8, <2>9, <2>10,
         <2>11, <2>12, <2>13, <2>14 DEF AgentStep
  <1>7. ASSUME NEW n \in Nodes, Environment(n)  PROVE Aimed'
    <2> USE DEF Goto, Working, Waiting
    <2>1. CASE ApplyFails(n)       BY <1>4, <1>5, <2>1 DEF ApplyFails
    <2>2. CASE RequestFails(n)     BY <1>4, <1>5, <2>2 DEF RequestFails
    <2>3. CASE ActivateFails(n)    BY <1>4, <1>5, <2>3 DEF ActivateFails
    <2>4. CASE PersistFails(n)     BY <1>4, <1>5, <2>4 DEF PersistFails
    <2>5. CASE TornPersist(n)      BY <1>4, <1>5, <2>5 DEF TornPersist
    <2>6. CASE Crash(n)            BY <1>4, <1>5, <2>6 DEF Crash
    <2>7. QED
      BY <1>7, <2>1, <2>2, <2>3, <2>4, <2>5, <2>6 DEF Environment
  <1>8. QED
    BY <1>1, <1>2, <1>6, <1>7 DEF Next, vars, HubStep, OrphanStep

\* A stuttering step keeps the state well typed.
LEMMA TypeStutter ==
    ASSUME TypeInv, UNCHANGED vars
    PROVE  TypeInv'
  <1>1. UNCHANGED <<releases, ack, stored, seen>>
    BY DEF vars, hubVars
  <1>2. UNCHANGED <<pc, target, mem, disk, torn, files, running, passed>>
    BY DEF vars, agentVars
  <1>3. UNCHANGED <<req, orphan, faults, orphans>>
    BY DEF vars, netVars
  <1>4. QED  BY <1>1, <1>2, <1>3 DEF TypeInv, TypeOK, Aimed, Targeting

\* Every step keeps the state well typed.
LEMMA TypeNext ==
    ASSUME TypeInv, Next
    PROVE  TypeInv'
  <1> USE RolloutAssumption
  <1>1. ASSUME NEW s \in Sites, NEW T \in SUBSET Nodes, Publish(s, T)
        PROVE  TypeOK'
    <2>1. Len(releases) \in Nat /\ Len(releases) + 1 \in Ids
      BY <1>1 DEF Publish, TypeInv, TypeOK, Ids
    <2>2. /\ releases' \in Seq([site: Sites, targets: SUBSET Nodes])
          /\ Len(releases') <= MaxReleases
      BY <1>1, <2>1 DEF Publish, TypeInv, TypeOK, Ids
    <2>3. ack' \in [Ids -> [Nodes -> ApplyStatus]]
      BY <1>1, <2>1 DEF Publish, TypeInv, TypeOK, ApplyStatus
    <2>4. stored' \in [Ids -> Aggregate]
      BY <1>1, <2>1 DEF Publish, TypeInv, TypeOK, Aggregate
    <2>5. QED
      BY <1>1, <2>2, <2>3, <2>4 DEF Publish, TypeInv, TypeOK, agentVars, netVars
  <1>2. ASSUME NEW n \in Nodes, HubStep(n) PROVE TypeOK'
    <2>1. req[n] \in Handler
      BY <1>2 DEF HubStep, TypeInv, TypeOK
    <2>2. Advanced(req[n]) \in Handler
      BY <1>2, <2>1, HandleType, AdvancedType DEF HubStep, TypeInv
    <2>3. req' \in [Nodes -> Handler \cup {NoHandler}]
      BY <1>2, <2>2 DEF HubStep, TypeInv, TypeOK
    <2>4. QED
      BY <1>2, <2>1, <2>3, HandleType DEF HubStep, TypeInv, TypeOK, agentVars
  <1>3. ASSUME NEW n \in Nodes, OrphanStep(n) PROVE TypeOK'
    <2>1. orphan[n] \in Handler
      BY <1>3 DEF OrphanStep, TypeInv, TypeOK
    <2>2. Advanced(orphan[n]) \in Handler
      BY <1>3, <2>1, HandleType, AdvancedType DEF OrphanStep, TypeInv
    <2>3. orphan' \in [Nodes -> Handler \cup {NoHandler}]
      BY <1>3, <2>2 DEF OrphanStep, TypeInv, TypeOK
    <2>4. QED
      BY <1>3, <2>1, <2>3, HandleType DEF OrphanStep, TypeInv, TypeOK, agentVars
  <1>4. TypeOK'
    BY <1>1, <1>2, <1>3, AgentType, EnvironmentType DEF Next
  <1>5. QED  BY <1>4, AimedInductive DEF TypeInv

\* The initial state is well typed.
LEMMA TypeInit == Init => TypeInv
  <1> SUFFICES ASSUME Init PROVE TypeInv
    OBVIOUS
  <1>1. TypeOK
    BY RolloutAssumption DEF Init, TypeOK, Fresh, LocalState, NoRelease, IdsOrNone,
       PC, Aggregate, ApplyStatus
  <1>2. Aimed
    BY DEF Init, Aimed, Working, Waiting
  <1>3. QED  BY <1>1, <1>2 DEF TypeInv

\* The tables of the hub, the agents' local state and the requests in flight
\* always have the types the schema and the structs give them.
THEOREM TypeCorrect == Spec => []TypeOK
  <1>1. Spec => []TypeInv
    BY TypeInit, TypeNext, TypeStutter, PTL DEF Spec
  <1>2. QED  BY <1>1, PTL DEF TypeInv

-----------------------------------------------------------------------------
(***************************************************************************)
(* Success means passed.  A success travels from the pipeline through the  *)
(* agent's memory, a request, the ack row and the aggregate: each of those *)
(* stations is sound.                                                      *)
(***************************************************************************)

RowsExist == \A r \in 1..Len(releases) :
                \A n \in releases[r].targets : ack[r][n] # "none"

HandlerFacts(n, h) ==
    /\ h.rel \in 1..Len(releases)
    /\ h.status = "success" => h.rel \in passed[n]
    /\ h.agg = "success" => \A m \in releases[h.rel].targets : h.rel \in passed[m]

HandlersSound == \A n \in Nodes :
                    /\ req[n] # NoHandler => HandlerFacts(n, req[n])
                    /\ orphan[n] # NoHandler => HandlerFacts(n, orphan[n])

BeliefSound == \A n \in Nodes : /\ mem[n].current \in passed[n] \cup {NoRelease}
                                /\ disk[n].current \in passed[n] \cup {NoRelease}

PipelineSound == \A n \in Nodes :
                    pc[n] \in {"activate", "content"} => target[n] \in passed[n]

TableSound == RowSound /\ RowsExist /\ StoredSound
AgentSound == HandlersSound /\ BeliefSound /\ PipelineSound /\ SeenSound
SoundInv   == TableSound /\ AgentSound

\* The nodes a release targets are nodes.
LEMMA TargetsAreNodes ==
    ASSUME TypeOK, NEW r \in 1..Len(releases)
    PROVE  r \in Ids /\ releases[r].targets \subseteq Nodes
  <1> DEFINE R == [site: Sites, targets: SUBSET Nodes]
  <1>1. releases \in Seq(R)
    BY DEF TypeOK
  <1>2. Len(releases) \in Nat /\ releases \in [1..Len(releases) -> R]
    <2> HIDE DEF R
    <2>1. QED  BY <1>1
  <1>3. releases[r] \in R
    <2> HIDE DEF R
    <2>1. QED  BY <1>2
  <1>4. r \in Ids
    BY <1>2, RolloutAssumption DEF TypeOK, Ids
  <1>5. QED  BY <1>3, <1>4

\* If every row of a release aggregates to success, every target passed it.
LEMMA AggregateSound ==
    ASSUME TypeOK, RowSound, RowsExist, NEW r \in 1..Len(releases),
           AggregateStatus(ack[r]) = "success"
    PROVE  \A n \in releases[r].targets : r \in passed[n]
  <1>1. SUFFICES ASSUME NEW n \in releases[r].targets PROVE r \in passed[n]
    OBVIOUS
  <1>2. r \in Ids /\ n \in Nodes
    BY TargetsAreNodes
  <1>3. {ack[r][m] : m \in {k \in Nodes : ack[r][k] # "none"}} = {"success"}
    BY DEF AggregateStatus
  <1>4. ack[r][n] # "none"
    BY DEF RowsExist
  <1>5. ack[r][n] \in {ack[r][m] : m \in {k \in Nodes : ack[r][k] # "none"}}
    BY <1>2, <1>4
  <1>6. ack[r][n] = "success"
    BY <1>3, <1>5
  <1>7. QED  BY <1>2, <1>6 DEF RowSound

\* A step that leaves the hub's tables alone keeps them sound, because the set
\* of releases a node has passed only grows.
LEMMA TableQuiet ==
    ASSUME TypeOK, TableSound, UNCHANGED <<releases, ack, stored>>,
           \A n \in Nodes : passed[n] \subseteq passed'[n]
    PROVE  TableSound'
  <1>1. releases' = releases /\ ack' = ack /\ stored' = stored
    OBVIOUS
  <1>2. \A r \in Ids, n \in Nodes : ack[r][n] = "success" => r \in passed'[n]
    BY DEF TableSound, RowSound
  <1>3. \A r \in 1..Len(releases) : stored[r] = "success" =>
            \A n \in releases[r].targets : r \in passed'[n]
    <2>1. SUFFICES ASSUME NEW r \in 1..Len(releases), stored[r] = "success",
                          NEW n \in releases[r].targets
                   PROVE  r \in passed'[n]
      OBVIOUS
    <2>2. n \in Nodes /\ r \in passed[n]
      BY TargetsAreNodes, <2>1 DEF TableSound, StoredSound
    <2>3. QED  BY <2>2
  <1>4. RowSound'
    BY <1>1, <1>2 DEF RowSound
  <1>5. StoredSound'
    BY <1>1, <1>3 DEF StoredSound
  <1>6. RowsExist'
    BY <1>1 DEF TableSound, RowsExist
  <1>7. QED  BY <1>4, <1>5, <1>6 DEF TableSound

\* A sound handler stays sound while releases and passes are only added.
LEMMA HandlerQuiet ==
    ASSUME TypeOK, NEW n \in Nodes, NEW h \in Handler, HandlerFacts(n, h),
           UNCHANGED releases, \A m \in Nodes : passed[m] \subseteq passed'[m]
    PROVE  HandlerFacts(n, h)'
  <1>1. releases' = releases
    OBVIOUS
  <1>2. h.rel \in 1..Len(releases) /\ (h.status = "success" => h.rel \in passed'[n])
    BY DEF HandlerFacts
  <1>3. h.agg = "success" => \A m \in releases[h.rel].targets : h.rel \in passed'[m]
    <2>1. SUFFICES ASSUME h.agg = "success", NEW m \in releases[h.rel].targets
                   PROVE  h.rel \in passed'[m]
      OBVIOUS
    <2>2. m \in Nodes /\ h.rel \in passed[m]
      BY <2>1, <1>2, TargetsAreNodes DEF HandlerFacts
    <2>3. QED  BY <2>2
  <1>4. QED  BY <1>1, <1>2, <1>3 DEF HandlerFacts

\* One database step of a sound handler keeps the tables and itself sound.
LEMMA HandleSound ==
    ASSUME TypeOK, TableSound, NEW n \in Nodes, NEW h \in Handler,
           HandlerFacts(n, h), Handle(n, h), UNCHANGED <<releases, passed>>
    PROVE  TableSound' /\ HandlerFacts(n, Advanced(h))
  <1>1. h.rel \in 1..Len(releases) /\ h.rel \in Ids
    BY TargetsAreNodes DEF HandlerFacts
  <1>2. releases' = releases /\ passed' = passed
    OBVIOUS
  <1>3. CASE HandleRow(n, h)
    <2>1. ack' = [ack EXCEPT ![h.rel][n] = h.status] /\ stored' = stored
      BY <1>3 DEF HandleRow
    <2>2. h.status \in ApplyStatus /\ h.status # "none"
      BY DEF Handler, Reported, ApplyStatus
    <2>3. RowSound'
      BY <1>1, <1>2, <2>1 DEF RowSound, TableSound, HandlerFacts, TypeOK
    <2>4. RowsExist'
      <3>1. SUFFICES ASSUME NEW r \in 1..Len(releases), NEW m \in releases[r].targets
                     PROVE  ack'[r][m] # "none"
        BY <1>2 DEF RowsExist
      <3>2. r \in Ids /\ m \in Nodes
        BY TargetsAreNodes
      <3>3. QED  BY <1>1, <2>1, <2>2, <3>2 DEF RowsExist, TableSound, TypeOK
    <2>5. StoredSound'
      BY <1>2, <2>1 DEF StoredSound, TableSound
    <2>6. HandlerFacts(n, Advanced(h))
      BY <1>3 DEF HandleRow, Advanced, HandlerFacts, Handler
    <2>7. QED  BY <2>3, <2>4, <2>5, <2>6 DEF TableSound
  <1>4. CASE HandleRead(h)
    <2>1. TableSound'
      BY <1>4, <1>2, TableQuiet DEF HandleRead
    <2>2. Advanced(h) = [h EXCEPT !.step = "write", !.agg = AggregateStatus(ack[h.rel])]
      BY <1>4 DEF HandleRead, Advanced
    <2>3. AggregateStatus(ack[h.rel]) = "success" =>
             \A m \in releases[h.rel].targets : h.rel \in passed[m]
      BY <1>1, AggregateSound DEF TableSound
    <2>4. HandlerFacts(n, Advanced(h))
      BY <2>2, <2>3 DEF HandlerFacts, Handler
    <2>5. QED  BY <2>1, <2>4
  <1>5. CASE HandleWrite(h)
    <2>1. ack' = ack /\ stored' = [stored EXCEPT ![h.rel] = h.agg]
      BY <1>5 DEF HandleWrite
    <2>2. RowSound' /\ RowsExist'
      BY <1>2, <2>1 DEF RowSound, RowsExist, TableSound
    <2>3. StoredSound'
      <3>1. SUFFICES ASSUME NEW r \in 1..Len(releases), stored'[r] = "success"
                     PROVE  \A m \in releases[r].targets : r \in passed[m]
        BY <1>2 DEF StoredSound
      <3>2. CASE r = h.rel
        BY <1>1, <2>1, <3>1, <3>2 DEF HandlerFacts, TypeOK
      <3>3. CASE r # h.rel
        BY <1>1, <2>1, <3>1, <3>3, TargetsAreNodes DEF TableSound, StoredSound, TypeOK
      <3>4. QED  BY <3>2, <3>3
    <2>4. HandlerFacts(n, Advanced(h))
      BY <1>5 DEF HandleWrite, Advanced, HandlerFacts, Handler
    <2>5. QED  BY <2>2, <2>3, <2>4 DEF TableSound
  <1>6. QED  BY <1>3, <1>4, <1>5 DEF Handle

\* A new release has a row for each of its targets and no success yet.
LEMMA PublishSound ==
    ASSUME TypeOK, SoundInv, NEW s \in Sites, NEW T \in SUBSET Nodes, Publish(s, T)
    PROVE  SoundInv'
  <1> DEFINE r == Len(releases) + 1
  <1>1. /\ Len(releases) \in Nat /\ r \in Ids
        /\ Len(releases') = r
        /\ \A q \in 1..Len(releases) : releases'[q] = releases[q] /\ q # r /\ q \in Ids
        /\ releases'[r] = [site |-> s, targets |-> T]
        /\ \A q \in 1..r : q = r \/ q \in 1..Len(releases)
        /\ \A q \in 1..Len(releases) : q \in 1..r
    BY RolloutAssumption DEF Publish, TypeOK, Ids
  <1>2. /\ ack' = [ack EXCEPT ![r] =
                     [n \in Nodes |-> IF n \in T THEN "pending" ELSE "none"]]
        /\ stored' = [stored EXCEPT ![r] = "pending"]
        /\ ack \in [Ids -> [Nodes -> ApplyStatus]] /\ stored \in [Ids -> Aggregate]
    BY DEF Publish, TypeOK
  <1>3. UNCHANGED <<seen, pc, target, mem, disk, passed, req, orphan>>
    BY DEF Publish, agentVars, netVars
  <1> HIDE DEF r
  <1>4. RowSound'
    BY <1>1, <1>2, <1>3 DEF RowSound, SoundInv, TableSound
  <1>5. RowsExist'
    BY <1>1, <1>2 DEF RowsExist, SoundInv, TableSound
  <1>6. StoredSound'
    BY <1>1, <1>2, <1>3 DEF StoredSound, SoundInv, TableSound
  <1>7. HandlersSound'
    <2>1. ASSUME NEW n \in Nodes, NEW h, HandlerFacts(n, h)
          PROVE  HandlerFacts(n, h)'
      BY <1>1, <1>3, <2>1 DEF HandlerFacts
    <2>2. QED  BY <1>3, <2>1 DEF HandlersSound, SoundInv, AgentSound, HandlerFacts
  <1>8. BeliefSound' /\ PipelineSound' /\ SeenSound'
    BY <1>3 DEF BeliefSound, PipelineSound, SeenSound, SoundInv, AgentSound
  <1>9. QED
    BY <1>4, <1>5, <1>6, <1>7, <1>8 DEF SoundInv, TableSound, AgentSound

\* The handlers in flight stay sound when one of them advances.
LEMMA HubSound ==
    ASSUME TypeOK, SoundInv, NEW n \in Nodes, HubStep(n) \/ OrphanStep(n)
    PROVE  SoundInv'
  <1>1. UNCHANGED <<releases, seen, pc, target, mem, disk, passed>>
    BY DEF HubStep, OrphanStep, agentVars
  <1>2. BeliefSound' /\ PipelineSound' /\ SeenSound'
    BY <1>1 DEF BeliefSound, PipelineSound, SeenSound, SoundInv, AgentSound
  <1>3. ASSUME NEW m \in Nodes, NEW h, HandlerFacts(m, h)
        PROVE  HandlerFacts(m, h)'
    BY <1>1, <1>3 DEF HandlerFacts
  <1>4. CASE HubStep(n)
    <2>1. req[n] \in Handler /\ HandlerFacts(n, req[n])
      BY <1>4 DEF HubStep, TypeOK, SoundInv, AgentSound, HandlersSound
    <2>2. TableSound' /\ HandlerFacts(n, Advanced(req[n]))
      BY <1>1, <1>4, <2>1, HandleSound DEF HubStep, SoundInv
    <2>3. /\ req' = [req EXCEPT ![n] = Advanced(req[n])] /\ orphan' = orphan
          /\ req \in [Nodes -> Handler \cup {NoHandler}]
      BY <1>4 DEF HubStep, TypeOK
    <2> DEFINE h == Advanced(req[n])
    <2>4. \A m \in Nodes : req'[m] = IF m = n THEN h ELSE req[m]
      BY <2>3
    <2> HIDE DEF h
    <2>5. HandlersSound'
      BY <1>1, <2>2, <2>3, <2>4 DEF HandlersSound, SoundInv, AgentSound, HandlerFacts, h
    <2>6. QED  BY <1>2, <2>2, <2>5 DEF SoundInv, AgentSound
  <1>5. CASE OrphanStep(n)
    <2>1. orphan[n] \in Handler /\ HandlerFacts(n, orphan[n])
      BY <1>5 DEF OrphanStep, TypeOK, SoundInv, AgentSound, HandlersSound
    <2>2. TableSound' /\ HandlerFacts(n, Advanced(orphan[n]))
      BY <1>1, <1>5, <2>1, HandleSound DEF OrphanStep, SoundInv
    <2>3. /\ orphan' = [orphan EXCEPT ![n] =
                          IF @.step = "write" THEN NoHandler ELSE Advanced(@)]
          /\ req' = req /\ orphan \in [Nodes -> Handler \cup {NoHandler}]
      BY <1>5 DEF OrphanStep, TypeOK
    <2> DEFINE h == Advanced(orphan[n])
    <2>4. \A m \in Nodes :
             orphan'[m] \in IF m = n THEN {h, NoHandler} ELSE {orphan[m]}
      BY <2>3
    <2> HIDE DEF h
    <2>5. HandlersSound'
      BY <1>1, <2>2, <2>3, <2>4 DEF HandlersSound, SoundInv, AgentSound, HandlerFacts, h
    <2>6. QED  BY <1>2, <2>2, <2>5 DEF SoundInv, AgentSound
  <1>6. QED  BY <1>4, <1>5

\* The requests in flight stay sound when an agent posts a sound report or
\* gives up or has answered the one it waits for.
LEMMA RequestsSound ==
    ASSUME TypeOK, HandlersSound, NEW n \in Nodes, UNCHANGED releases,
           \A m \in Nodes : passed[m] \subseteq passed'[m],
           orphan' \in {orphan, [orphan EXCEPT ![n] = req[n]]},
           \/ req' \in {req, [req EXCEPT ![n] = NoHandler]}
           \/ \E r \in 1..Len(releases), status \in Reported :
                /\ req' = [req EXCEPT ![n] = [rel |-> r, status |-> status,
                                              step |-> "row", agg |-> "pending"]]
                /\ status = "success" => r \in passed[n]
    PROVE  HandlersSound'
  <1>1. ASSUME NEW m \in Nodes, NEW h \in Handler, HandlerFacts(m, h)
        PROVE  HandlerFacts(m, h)'
    BY <1>1, HandlerQuiet
  <1>2. ASSUME NEW m \in Nodes, NEW h \in Handler, HandlerFacts(m, h)
        PROVE  /\ h.rel \in 1..Len(releases')
               /\ h.status = "success" => h.rel \in passed'[m]
               /\ h.agg = "success" =>
                    \A k \in releases'[h.rel].targets : h.rel \in passed'[k]
    BY <1>1, <1>2 DEF HandlerFacts
  <1>3. /\ req \in [Nodes -> Handler \cup {NoHandler}]
        /\ orphan \in [Nodes -> Handler \cup {NoHandler}]
        /\ releases' = releases
    BY DEF TypeOK
  <1>4. \A m \in Nodes : orphan'[m] # NoHandler =>
           orphan'[m] \in Handler /\ HandlerFacts(m, orphan'[m])
    BY <1>3 DEF HandlersSound
  <1>5. \A m \in Nodes : req'[m] # NoHandler =>
           req'[m] \in Handler /\ HandlerFacts(m, req'[m])
    <2>1. CASE req' \in {req, [req EXCEPT ![n] = NoHandler]}
      BY <1>3, <2>1 DEF HandlersSound
    <2>2. ASSUME NEW r \in 1..Len(releases), NEW status \in Reported,
                 req' = [req EXCEPT ![n] = [rel |-> r, status |-> status,
                                            step |-> "row", agg |-> "pending"]],
                 status = "success" => r \in passed[n]
          PROVE  \A m \in Nodes : req'[m] # NoHandler =>
                    req'[m] \in Handler /\ HandlerFacts(m, req'[m])
      <3> DEFINE h == [rel |-> r, status |-> status, step |-> "row", agg |-> "pending"]
      <3>1. h \in Handler
        BY TargetsAreNodes DEF Handler, HandlerStep, Aggregate
      <3>2. HandlerFacts(n, h)
        BY <2>2 DEF HandlerFacts
      <3>3. \A m \in Nodes : req'[m] = IF m = n THEN h ELSE req[m]
        BY <1>3, <2>2
      <3> HIDE DEF h
      <3>4. QED  BY <1>3, <3>1, <3>2, <3>3 DEF HandlersSound
    <2>3. QED  BY <2>1, <2>2
  <1>6. QED  BY <1>2, <1>4, <1>5 DEF HandlersSound, HandlerFacts

\* What the agents and their heartbeats say is in force stays sound when it
\* is copied, or set to a release that passed.
LEMMA BeliefsSound ==
    ASSUME TypeOK, BeliefSound, SeenSound, 
           \A m \in Nodes : 
              /\ passed[m] \subseteq passed'[m]
              /\ mem'[m].current \in {mem[m].current, disk[m].current} \cup passed[m]
              /\ disk'[m].current \in {disk[m].current, mem[m].current}
              /\ seen'[m] \in {seen[m], mem[m].current}
    PROVE  BeliefSound' /\ SeenSound'
  BY DEF BeliefSound, SeenSound

\* The pipeline stays sound when a passed release is activated and every other
\* move leaves the activation steps.
LEMMA ActivationSound ==
    ASSUME TypeOK, PipelineSound, NEW n \in Nodes,
           \A m \in Nodes : passed[m] \subseteq passed'[m],
           NEW l, pc' = [pc EXCEPT ![n] = l],
           \/ l \notin {"activate", "content"}
           \/ pc[n] = "activate" /\ UNCHANGED target
           \/ target[n] \in passed'[n] /\ UNCHANGED target,
           \A m \in Nodes : m # n => target'[m] = target[m]
    PROVE  PipelineSound'
  BY DEF PipelineSound, TypeOK

\* The steps of an agent keep every station of a success sound.
LEMMA AgentStepSound ==
    ASSUME TypeInv, SoundInv, NEW n \in Nodes, AgentStep(n)
    PROVE  SoundInv'
  <1> USE DEF hubVars, netVars, TypeInv, SoundInv, AgentSound
  <1>1. /\ UNCHANGED <<releases, ack, stored>>
        /\ \A m \in Nodes : passed[m] \subseteq passed'[m]
    BY DEF AgentStep, Start, Heartbeat, PollDownload, PollConfirm, PollIdle, Downloading,
       Fetch, Applying, ApplyCommand, Failing, HealthCheck, ActivateVersion,
       ActivateContent, Acknowledged, TypeOK
  <1>2. TableSound'
    BY <1>1, TableQuiet
  <1>3. pc[n] \in Working => target[n] \in 1..Len(releases)
    BY TargetingType DEF Aimed
  <1>4. HandlersSound'
    <2> USE DEF Reported
    <2>1. CASE Start(n) \/ Heartbeat(n) \/ PollIdle(n) \/ ApplyCommand(n)
               \/ HealthCheck(n) \/ ActivateVersion(n)
      <3>1. req' = req /\ orphan' = orphan
        BY <2>1 DEF Start, Heartbeat, PollIdle, ApplyCommand, HealthCheck, ActivateVersion
      <3>2. QED  BY <1>1, <3>1, RequestsSound
    <2>2. CASE Downloading(n) \/ Applying(n) \/ Failing(n) \/ Acknowledged(n)
      <3>1. req' = [req EXCEPT ![n] = NoHandler] /\ orphan' = orphan
        BY <2>2 DEF Downloading, Applying, Failing, Acknowledged, Answered
      <3>2. QED  BY <1>1, <3>1, RequestsSound
    <2>3. ASSUME NEW r \in 1..Len(releases), NEW status \in Reported, NEW l,
                 Report(n, r, status, l), status = "success" => r \in passed[n]
          PROVE  HandlersSound'
      BY <1>1, <2>3, RequestsSound DEF Report
    <2>4. CASE PollDownload(n)
      <3>1. PICK r \in LatestRelease(n) : Report(n, r, "downloading", "downloading")
        BY <2>4 DEF PollDownload
      <3>2. r \in 1..Len(releases)
        BY LatestType, TargetingType
      <3>3. QED  BY <2>3, <3>1, <3>2
    <2>5. CASE PollConfirm(n)
      <3>1. PICK r \in LatestRelease(n) : Report(n, r, "success", "confirming")
                                          /\ mem[n].current = r
        BY <2>5 DEF PollConfirm
      <3>2. r \in 1..Len(releases) /\ r # NoRelease
        BY LatestType, TargetingType DEF NoRelease
      <3>3. QED  BY <2>3, <3>1, <3>2 DEF BeliefSound
    <2>6. CASE Fetch(n)
      BY <1>3, <2>3, <2>6 DEF Fetch, Working
    <2>7. CASE ActivateContent(n)
      BY <1>3, <2>3, <2>7 DEF ActivateContent, Working, PipelineSound
    <2>8. QED
      BY AgentStep(n), <2>1, <2>2, <2>4, <2>5, <2>6, <2>7 DEF AgentStep
  <1>5. BeliefSound' /\ SeenSound'
    <2>0. /\ mem \in [Nodes -> [current: IdsOrNone, acked: IdsOrNone]]
          /\ disk \in [Nodes -> [current: IdsOrNone, acked: IdsOrNone]]
          /\ seen \in [Nodes -> IdsOrNone]
      BY DEF TypeOK, LocalState
    <2>1. CASE Start(n) \/ Heartbeat(n)
      <3>1. \A m \in Nodes :
              /\ mem'[m].current \in {mem[m].current, disk[m].current}
              /\ disk'[m].current \in {disk[m].current, mem[m].current}
              /\ seen'[m] \in {seen[m], mem[m].current}
        BY <2>0, <2>1 DEF Start, Heartbeat
      <3>2. QED  BY <1>1, <3>1, BeliefsSound
    <2>2. CASE UNCHANGED <<mem, disk, seen>>
      BY <1>1, <2>2, BeliefsSound
    <2>3. CASE ActivateContent(n)
      <3>1. target[n] \in passed[n]
        BY <2>3 DEF ActivateContent, PipelineSound
      <3>2. \A m \in Nodes : mem'[m].current \in {mem[m].current} \cup passed[m]
        BY <2>0, <2>3, <3>1 DEF ActivateContent
      <3>3. disk' = disk /\ seen' = seen
        BY <2>3 DEF ActivateContent
      <3>4. QED  BY <1>1, <3>2, <3>3, BeliefsSound
    <2>4. CASE Acknowledged(n)
      <3>1. \A m \in Nodes : mem'[m].current = mem[m].current
        BY <2>0, <2>4 DEF Acknowledged
      <3>2. \A m \in Nodes : disk'[m].current \in {disk[m].current, mem[m].current}
        BY <2>0, <2>4, <3>1 DEF Acknowledged
      <3>3. seen' = seen
        BY <2>4 DEF Acknowledged
      <3>4. QED  BY <1>1, <3>1, <3>2, <3>3, BeliefsSound
    <2>5. QED
      BY AgentStep(n), <2>1, <2>2, <2>3, <2>4 DEF AgentStep, PollDownload, PollConfirm,
         PollIdle, Downloading, Fetch, Applying, ApplyCommand, Failing, HealthCheck,
         ActivateVersion
  <1>6. PipelineSound'
    <2> USE DEF Goto
    <2>1. CASE Start(n)            BY <1>1, <2>1, ActivationSound DEF Start, TypeOK
    <2>2. CASE Heartbeat(n)        BY <1>1, <2>2, ActivationSound DEF Heartbeat
    <2>3. CASE PollDownload(n)
      BY <1>1, <2>3, ActivationSound DEF PollDownload, Report, TypeOK
    <2>4. CASE PollConfirm(n)
      BY <1>1, <2>4, ActivationSound DEF PollConfirm, Report, TypeOK
    <2>5. CASE PollIdle(n)         BY <1>1, <2>5, ActivationSound DEF PollIdle
    <2>6. CASE Downloading(n)      BY <1>1, <2>6, ActivationSound DEF Downloading
    <2>7. CASE Fetch(n)            BY <1>1, <2>7, ActivationSound DEF Fetch, Report
    <2>8. CASE Applying(n)         BY <1>1, <2>8, ActivationSound DEF Applying
    <2>9. CASE ApplyCommand(n)     BY <1>1, <2>9, ActivationSound DEF ApplyCommand
    <2>10. CASE Failing(n)         BY <1>1, <2>10, ActivationSound DEF Failing
    <2>11. CASE HealthCheck(n)
      BY <1>1, <2>11, ActivationSound DEF HealthCheck, TypeOK
    <2>12. CASE ActivateVersion(n) BY <1>1, <2>12, ActivationSound DEF ActivateVersion
    <2>13. CASE ActivateContent(n)
      BY <1>1, <2>13, ActivationSound DEF ActivateContent, Report
    <2>14. CASE Acknowledged(n)    BY <1>1, <2>14, ActivationSound DEF Acknowledged
    <2>15. QED
      BY AgentStep(n), <2>1, <2>2, <2>3, <2>4, <2>5, <2>6, <2>7, <2>8, <2>9, <2>10,
         <2>11, <2>12, <2>13, <2>14 DEF AgentStep
  <1>7. QED  BY <1>2, <1>4, <1>5, <1>6

\* So do faults.
LEMMA EnvironmentSound ==
    ASSUME TypeInv, SoundInv, NEW n \in Nodes, Environment(n)
    PROVE  SoundInv'
  <1> USE DEF hubVars, TypeInv, SoundInv, AgentSound
  <1>1. UNCHANGED <<releases, ack, stored, passed>>
    BY DEF Environment, ApplyFails, RequestFails, ActivateFails, PersistFails,
       TornPersist, Crash
  <1>2. TableSound'
    BY <1>1, TableQuiet
  <1>3. HandlersSound'
    <2>1. CASE ActivateFails(n) \/ TornPersist(n)
      BY <1>1, <2>1, RequestsSound DEF ActivateFails, TornPersist
    <2>2. CASE RequestFails(n) \/ Crash(n) \/ PersistFails(n)
      <3>1. /\ req' = [req EXCEPT ![n] = NoHandler]
            /\ orphan' \in {orphan, [orphan EXCEPT ![n] = req[n]]}
        BY <2>2 DEF RequestFails, Crash, PersistFails, Abandon
      <3>2. QED  BY <1>1, <3>1, RequestsSound
    <2>3. CASE ApplyFails(n)
      <3>1. target[n] \in 1..Len(releases)
        BY <2>3, TargetingType DEF ApplyFails, Aimed, Working
      <3>2. /\ req' = [req EXCEPT ![n] = [rel |-> target[n], status |-> "failed",
                                          step |-> "row", agg |-> "pending"]]
            /\ orphan' = orphan
        BY <2>3 DEF ApplyFails
      <3>3. QED  BY <1>1, <3>1, <3>2, RequestsSound DEF Reported
    <2>4. QED  BY Environment(n), <2>1, <2>2, <2>3 DEF Environment
  <1>4. BeliefSound' /\ SeenSound'
    <2>1. CASE UNCHANGED <<mem, disk, seen>>
      BY <1>1, <2>1, BeliefsSound
    <2>2. CASE PersistFails(n)
      BY <1>1, <2>2, BeliefsSound DEF PersistFails, TypeOK, LocalState
    <2>3. CASE TornPersist(n)
      BY <1>1, <2>3, BeliefsSound DEF TornPersist, TypeOK
    <2>4. QED
      BY Environment(n), <2>1, <2>2, <2>3 DEF Environment, ApplyFails, RequestFails,
         ActivateFails, Crash
  <1>5. PipelineSound'
    <2>1. PICK l \in {"heartbeat", "poll", "failing", "down"} :
             pc' = [pc EXCEPT ![n] = l] /\ UNCHANGED target
      BY DEF Environment, ApplyFails, RequestFails, ActivateFails, PersistFails,
         TornPersist, Crash, Goto
    <2>2. QED  BY <1>1, <2>1, ActivationSound
  <1>6. QED  BY <1>2, <1>3, <1>4, <1>5

\* The invariant survives stuttering.
LEMMA SoundStutter ==
    ASSUME SoundInv, UNCHANGED vars
    PROVE  SoundInv'
  <1>1. UNCHANGED <<releases, ack, stored, seen>>
    BY DEF vars, hubVars
  <1>2. UNCHANGED <<pc, target, mem, disk, passed>>
    BY DEF vars, agentVars
  <1>3. UNCHANGED <<req, orphan>>
    BY DEF vars, netVars
  <1>4. TableSound'
    BY <1>1, <1>2 DEF SoundInv, TableSound, RowSound, RowsExist, StoredSound
  <1>5. HandlersSound'
    BY <1>1, <1>2, <1>3 DEF SoundInv, AgentSound, HandlersSound, HandlerFacts
  <1>6. BeliefSound' /\ PipelineSound' /\ SeenSound'
    BY <1>1, <1>2 DEF SoundInv, AgentSound, BeliefSound, PipelineSound, SeenSound
  <1>7. QED  BY <1>4, <1>5, <1>6 DEF SoundInv, AgentSound

\* Nothing is successful initially.
LEMMA SoundInit == Init => SoundInv
  <1> SUFFICES ASSUME Init PROVE SoundInv
    OBVIOUS
  <1>1. releases = <<>> /\ 1..Len(releases) = {}
    BY DEF Init
  <1>2. TableSound
    BY <1>1 DEF Init, TableSound, RowSound, RowsExist, StoredSound
  <1>3. HandlersSound
    BY DEF Init, HandlersSound
  <1>4. BeliefSound /\ PipelineSound /\ SeenSound
    BY DEF Init, BeliefSound, PipelineSound, SeenSound, Fresh
  <1>5. QED  BY <1>2, <1>3, <1>4 DEF SoundInv, AgentSound

\* Every row, overview, stored status and heartbeat that says a release is a
\* success on a node is right: its apply command and its health check passed
\* there.  Lost and late requests, crashes and racing acks do not break it.
THEOREM SuccessIsEarned == Spec => []SuccessMeansPassed
  <1>1. TypeInv /\ SoundInv /\ [Next]_vars => SoundInv'
    <2> SUFFICES ASSUME TypeInv, SoundInv, [Next]_vars PROVE SoundInv'
      OBVIOUS
    <2>1. CASE Next
      BY <2>1, PublishSound, HubSound, AgentStepSound, EnvironmentSound
         DEF Next, TypeInv
    <2>2. CASE UNCHANGED vars
      BY <2>2, SoundStutter
    <2>3. QED  BY <2>1, <2>2
  <1>2. TypeInv /\ SoundInv => SuccessMeansPassed
    <2> SUFFICES ASSUME TypeInv, SoundInv PROVE SuccessMeansPassed
      OBVIOUS
    <2>1. RowSound /\ RowsExist /\ StoredSound /\ SeenSound /\ TypeOK
      BY DEF SoundInv, TableSound, AgentSound, TypeInv
    <2>2. OverviewSound
      BY <2>1, AggregateSound DEF OverviewSound, Overview
    <2>3. QED  BY <2>1, <2>2 DEF SuccessMeansPassed
  <1>3. Spec => []TypeInv
    BY TypeInit, TypeNext, TypeStutter, PTL DEF Spec
  <1>4. QED  BY <1>1, <1>2, <1>3, SoundInit, PTL DEF Spec
=============================================================================
