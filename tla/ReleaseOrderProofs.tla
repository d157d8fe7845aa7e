------------------------ MODULE ReleaseOrderProofs ------------------------
(***************************************************************************)
(* Proofs about ReleaseRollout, continued: in which order a node's         *)
(* releases reach its proxy, its files and its state, and what the hub     *)
(* remembers of an acknowledged release.                                   *)
(***************************************************************************)
EXTENDS ReleaseRolloutProofs

Trying     == {"downloading", "fetch", "applying", "command"}
Reloaded   == {"health", "activate", "content"}
Succeeding == {"acking", "confirming"}

\* A release reaches the proxy, the version file, the content files and the
\* state in that order, so each holds a release no newer than the one before.
Ladder(n) ==
    /\ running[n] \in Targeting(n) \cup {NoRelease}
    /\ files[n].version <= running[n]
    /\ files[n].content <= files[n].version
    /\ mem[n].current <= files[n].content
    /\ disk[n].current <= files[n].content
    /\ pc[n] # "down" => disk[n].current <= mem[n].current

\* The release being worked on is at the top of the ladder.
Climbing(n) ==
    /\ pc[n] \in Trying => running[n] <= target[n]
    /\ pc[n] \in Reloaded => running[n] = target[n]
    /\ pc[n] = "content" => files[n].version = target[n]

\* What is acknowledged is in force, and a release is only reported as under
\* way or failed while nothing that new has been acknowledged.
Acked(n) ==
    /\ mem[n].acked <= mem[n].current
    /\ disk[n].acked <= disk[n].current
    /\ pc[n] # "down" => disk[n].acked <= mem[n].acked
    /\ pc[n] \in Working \ Succeeding => mem[n].acked < target[n]
    /\ pc[n] \in Succeeding => mem[n].current = target[n]

Ordered(n) == Ladder(n) /\ Climbing(n) /\ Acked(n)
OrderInv   == \A n \in Nodes : Ordered(n)

\* A request reports on the release its agent works on.
Asking(n) ==
    req[n] # NoHandler =>
        /\ pc[n] \in Waiting
        /\ req[n].rel = target[n]
        /\ req[n].status = "success" <=> pc[n] \in Succeeding

\* As long as no handler outlived its client, the row of a release says what
\* the agent's last answered report said.
Recorded(n) ==
    /\ orphan[n] = NoHandler
    /\ req[n] # NoHandler /\ req[n].step # "row" => ack[req[n].rel][n] = req[n].status
    /\ mem[n].acked # NoRelease => ack[mem[n].acked][n] = "success"
    /\ disk[n].acked # NoRelease => ack[disk[n].acked][n] = "success"

RecordInv == /\ \A n \in Nodes : Asking(n)
             /\ orphans = 0 => \A n \in Nodes : Recorded(n)
-----------------------------------------------------------------------------
(***************************************************************************)
(* The order in which releases come into force.                            *)
(***************************************************************************)

\* What a step may do to the proxy and to state.json of a node.
Upward(n) == /\ running[n] <= running'[n]
             /\ disk[n].current <= disk'[n].current

\* The numbers the invariant compares are numbers.
LEMMA Numbers ==
    ASSUME TypeOK, NEW n \in Nodes
    PROVE  /\ running[n] \in Nat /\ target[n] \in Nat
           /\ files[n].version \in Nat /\ files[n].content \in Nat
           /\ mem[n].current \in Nat /\ mem[n].acked \in Nat
           /\ disk[n].current \in Nat /\ disk[n].acked \in Nat
  BY RolloutAssumption DEF TypeOK, IdsOrNone, LocalState

\* A node whose own state a step leaves alone keeps the invariant.
LEMMA OrderFrame ==
    ASSUME TypeOK, NEW n \in Nodes, Ordered(n), Targeting(n) \subseteq Targeting(n)',
           pc'[n] = pc[n], target'[n] = target[n], mem'[n] = mem[n],
           disk'[n] = disk[n], files'[n] = files[n], running'[n] = running[n]
    PROVE  Ordered(n)' /\ Upward(n)
  BY Numbers DEF Ordered, Ladder, Climbing, Acked, Upward

\* The newest release for a node is no older than any it ever ran.
LEMMA LatestTops ==
    ASSUME TypeOK, NEW n \in Nodes, Ladder(n), NEW r \in LatestRelease(n)
    PROVE  /\ r \in Nat /\ running[n] <= r /\ mem[n].current <= r
           /\ r # mem[n].current => mem[n].current < r
  <1>1. r \in Nat /\ r > 0
    BY LatestType, RolloutAssumption DEF Ids
  <1>2. \A q \in Targeting(n) : q <= r
    BY DEF LatestRelease
  <1>3. running[n] \in Targeting(n) \/ running[n] = 0
    BY DEF Ladder, NoRelease
  <1>4. running[n] <= r
    BY <1>1, <1>2, <1>3
  <1>5. QED  BY <1>1, <1>4, Numbers DEF Ladder

\* A step of the agent of a node keeps the node's releases in order.
LEMMA AgentOrder ==
    ASSUME TypeInv, NEW n \in Nodes, Ordered(n), AgentStep(n)
    PROVE  Ordered(n)' /\ Upward(n)
  <1> USE DEF hubVars, Goto, Report, Answered
  <1>0. TypeOK
    BY DEF TypeInv
  <1>1. /\ running[n] \in Nat /\ target[n] \in Nat
        /\ files[n].version \in Nat /\ files[n].content \in Nat
        /\ mem[n].current \in Nat /\ mem[n].acked \in Nat
        /\ disk[n].current \in Nat /\ disk[n].acked \in Nat
    BY <1>0, Numbers
  <1>2. UNCHANGED releases
    BY DEF AgentStep, Start, Heartbeat, PollDownload, PollConfirm, PollIdle,
       Downloading, Fetch, Applying, ApplyCommand, Failing, HealthCheck,
       ActivateVersion, ActivateContent, Acknowledged
  <1>3. Targeting(n)' = Targeting(n)
    BY <1>2 DEF Targeting
  <1>4. pc[n] \in Working => target[n] \in Targeting(n)
    BY DEF TypeInv, Aimed
  <1> USE DEF Ordered, Ladder, Climbing, Acked, Upward, Working, Waiting, Trying,
          Reloaded, Succeeding, TypeOK, LocalState
  <1>5. CASE Start(n)
    BY <1>0, <1>1, <1>3, <1>5 DEF Start
  <1>6. CASE Heartbeat(n)
    BY <1>0, <1>1, <1>3, <1>6 DEF Heartbeat
  <1>7. CASE PollDownload(n)
    <2>1. PICK r \in LatestRelease(n) :
            /\ mem[n].current # r
            /\ target' = [target EXCEPT ![n] = r]
            /\ Report(n, r, "downloading", "downloading")
      BY <1>7 DEF PollDownload
    <2>2. r \in Nat /\ running[n] <= r /\ mem[n].current < r
      BY <1>0, <2>1, LatestTops
    <2>3. QED  BY <1>0, <1>1, <1>3, <1>7, <2>1, <2>2 DEF PollDownload
  <1>8. CASE PollConfirm(n)
    <2>1. PICK r \in LatestRelease(n) :
            /\ mem[n].current = r
            /\ target' = [target EXCEPT ![n] = r]
            /\ Report(n, r, "success", "confirming")
      BY <1>8 DEF PollConfirm
    <2>2. QED  BY <1>0, <1>1, <1>3, <1>8, <2>1 DEF PollConfirm
  <1>9. CASE PollIdle(n)
    BY <1>0, <1>1, <1>3, <1>9 DEF PollIdle
  <1>10. CASE Downloading(n)
    BY <1>0, <1>1, <1>3, <1>10 DEF Downloading
  <1>11. CASE Fetch(n)
    BY <1>0, <1>1, <1>3, <1>11 DEF Fetch
  <1>12. CASE Applying(n)
    BY <1>0, <1>1, <1>3, <1>12 DEF Applying
  <1>13. CASE ApplyCommand(n)
    BY <1>0, <1>1, <1>3, <1>4, <1>13 DEF ApplyCommand
  <1>14. CASE Failing(n)
    BY <1>0, <1>1, <1>3, <1>14 DEF Failing
  <1>15. CASE HealthCheck(n)
    BY <1>0, <1>1, <1>3, <1>15 DEF HealthCheck
  <1>16. CASE ActivateVersion(n)
    BY <1>0, <1>1, <1>3, <1>16 DEF ActivateVersion
  <1>17. CASE ActivateContent(n)
    BY <1>0, <1>1, <1>3, <1>17 DEF ActivateContent
  <1>18. CASE Acknowledged(n)
    BY <1>0, <1>1, <1>3, <1>18 DEF Acknowledged
  <1>19. QED
    BY AgentStep(n), <1>5, <1>6, <1>7, <1>8, <1>9, <1>10, <1>11, <1>12, <1>13,
       <1>14, <1>15, <1>16, <1>17, <1>18 DEF AgentStep

\* So does a fault.
LEMMA EnvironmentOrder ==
    ASSUME TypeInv, NEW n \in Nodes, Ordered(n), Environment(n)
    PROVE  Ordered(n)' /\ Upward(n)
  <1> USE DEF hubVars, Goto
  <1>0. TypeOK
    BY DEF TypeInv
  <1>1. /\ running[n] \in Nat /\ target[n] \in Nat
        /\ files[n].version \in Nat /\ files[n].content \in Nat
        /\ mem[n].current \in Nat /\ mem[n].acked \in Nat
        /\ disk[n].current \in Nat /\ disk[n].acked \in Nat
    BY <1>0, Numbers
  <1>2. UNCHANGED releases
    BY DEF Environment, ApplyFails, RequestFails, ActivateFails, PersistFails,
       TornPersist, Crash
  <1>3. Targeting(n)' = Targeting(n)
    BY <1>2 DEF Targeting
  <1>4. pc[n] \in Working => target[n] \in Targeting(n)
    BY DEF TypeInv, Aimed
  <1> USE DEF Ordered, Ladder, Climbing, Acked, Upward, Working, Waiting, Trying,
          Reloaded, Succeeding, TypeOK, LocalState
  <1>5. CASE ApplyFails(n)
    BY <1>0, <1>1, <1>3, <1>4, <1>5 DEF ApplyFails
  <1>6. CASE RequestFails(n)
    BY <1>0, <1>1, <1>3, <1>6 DEF RequestFails
  <1>7. CASE ActivateFails(n)
    BY <1>0, <1>1, <1>3, <1>7 DEF ActivateFails
  <1>8. CASE PersistFails(n)
    BY <1>0, <1>1, <1>3, <1>8 DEF PersistFails
  <1>9. CASE TornPersist(n)
    BY <1>0, <1>1, <1>3, <1>9 DEF TornPersist
  <1>10. CASE Crash(n)
    BY <1>0, <1>1, <1>3, <1>10 DEF Crash
  <1>11. QED
    BY Environment(n), <1>5, <1>6, <1>7, <1>8, <1>9, <1>10 DEF Environment

\* A step of an agent or a fault at its node leaves the other nodes alone.
LEMMA OthersAlone ==
    ASSUME TypeOK, NEW n \in Nodes, NEW m \in Nodes, m # n,
           AgentStep(n) \/ Environment(n)
    PROVE  /\ pc'[m] = pc[m] /\ target'[m] = target[m] /\ mem'[m] = mem[m]
           /\ disk'[m] = disk[m] /\ files'[m] = files[m] /\ running'[m] = running[m]
           /\ Targeting(m)' = Targeting(m)
  <1> USE DEF hubVars, Goto, TypeOK
  <1>1. CASE AgentStep(n)
    BY <1>1 DEF AgentStep, Start, Heartbeat, PollDownload, PollConfirm, PollIdle,
       Downloading, Fetch, Applying, ApplyCommand, Failing, HealthCheck, Report,
       ActivateVersion, ActivateContent, Acknowledged, Answered, Targeting
  <1>2. CASE Environment(n)
    BY <1>2 DEF Environment, ApplyFails, RequestFails, ActivateFails, PersistFails,
       TornPersist, Crash, Targeting
  <1>3. QED  BY <1>1, <1>2

\* Every step keeps the releases of every node in order.
LEMMA OrderNext ==
    ASSUME TypeInv, OrderInv, [Next]_vars
    PROVE  OrderInv' /\ \A n \in Nodes : Upward(n)
  <1>0. TypeOK
    BY DEF TypeInv
  <1>1. SUFFICES ASSUME NEW m \in Nodes
                 PROVE  Ordered(m)' /\ Upward(m)
    BY DEF OrderInv
  <1>2. Ordered(m)
    BY DEF OrderInv
  <1>3. ASSUME Targeting(m) \subseteq Targeting(m)', UNCHANGED agentVars
        PROVE  Ordered(m)' /\ Upward(m)
    BY <1>0, <1>2, <1>3, OrderFrame DEF agentVars
  <1>4. ASSUME NEW s \in Sites, NEW T \in SUBSET Nodes, Publish(s, T)
        PROVE  Ordered(m)' /\ Upward(m)
    <2>1. Targeting(m) \subseteq Targeting(m)'
      BY <1>0, <1>4 DEF Publish, Targeting, TypeOK
    <2>2. QED  BY <1>3, <1>4, <2>1 DEF Publish
  <1>5. ASSUME NEW n \in Nodes, HubStep(n) \/ OrphanStep(n)
        PROVE  Ordered(m)' /\ Upward(m)
    BY <1>3, <1>5 DEF HubStep, OrphanStep, Targeting
  <1>6. ASSUME NEW n \in Nodes, AgentStep(n) \/ Environment(n)
        PROVE  Ordered(m)' /\ Upward(m)
    <2>1. CASE m = n
      BY <1>2, <1>6, <2>1, AgentOrder, EnvironmentOrder
    <2>2. CASE m # n
      BY <1>0, <1>2, <1>6, <2>2, OthersAlone, OrderFrame
    <2>3. QED  BY <2>1, <2>2
  <1>7. CASE UNCHANGED vars
    BY <1>3, <1>7 DEF vars, hubVars, Targeting
  <1>8. QED  BY <1>4, <1>5, <1>6, <1>7 DEF Next

\* Nothing is in force initially.
LEMMA OrderInit == Init => OrderInv
  <1> SUFFICES ASSUME Init, NEW n \in Nodes PROVE Ordered(n)
    BY DEF OrderInv
  <1>1. /\ running[n] = 0 /\ files[n].version = 0 /\ files[n].content = 0
        /\ mem[n].current = 0 /\ disk[n].current = 0
        /\ mem[n].acked = 0 /\ disk[n].acked = 0
    BY DEF Init, Fresh, NoRelease
  <1>2. pc[n] = "down"
    BY DEF Init
  <1>3. QED
    BY <1>1, <1>2 DEF Ordered, Ladder, Climbing, Acked, NoRelease, Working, Waiting,
       Trying, Reloaded, Succeeding

LEMMA OrderAlways == Spec => [](TypeInv /\ OrderInv)
  <1>1. TypeInv /\ OrderInv /\ [Next]_vars => (TypeInv /\ OrderInv)'
    BY TypeNext, TypeStutter, OrderNext
  <1>2. QED  BY <1>1, TypeInit, OrderInit, PTL DEF Spec

\* Whatever crashes, is lost or cannot be written: neither the agent's memory
\* nor state.json ever names a release newer than the last one whose content
\* files were all written.
THEOREM StateIsBacked == Spec => []StateBackedByFiles
  <1>1. TypeInv /\ OrderInv => StateBackedByFiles
    BY DEF OrderInv, Ordered, Ladder, StateBackedByFiles
  <1>2. QED  BY <1>1, OrderAlways, PTL

\* No step takes a proxy or state.json back to an older release.
THEOREM NeverDowngrades == Spec => NoDowngrade
  <1>1. TypeInv /\ OrderInv /\ [Next]_vars =>
          [\A n \in Nodes : /\ running[n] <= running'[n]
                            /\ disk[n].current <= disk'[n].current]_vars
    BY OrderNext DEF Upward
  <1>2. QED  BY <1>1, OrderAlways, PTL DEF Spec, NoDowngrade

-----------------------------------------------------------------------------
(***************************************************************************)
(* What the hub remembers of an acknowledged release.                      *)
(***************************************************************************)

\* A handler's step changes neither what it reports nor on which release.
LEMMA AdvancedKeeps ==
    ASSUME NEW h \in Handler, h.step \in {"row", "read", "write"}
    PROVE  /\ Advanced(h) # NoHandler
           /\ Advanced(h).rel = h.rel /\ Advanced(h).status = h.status
           /\ Advanced(h).step # "row"
  <1>1. Advanced(h) \in Handler
    BY AdvancedType
  <1>2. Advanced(h) # NoHandler
    BY <1>1 DEF Handler, HandlerStep, NoHandler
  <1>3. CASE h.step = "row"
    BY <1>2, <1>3 DEF Advanced, Handler
  <1>4. CASE h.step = "read"
    BY <1>2, <1>4 DEF Advanced, Handler
  <1>5. CASE h.step = "write"
    BY <1>2, <1>5 DEF Advanced, Handler
  <1>6. QED  BY <1>3, <1>4, <1>5

\* A step of an agent or a fault at its node leaves the other nodes' requests
\* alone, and the tables of the hub.
LEMMA OtherRequestsAlone ==
    ASSUME TypeOK, NEW n \in Nodes, AgentStep(n) \/ Environment(n)
    PROVE  /\ ack' = ack
           /\ \A m \in Nodes \ {n} : req'[m] = req[m] /\ orphan'[m] = orphan[m]
           /\ orphans' = orphans \/ orphans' = orphans + 1
           /\ orphans' = orphans => orphan' = orphan
  <1> USE DEF hubVars, netVars, TypeOK
  <1>1. CASE AgentStep(n)
    BY <1>1 DEF AgentStep, Start, Heartbeat, PollDownload, PollConfirm, PollIdle,
       Downloading, Fetch, Applying, ApplyCommand, Failing, HealthCheck, Report,
       ActivateVersion, ActivateContent, Acknowledged, Answered
  <1>2. CASE ApplyFails(n) \/ ActivateFails(n) \/ PersistFails(n) \/ TornPersist(n)
    BY <1>2 DEF ApplyFails, ActivateFails, PersistFails, TornPersist
  <1>3. CASE RequestFails(n) \/ Crash(n)
    BY <1>3, RolloutAssumption DEF RequestFails, Crash, Abandon
  <1>4. QED  BY <1>1, <1>2, <1>3 DEF Environment

\* The agent of a node has no request under way, or the one it waits for.
LEMMA AskingStep ==
    ASSUME TypeOK, NEW n \in Nodes, Asking(n), AgentStep(n) \/ Environment(n)
    PROVE  Asking(n)'
  <1> USE DEF netVars, Goto, Report, Answered, Asking, Waiting, Succeeding, TypeOK
  <1>1. CASE Start(n)            BY <1>1 DEF Start
  <1>2. CASE Heartbeat(n)        BY <1>2 DEF Heartbeat
  <1>3. CASE PollDownload(n)     BY <1>3 DEF PollDownload
  <1>4. CASE PollConfirm(n)      BY <1>4 DEF PollConfirm
  <1>5. CASE PollIdle(n)         BY <1>5 DEF PollIdle
  <1>6. CASE Downloading(n)      BY <1>6 DEF Downloading
  <1>7. CASE Fetch(n)            BY <1>7 DEF Fetch
  <1>8. CASE Applying(n)         BY <1>8 DEF Applying
  <1>9. CASE ApplyCommand(n)     BY <1>9 DEF ApplyCommand
  <1>10. CASE Failing(n)         BY <1>10 DEF Failing
  <1>11. CASE HealthCheck(n)     BY <1>11 DEF HealthCheck
  <1>12. CASE ActivateVersion(n) BY <1>12 DEF ActivateVersion
  <1>13. CASE ActivateContent(n) BY <1>13 DEF ActivateContent
  <1>14. CASE Acknowledged(n)    BY <1>14 DEF Acknowledged
  <1>15. CASE ApplyFails(n)      BY <1>15 DEF ApplyFails
  <1>16. CASE RequestFails(n)    BY <1>16 DEF RequestFails
  <1>17. CASE ActivateFails(n)   BY <1>17 DEF ActivateFails
  <1>18. CASE PersistFails(n)    BY <1>18 DEF PersistFails
  <1>19. CASE TornPersist(n)     BY <1>19 DEF TornPersist
  <1>20. CASE Crash(n)           BY <1>20 DEF Crash
  <1>21. QED
    BY <1>1, <1>2, <1>3, <1>4, <1>5, <1>6, <1>7, <1>8, <1>9, <1>10, <1>11, <1>12,
       <1>13, <1>14, <1>15, <1>16, <1>17, <1>18, <1>19, <1>20
       DEF AgentStep, Environment

\* A node whose rows, requests and state a step leaves alone, gives up or
\* begins anew stays recorded.
LEMMA RecordKept ==
    ASSUME NEW n \in Nodes, Recorded(n), UNCHANGED ack, orphan'[n] = NoHandler,
           req'[n] = req[n] \/ req'[n] = NoHandler \/ req'[n].step = "row",
           mem'[n].acked \in {mem[n].acked, disk[n].acked},
           disk'[n].acked \in {mem[n].acked, disk[n].acked}
    PROVE  Recorded(n)'
  BY DEF Recorded

\* A step at a node keeps what it acknowledged recorded.
LEMMA RecordStep ==
    ASSUME TypeOK, NEW n \in Nodes, Asking(n), Recorded(n), UNCHANGED ack,
           orphan'[n] = NoHandler, AgentStep(n) \/ Environment(n)
    PROVE  Recorded(n)'
  <1> USE DEF netVars, Report, Answered, TypeOK, LocalState
  <1>1. CASE Start(n)            BY <1>1, RecordKept DEF Start
  <1>2. CASE Heartbeat(n)        BY <1>2, RecordKept DEF Heartbeat
  <1>3. CASE PollDownload(n)     BY <1>3, RecordKept DEF PollDownload
  <1>4. CASE PollConfirm(n)      BY <1>4, RecordKept DEF PollConfirm
  <1>5. CASE PollIdle(n)         BY <1>5, RecordKept DEF PollIdle
  <1>6. CASE Downloading(n)      BY <1>6, RecordKept DEF Downloading
  <1>7. CASE Fetch(n)            BY <1>7, RecordKept DEF Fetch
  <1>8. CASE Applying(n)         BY <1>8, RecordKept DEF Applying
  <1>9. CASE ApplyCommand(n)     BY <1>9, RecordKept DEF ApplyCommand
  <1>10. CASE Failing(n)         BY <1>10, RecordKept DEF Failing
  <1>11. CASE HealthCheck(n)     BY <1>11, RecordKept DEF HealthCheck
  <1>12. CASE ActivateVersion(n) BY <1>12, RecordKept DEF ActivateVersion
  <1>13. CASE ActivateContent(n) BY <1>13, RecordKept DEF ActivateContent
  <1>14. CASE Acknowledged(n) \/ PersistFails(n)
    <2>1. /\ pc[n] \in Succeeding /\ req[n] # NoHandler /\ req[n].step = "replied"
          /\ req'[n] = NoHandler
          /\ mem'[n].acked = target[n]
          /\ disk'[n].acked \in {disk[n].acked, target[n]}
      BY <1>14 DEF Acknowledged, PersistFails, Succeeding
    <2>2. ack[target[n]][n] = "success"
      BY <2>1 DEF Asking, Recorded
    <2>3. QED  BY <2>1, <2>2 DEF Recorded
  <1>15. CASE ApplyFails(n)      BY <1>15, RecordKept DEF ApplyFails
  <1>16. CASE RequestFails(n)    BY <1>16, RecordKept DEF RequestFails
  <1>17. CASE ActivateFails(n)   BY <1>17, RecordKept DEF ActivateFails
  <1>18. CASE TornPersist(n)     BY <1>18, RecordKept DEF TornPersist
  <1>19. CASE Crash(n)           BY <1>19, RecordKept DEF Crash
  <1>20. QED
    BY <1>1, <1>2, <1>3, <1>4, <1>5, <1>6, <1>7, <1>8, <1>9, <1>10, <1>11, <1>12,
       <1>13, <1>14, <1>15, <1>16, <1>17, <1>18, <1>19 DEF AgentStep, Environment

\* The handler an agent waits for writes no row of an acknowledged release
\* but to report its success.
LEMMA RecordHub ==
    ASSUME TypeInv, NEW n \in Nodes, Ordered(n), Asking(n), HubStep(n)
    PROVE  /\ Asking(n)'
           /\ orphans = 0 /\ Recorded(n) => Recorded(n)'
           /\ \A r \in Ids, m \in Nodes \ {n} : ack'[r][m] = ack[r][m]
  <1> USE DEF HubStep
  <1>0. TypeOK
    BY DEF TypeInv
  <1> DEFINE h == req[n]
  <1>1. h \in Handler /\ h # NoHandler
    BY <1>0 DEF TypeOK
  <1>2. h.step \in {"row", "read", "write"}
    BY <1>0, <1>1, HandleType
  <1>3. /\ Advanced(h) # NoHandler /\ Advanced(h).rel = h.rel
        /\ Advanced(h).status = h.status /\ Advanced(h).step # "row"
    BY <1>1, <1>2, AdvancedKeeps
  <1>4. req'[n] = Advanced(h)
    BY <1>0 DEF TypeOK
  <1>5. pc' = pc /\ target' = target /\ mem' = mem /\ disk' = disk /\ orphan' = orphan
    BY DEF agentVars
  <1>6. /\ h.rel \in Ids /\ h.rel = target[n] /\ pc[n] \in Waiting
        /\ h.status = "success" <=> pc[n] \in Succeeding
    BY <1>1 DEF Asking, Handler
  <1>7. Asking(n)'
    BY <1>3, <1>4, <1>5, <1>6 DEF Asking
  <1>8. \/ h.step = "row" /\ ack' = [ack EXCEPT ![h.rel][n] = h.status]
        \/ h.step # "row" /\ ack' = ack
    BY DEF Handle, HandleRow, HandleRead, HandleWrite
  <1>9. /\ \A r \in Ids, m \in Nodes \ {n} : ack'[r][m] = ack[r][m]
        /\ \A r \in Ids \ {h.rel} : ack'[r][n] = ack[r][n]
        /\ h.step = "row" => ack'[h.rel][n] = h.status
        /\ h.step # "row" => ack' = ack
    <2>1. ack \in [Ids -> [Nodes -> ApplyStatus]]
      BY <1>0 DEF TypeOK
    <2>2. CASE h.step = "row" /\ ack' = [ack EXCEPT ![h.rel][n] = h.status]
      BY <1>6, <2>1, <2>2
    <2>3. CASE h.step # "row" /\ ack' = ack
      BY <2>3
    <2>4. QED  BY <1>8, <2>2, <2>3
  <1>10. ASSUME orphans = 0, Recorded(n)  PROVE Recorded(n)'
    <2>1. ack'[req'[n].rel][n] = req'[n].status
      BY <1>3, <1>4, <1>9, <1>10 DEF Recorded
    <2>2. /\ mem[n].acked \in Nat /\ disk[n].acked \in Nat /\ target[n] \in Nat
          /\ mem[n].acked \in IdsOrNone /\ disk[n].acked \in IdsOrNone
      BY <1>0, Numbers DEF TypeOK, LocalState
    <2>3. ASSUME NEW a \in {mem[n].acked, disk[n].acked}, a # NoRelease
          PROVE  ack'[a][n] = "success"
      <3>1. a \in Ids /\ ack[a][n] = "success"
        BY <1>10, <2>2, <2>3 DEF Recorded, Ids, IdsOrNone, NoRelease
      <3>2. CASE a # h.rel
        BY <1>9, <3>1, <3>2
      <3>3. CASE a = h.rel
        <4>1. pc[n] # "down" /\ pc[n] \in Working
          BY <1>6 DEF Waiting, Working
        <4>2. disk[n].acked <= mem[n].acked
          BY <4>1 DEF Ordered, Acked
        <4>3. pc[n] \in Succeeding
          <5>1. SUFFICES ASSUME pc[n] \notin Succeeding PROVE FALSE
            OBVIOUS
          <5>2. mem[n].acked < target[n]
            BY <4>1, <5>1 DEF Ordered, Acked
          <5>3. QED  BY <1>6, <2>2, <2>3, <3>3, <4>2, <5>2
        <4>4. h.status = "success"
          BY <1>6, <4>3
        <4>5. QED  BY <1>9, <3>1, <3>3, <4>4
      <3>4. QED  BY <3>2, <3>3
    <2>4. orphan'[n] = NoHandler
      BY <1>5, <1>10 DEF Recorded
    <2>5. QED  BY <1>5, <2>1, <2>3, <2>4 DEF Recorded
  <1>11. QED  BY <1>7, <1>9, <1>10

\* Every release an agent knows of is on record before a new one is stored.
LEMMA KnownReleases ==
    ASSUME TypeInv, NEW n \in Nodes, Ordered(n), Asking(n)
    PROVE  /\ mem[n].acked \in 0..Len(releases) /\ disk[n].acked \in 0..Len(releases)
           /\ req[n] # NoHandler => req[n].rel \in 1..Len(releases)
  <1>0. TypeOK
    BY DEF TypeInv
  <1>1. running[n] \in 0..Len(releases) /\ Len(releases) \in Nat
    BY <1>0, TargetingType DEF Ordered, Ladder, NoRelease, TypeOK
  <1>2. mem[n].acked <= running[n] /\ disk[n].acked <= running[n]
    BY <1>0, Numbers DEF Ordered, Ladder, Acked
  <1>3. req[n] # NoHandler => req[n].rel \in 1..Len(releases)
    BY <1>0, TargetingType DEF Asking, TypeInv, Aimed, Working
  <1>4. QED  BY <1>0, <1>1, <1>2, <1>3, Numbers

\* Every step keeps the acknowledged releases recorded.
LEMMA RecordNext ==
    ASSUME TypeInv, OrderInv, RecordInv, [Next]_vars
    PROVE  RecordInv'
  <1>0. TypeOK /\ orphans \in Nat
    BY RolloutAssumption DEF TypeInv, TypeOK
  <1>1. \A n \in Nodes : Ordered(n) /\ Asking(n)
    BY DEF OrderInv, RecordInv
  <1>2. orphans = 0 => \A n \in Nodes : Recorded(n)
    BY DEF RecordInv
  <1>3. ASSUME NEW s \in Sites, NEW T \in SUBSET Nodes, Publish(s, T)
        PROVE  RecordInv'
    <2>1. /\ pc' = pc /\ target' = target /\ mem' = mem /\ disk' = disk
          /\ req' = req /\ orphan' = orphan /\ orphans' = orphans
      BY <1>3 DEF Publish, agentVars, netVars
    <2>2. \A r \in 1..Len(releases) : ack'[r] = ack[r]
      BY <1>0, <1>3 DEF Publish, TypeOK, Ids
    <2>3. \A n \in Nodes : Asking(n)'
      BY <1>1, <2>1 DEF Asking
    <2>4. ASSUME orphans = 0, NEW n \in Nodes  PROVE Recorded(n)'
      <3>1. Recorded(n)
        BY <1>2, <2>4
      <3>2. /\ mem[n].acked \in 0..Len(releases) /\ disk[n].acked \in 0..Len(releases)
            /\ req[n] # NoHandler => req[n].rel \in 1..Len(releases)
        BY <1>1, KnownReleases
      <3>3. Len(releases) \in Nat
        BY <1>0 DEF TypeOK
      <3>4. QED  BY <2>1, <2>2, <3>1, <3>2, <3>3 DEF Recorded, NoRelease
    <2>5. QED  BY <2>1, <2>3, <2>4 DEF RecordInv
  <1>4. ASSUME NEW n \in Nodes, HubStep(n)  PROVE RecordInv'
    <2>1. /\ Asking(n)'
          /\ orphans = 0 /\ Recorded(n) => Recorded(n)'
          /\ \A r \in Ids, m \in Nodes \ {n} : ack'[r][m] = ack[r][m]
      BY <1>1, <1>4, RecordHub
    <2>2. /\ pc' = pc /\ target' = target /\ mem' = mem /\ disk' = disk
          /\ orphan' = orphan /\ orphans' = orphans
          /\ \A m \in Nodes \ {n} : req'[m] = req[m]
      BY <1>0, <1>4 DEF HubStep, agentVars, TypeOK
    <2>3. ASSUME NEW m \in Nodes, m # n  PROVE Asking(m)'
      BY <1>1, <2>2, <2>3 DEF Asking
    <2>4. ASSUME NEW m \in Nodes, m # n, orphans = 0  PROVE Recorded(m)'
      <3>1. Recorded(m)
        BY <1>2, <2>4
      <3>2. /\ mem[m].acked # NoRelease => mem[m].acked \in Ids
            /\ disk[m].acked # NoRelease => disk[m].acked \in Ids
            /\ req[m] # NoHandler => req[m].rel \in Ids
        <4>1. /\ mem[m].acked \in IdsOrNone /\ disk[m].acked \in IdsOrNone
              /\ req[m] # NoHandler => req[m] \in Handler
          BY <1>0 DEF TypeOK, LocalState
        <4>2. QED  BY <4>1, RolloutAssumption DEF NoRelease, Ids, IdsOrNone, Handler
      <3>3. QED  BY <2>1, <2>2, <2>4, <3>1, <3>2 DEF Recorded
    <2>5. QED  BY <1>2, <2>1, <2>2, <2>3, <2>4 DEF RecordInv
  <1>5. ASSUME NEW n \in Nodes, OrphanStep(n)  PROVE RecordInv'
    <2>1. orphans # 0
      BY <1>2, <1>5 DEF OrphanStep, Recorded
    <2>2. orphans' = orphans /\ \A m \in Nodes : Asking(m)'
      BY <1>1, <1>5 DEF OrphanStep, agentVars, Asking
    <2>3. QED  BY <2>1, <2>2 DEF RecordInv
  <1>6. ASSUME NEW n \in Nodes, AgentStep(n) \/ Environment(n)  PROVE RecordInv'
    <2>1. /\ ack' = ack
          /\ \A m \in Nodes \ {n} : req'[m] = req[m] /\ orphan'[m] = orphan[m]
          /\ orphans' = orphans \/ orphans' = orphans + 1
          /\ orphans' = orphans => orphan' = orphan
      BY <1>0, <1>6, OtherRequestsAlone
    <2>2. \A m \in Nodes \ {n} : /\ pc'[m] = pc[m] /\ target'[m] = target[m]
                                 /\ mem'[m] = mem[m] /\ disk'[m] = disk[m]
      BY <1>0, <1>6, OthersAlone
    <2>3. \A m \in Nodes : Asking(m)'
      <3>1. Asking(n)'
        BY <1>0, <1>1, <1>6, AskingStep
      <3>2. ASSUME NEW m \in Nodes \ {n}  PROVE Asking(m)'
        BY <1>1, <2>1, <2>2 DEF Asking
      <3>3. QED  BY <3>1, <3>2
    <2>4. ASSUME orphans' = 0  PROVE \A m \in Nodes : Recorded(m)'
      <3>1. orphans = 0 /\ orphan' = orphan
        BY <1>0, <2>1, <2>4
      <3>2. Recorded(n)'
        BY <1>0, <1>1, <1>2, <1>6, <2>1, <3>1, RecordStep DEF Recorded
      <3>3. ASSUME NEW m \in Nodes \ {n}  PROVE Recorded(m)'
        BY <1>2, <2>1, <2>2, <3>1 DEF Recorded
      <3>4. QED  BY <3>2, <3>3
    <2>5. QED  BY <2>3, <2>4 DEF RecordInv
  <1>7. CASE UNCHANGED vars
    BY <1>7 DEF vars, hubVars, agentVars, netVars, RecordInv, Asking, Recorded
  <1>8. QED  BY <1>3, <1>4, <1>5, <1>6, <1>7 DEF Next

\* Nothing is under way and nothing acknowledged initially.
LEMMA RecordInit == Init => RecordInv
  BY DEF Init, RecordInv, Asking, Recorded, Fresh

\* Until a handler outlives its client, a release an agent holds as
\* acknowledged is recorded by the hub as a success on its node, through
\* retries, crashes and restarts from an older state.json.
THEOREM AcknowledgedIsRecorded == Spec => [](orphans = 0 => AckedMeansRecorded)
  <1>1. TypeInv /\ OrderInv /\ RecordInv /\ [Next]_vars => RecordInv'
    BY RecordNext
  <1>2. RecordInv => (orphans = 0 => AckedMeansRecorded)
    BY DEF RecordInv, Recorded, AckedMeansRecorded
  <1>3. QED  BY <1>1, <1>2, OrderAlways, RecordInit, PTL DEF Spec
=============================================================================
