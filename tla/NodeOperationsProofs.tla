------------------------ MODULE NodeOperationsProofs ------------------------
(***************************************************************************)
(* What is true of node operations for any nodes, any forms of the         *)
(* template and any bounds: their types, that no command is started twice, *)
(* that only what was approved runs, that recorded results are real, and   *)
(* that they stay.                                                         *)
(***************************************************************************)
EXTENDS NodeOperations, TLAPS

-----------------------------------------------------------------------------
(***************************************************************************)
(* Types.  The parts of TypeOK, and what makes them inductive: handlers    *)
(* that hold a lock or have something to run, and agents that run it, name *)
(* an operation.                                                           *)
(***************************************************************************)

Row       == [node: Nodes, form: Forms, required: BOOLEAN, ticket: BOOLEAN]
TableType == ops \in Seq(Row) /\ Len(ops) <= MaxOps
HubType   == template \in [form: Forms, approval: BOOLEAN] /\ status \in [OpIds -> Status]
AgentType == /\ pc \in [Nodes -> {"down", "poll", "claiming", "run", "report"}]
             /\ job \in [Nodes -> OpIds \cup {NoOp}]
NetType   == /\ claim \in [Nodes -> Claim]
             /\ late \in [Nodes -> Claim]
             /\ results \in SUBSET [op: OpIds, exec: Final]
PastType  == /\ runs \in [OpIds -> Nat]
             /\ outcome \in [OpIds -> Endings \cup {"none"}]
             /\ lost \in SUBSET OpIds
CountType == edits \in 0..MaxEdits /\ faults \in 0..MaxFaults

Named == \A n \in Nodes :
            /\ claim[n].step = "commit" => claim[n].op \in OpIds
            /\ claim[n].step = "replied" /\ claim[n].renders => claim[n].op \in OpIds
            /\ late[n].step = "commit" => late[n].op \in OpIds
            /\ late[n].step # "replied"
            /\ pc[n] = "run" => job[n] \in OpIds

TypeInv == /\ TableType /\ HubType /\ AgentType
           /\ NetType /\ PastType /\ CountType
           /\ Named

LEMMA TypeInvOK == TypeInv => TypeOK
BY DEF TypeInv, TypeOK, HubType, TableType, AgentType, NetType, PastType, CountType, Row

LEMMA TypeInit == Init => TypeInv
BY OperationsAssumption
DEF Init, TypeInv, HubType, TableType, AgentType, NetType, PastType, CountType, Row,
    Named, NoClaim, NoOp, Status, Claim

LEMMA TypeEnqueue ==
    ASSUME TypeInv, NEW op \in Row, NEW exec \in Status, Enqueue(op, exec)
    PROVE  TypeInv'
<1>1. TableType'
  <2>1. ops \in Seq(Row) /\ Len(ops) \in Nat /\ Len(ops) < MaxOps
      BY OperationsAssumption DEF TypeInv, TableType, Enqueue
  <2>2. ops' \in Seq(Row) /\ Len(ops') = Len(ops) + 1
      BY <2>1 DEF Enqueue
  <2> QED BY <2>1, <2>2, OperationsAssumption DEF TableType
<1>2. HubType'
    BY DEF TypeInv, HubType, Enqueue
<1>3. AgentType' /\ NetType' /\ PastType' /\ CountType' /\ Named'
    BY DEF TypeInv, AgentType, NetType, PastType, CountType, Named, Enqueue,
           agentVars, netVars, history
<1> QED BY <1>1, <1>2, <1>3 DEF TypeInv

LEMMA TypeEdit ==
    ASSUME TypeInv, NEW form \in Forms, NEW approval \in BOOLEAN,
           EditTemplate(form, approval)
    PROVE  TypeInv'
BY OperationsAssumption
DEF TypeInv, TableType, HubType, AgentType, NetType, PastType, CountType, Named,
    EditTemplate, agentVars, netVars, history

\* What a claim may lock: an approved, unlocked operation of its node.
LEMMA LockFacts ==
    ASSUME TypeInv, NEW n \in Nodes, NEW o \in Oldest(n)
    PROVE  /\ o \in OpIds /\ o \in 1..Len(ops) /\ o \notin Locked
           /\ ops[o].node = n /\ status[o] = "approved"
           /\ Lock(o) \in Claim /\ Lock(o).step = "commit" /\ Lock(o).op = o
<1>1. Len(ops) \in Nat /\ Len(ops) <= MaxOps /\ MaxOps \in Nat
    BY OperationsAssumption DEF TypeInv, TableType
<1>2. /\ o \in 1..Len(ops) /\ o \notin Locked
      /\ ops[o].node = n /\ status[o] = "approved"
    BY DEF Oldest, Claimable
<1>3. o \in OpIds
    BY <1>1, <1>2 DEF OpIds
<1> QED BY <1>2, <1>3 DEF Lock, Claim

\* What the SELECT of a claim makes of its handler: a lock, or nothing.
Picked(n, h) ==
    /\ h \in Claim
    /\ h.step \in {"idle", "commit", "replied"}
    /\ h.step # "commit" => h.op = NoOp /\ ~h.renders
    /\ h.step = "commit" => /\ h.op \in OpIds /\ h.op \in 1..Len(ops)
                             /\ h.op \notin Locked /\ ops[h.op].node = n
                             /\ status[h.op] = "approved"

LEMMA ClaimPicks ==
    ASSUME TypeInv, NEW n \in Nodes, ClaimSelect(n)
    PROVE  \E h : Picked(n, h) /\ claim' = [claim EXCEPT ![n] = h]
<1>1. CASE \E o \in Oldest(n) : claim' = [claim EXCEPT ![n] = Lock(o)]
  <2>1. PICK o \in Oldest(n) : claim' = [claim EXCEPT ![n] = Lock(o)]
      BY <1>1
  <2>2. Picked(n, Lock(o))
      BY LockFacts DEF Picked
  <2> QED BY <2>1, <2>2
<1>2. CASE claim' = [claim EXCEPT ![n] = [NoClaim EXCEPT !.step = "replied"]]
  <2>1. Picked(n, [NoClaim EXCEPT !.step = "replied"])
      BY DEF Picked, NoClaim, Claim
  <2> QED BY <1>2, <2>1
<1> QED BY <1>1, <1>2 DEF ClaimSelect

LEMMA LatePicks ==
    ASSUME TypeInv, NEW n \in Nodes, LateSelect(n)
    PROVE  \E h : /\ Picked(n, h) /\ h.step # "replied"
                 /\ late' = [late EXCEPT ![n] = h]
<1>1. CASE \E o \in Oldest(n) : late' = [late EXCEPT ![n] = Lock(o)]
  <2>1. PICK o \in Oldest(n) : late' = [late EXCEPT ![n] = Lock(o)]
      BY <1>1
  <2>2. Picked(n, Lock(o)) /\ Lock(o).step # "replied"
      BY LockFacts DEF Picked
  <2> QED BY <2>1, <2>2
<1>2. CASE late' = [late EXCEPT ![n] = NoClaim]
  <2>1. Picked(n, NoClaim) /\ NoClaim.step # "replied"
      BY DEF Picked, NoClaim, Claim
  <2> QED BY <1>2, <2>1
<1> QED BY <1>1, <1>2 DEF LateSelect

LEMMA ClassifyFacts ==
    ASSUME NEW e \in Endings
    PROVE  /\ ClassifyEnding(e) \in Final
           /\ ClassifyEnding(e) = "success" <=> e = "success"
BY DEF ClassifyEnding, Endings, Final

LEMMA TypeStart ==
    ASSUME TypeInv, NEW n \in Nodes, Start(n)
    PROVE  TypeInv'
<1>1. TableType' /\ HubType' /\ NetType' /\ PastType' /\ CountType'
    BY DEF TypeInv, TableType, HubType, NetType, PastType, CountType, Start,
           hubVars, netVars, history
<1>2. AgentType'
    BY DEF TypeInv, AgentType, Start, Goto
<1>3. Named'
    BY DEF TypeInv, Named, Start, Goto, NetType, AgentType, netVars
<1> QED BY <1>1, <1>2, <1>3 DEF TypeInv

LEMMA TypePoll ==
    ASSUME TypeInv, NEW n \in Nodes, Poll(n)
    PROVE  TypeInv'
<1>1. TableType' /\ HubType' /\ PastType' /\ CountType'
    BY DEF TypeInv, TableType, HubType, PastType, CountType, Poll, hubVars, history
<1>2. AgentType'
    BY DEF TypeInv, AgentType, Poll, Goto
<1>3. NetType'
    BY DEF TypeInv, Named, NetType, Poll, Claim, NoClaim, NoOp
<1>4. Named'
    BY DEF TypeInv, Named, Poll, Goto, Claim, NoClaim, NoOp, NetType, AgentType
<1> QED BY <1>1, <1>2, <1>3, <1>4 DEF TypeInv

LEMMA TypeClaimNothing ==
    ASSUME TypeInv, NEW n \in Nodes, ClaimNothing(n)
    PROVE  TypeInv'
<1>1. TableType' /\ HubType' /\ PastType' /\ CountType'
    BY DEF TypeInv, TableType, HubType, PastType, CountType, ClaimNothing, hubVars,
           history
<1>2. AgentType'
    BY DEF TypeInv, AgentType, ClaimNothing, Goto
<1>3. NetType'
    BY DEF TypeInv, Named, NetType, ClaimNothing, Claim, NoClaim, NoOp
<1>4. Named'
    BY DEF TypeInv, Named, ClaimNothing, Goto, Claim, NoClaim, NoOp, NetType,
           AgentType
<1> QED BY <1>1, <1>2, <1>3, <1>4 DEF TypeInv

LEMMA TypeRunCommand ==
    ASSUME TypeInv, NEW n \in Nodes, RunCommand(n)
    PROVE  TypeInv'
<1>1. TableType' /\ HubType' /\ CountType'
    BY DEF TypeInv, TableType, HubType, CountType, RunCommand, hubVars
<1>2. AgentType'
    BY DEF TypeInv, Named, AgentType, RunCommand, Goto, Claim, NoClaim, NoOp,
           hubVars, agentVars, netVars, history
<1>3. NetType'
    BY DEF TypeInv, Named, NetType, RunCommand, Claim, NoClaim, NoOp
<1>4. PastType'
    BY DEF TypeInv, Named, PastType, RunCommand, NetType, AgentType
<1>5. Named'
    BY DEF TypeInv, Named, RunCommand, Goto, Claim, NoClaim, NoOp, NetType,
           AgentType
<1> QED BY <1>1, <1>2, <1>3, <1>4, <1>5 DEF TypeInv

LEMMA TypeRefuseCommand ==
    ASSUME TypeInv, NEW n \in Nodes, RefuseCommand(n)
    PROVE  TypeInv'
<1>1. TableType' /\ HubType' /\ CountType'
    BY DEF TypeInv, TableType, HubType, CountType, RefuseCommand, hubVars
<1>2. AgentType'
    BY DEF TypeInv, Named, AgentType, RefuseCommand, Goto, Claim, NoClaim, NoOp,
           Endings, Final, hubVars, agentVars, netVars, history
<1>3. NetType'
    BY DEF TypeInv, Named, NetType, RefuseCommand, Claim, NoClaim, NoOp, Endings,
           Final
<1>4. PastType'
    BY DEF TypeInv, Named, PastType, RefuseCommand, Endings, Final, NetType,
           AgentType
<1>5. Named'
    BY DEF TypeInv, Named, RefuseCommand, Goto, Claim, NoClaim, NoOp, Endings,
           Final, NetType, AgentType
<1> QED BY <1>1, <1>2, <1>3, <1>4, <1>5 DEF TypeInv

LEMMA TypeCommandEnds ==
    ASSUME TypeInv, NEW n \in Nodes, NEW e \in Endings, CommandEnds(n, e)
    PROVE  TypeInv'
<1>1. TableType' /\ HubType' /\ CountType'
    BY DEF TypeInv, TableType, HubType, CountType, CommandEnds, hubVars
<1>2. AgentType'
    BY ClassifyFacts DEF TypeInv, AgentType, CommandEnds, Goto
<1>3. NetType'
    BY ClassifyFacts DEF TypeInv, Named, NetType, CommandEnds
<1>4. PastType'
    BY ClassifyFacts DEF TypeInv, Named, PastType, CommandEnds, NetType, AgentType
<1>5. Named'
    BY ClassifyFacts DEF TypeInv, Named, CommandEnds, Goto, NetType, AgentType
<1> QED BY <1>1, <1>2, <1>3, <1>4, <1>5 DEF TypeInv

LEMMA TypeReported ==
    ASSUME TypeInv, NEW n \in Nodes, Reported(n)
    PROVE  TypeInv'
<1>1. TableType' /\ HubType' /\ NetType' /\ PastType' /\ CountType'
    BY DEF TypeInv, TableType, HubType, NetType, PastType, CountType, Reported,
           hubVars, netVars, history
<1>2. AgentType'
    BY DEF TypeInv, AgentType, Reported, Goto
<1>3. Named'
    BY DEF TypeInv, Named, Reported, Goto, NetType, AgentType, netVars
<1> QED BY <1>1, <1>2, <1>3 DEF TypeInv

LEMMA TypeClaimSelect ==
    ASSUME TypeInv, NEW n \in Nodes, ClaimSelect(n)
    PROVE  TypeInv'
<1>1. TableType' /\ HubType' /\ AgentType' /\ PastType' /\ CountType'
    BY DEF TypeInv, TableType, HubType, AgentType, PastType, CountType, ClaimSelect,
           hubVars, agentVars, history
<1>2. NetType'
    BY ClaimPicks DEF TypeInv, Named, NetType, ClaimSelect, Picked
<1>3. Named'
    BY ClaimPicks DEF TypeInv, Named, ClaimSelect, Picked, NetType, AgentType,
           agentVars
<1> QED BY <1>1, <1>2, <1>3 DEF TypeInv

LEMMA TypeClaimCommit ==
    ASSUME TypeInv, NEW n \in Nodes, ClaimCommit(n)
    PROVE  TypeInv'
<1>1. TableType' /\ AgentType' /\ CountType'
    BY DEF TypeInv, TableType, AgentType, CountType, ClaimCommit, agentVars
<1>2. HubType'
    BY DEF TypeInv, Named, HubType, ClaimCommit, CommitClaim, Status, NetType,
           AgentType
<1>3. NetType'
    BY DEF TypeInv, Named, NetType, ClaimCommit, CommitClaim, Claim, NoClaim, Status
<1>4. PastType'
    BY DEF TypeInv, Named, PastType, ClaimCommit, CommitClaim, Status, NetType,
           AgentType
<1>5. Named'
    BY DEF TypeInv, Named, ClaimCommit, CommitClaim, Claim, NoClaim, Status,
           NetType, AgentType, agentVars
<1> QED BY <1>1, <1>2, <1>3, <1>4, <1>5 DEF TypeInv

LEMMA TypeLateSelect ==
    ASSUME TypeInv, NEW n \in Nodes, LateSelect(n)
    PROVE  TypeInv'
<1>1. TableType' /\ HubType' /\ AgentType' /\ PastType' /\ CountType'
    BY DEF TypeInv, TableType, HubType, AgentType, PastType, CountType, LateSelect,
           hubVars, agentVars, history
<1>2. NetType'
    BY LatePicks DEF TypeInv, Named, NetType, LateSelect, Picked
<1>3. Named'
    BY LatePicks DEF TypeInv, Named, LateSelect, Picked, NetType, AgentType,
           agentVars
<1> QED BY <1>1, <1>2, <1>3 DEF TypeInv

LEMMA TypeLateCommit ==
    ASSUME TypeInv, NEW n \in Nodes, LateCommit(n)
    PROVE  TypeInv'
<1>1. TableType' /\ AgentType' /\ CountType'
    BY DEF TypeInv, TableType, AgentType, CountType, LateCommit, agentVars
<1>2. HubType'
    BY DEF TypeInv, Named, HubType, LateCommit, CommitClaim, Status, NetType,
           AgentType
<1>3. NetType'
    BY DEF TypeInv, Named, NetType, LateCommit, CommitClaim, Claim, NoClaim, Status
<1>4. PastType'
    BY DEF TypeInv, Named, PastType, LateCommit, CommitClaim, Status, NetType,
           AgentType
<1>5. Named'
    BY DEF TypeInv, Named, LateCommit, CommitClaim, Claim, NoClaim, Status, NetType,
           AgentType, agentVars
<1> QED BY <1>1, <1>2, <1>3, <1>4, <1>5 DEF TypeInv

LEMMA TypeReportResult ==
    ASSUME TypeInv, NEW m \in results, ReportResult(m)
    PROVE  TypeInv'
<1>1. TableType' /\ AgentType' /\ PastType' /\ CountType'
    BY DEF TypeInv, TableType, AgentType, PastType, CountType, ReportResult,
           agentVars, history
<1>2. HubType'
    BY DEF TypeInv, Named, HubType, ReportResult, Status, NetType, AgentType
<1>3. NetType'
    BY DEF TypeInv, Named, NetType, ReportResult, Status
<1>4. Named'
    BY DEF TypeInv, Named, ReportResult, Status, NetType, AgentType, agentVars
<1> QED BY <1>1, <1>2, <1>3, <1>4 DEF TypeInv

LEMMA TypeReportLost ==
    ASSUME TypeInv, NEW m \in results, ReportLost(m)
    PROVE  TypeInv'
<1>1. TableType' /\ HubType' /\ AgentType'
    BY DEF TypeInv, TableType, HubType, AgentType, ReportLost, hubVars, agentVars
<1>2. NetType'
    BY DEF TypeInv, Named, NetType, ReportLost
<1>3. PastType'
    BY DEF TypeInv, Named, PastType, ReportLost, NetType, AgentType
<1>4. CountType'
    BY OperationsAssumption DEF TypeInv, CountType, ReportLost, Fault
<1>5. Named'
    BY DEF TypeInv, Named, ReportLost, NetType, AgentType, agentVars
<1> QED BY <1>1, <1>2, <1>3, <1>4, <1>5 DEF TypeInv

LEMMA TypeClaimFails ==
    ASSUME TypeInv, NEW n \in Nodes, ClaimFails(n)
    PROVE  TypeInv'
<1>1. TableType' /\ HubType'
    BY DEF TypeInv, TableType, HubType, ClaimFails, hubVars
<1>2. AgentType'
    BY DEF TypeInv, AgentType, ClaimFails, Goto
<1>3. NetType'
    BY DEF TypeInv, Named, NetType, ClaimFails, Abandon, Claim, NoClaim, NoOp
<1>4. PastType'
    BY DEF TypeInv, Named, PastType, ClaimFails, Goto, Fault, Abandon, Stranded,
           Claim, NoClaim, NoOp, NetType, AgentType, hubVars, agentVars, netVars,
           history
<1>5. CountType'
    BY OperationsAssumption DEF TypeInv, CountType, ClaimFails, Fault
<1>6. Named'
    BY DEF TypeInv, Named, ClaimFails, Goto, Abandon, Claim, NoClaim, NoOp, NetType,
           AgentType
<1> QED BY <1>1, <1>2, <1>3, <1>4, <1>5, <1>6 DEF TypeInv

LEMMA TypeReportTimesOut ==
    ASSUME TypeInv, NEW n \in Nodes, ReportTimesOut(n)
    PROVE  TypeInv'
<1>1. TableType' /\ HubType' /\ NetType' /\ PastType'
    BY DEF TypeInv, TableType, HubType, NetType, PastType, ReportTimesOut, hubVars,
           netVars, history
<1>2. AgentType'
    BY DEF TypeInv, AgentType, ReportTimesOut, Goto
<1>3. CountType'
    BY OperationsAssumption DEF TypeInv, CountType, ReportTimesOut, Fault
<1>4. Named'
    BY DEF TypeInv, Named, ReportTimesOut, Goto, NetType, AgentType, netVars
<1> QED BY <1>1, <1>2, <1>3, <1>4 DEF TypeInv

LEMMA TypeCrash ==
    ASSUME TypeInv, NEW n \in Nodes, Crash(n)
    PROVE  TypeInv'
<1>1. TableType' /\ HubType'
    BY DEF TypeInv, TableType, HubType, Crash, hubVars
<1>2. AgentType'
    BY DEF TypeInv, AgentType, Crash, Goto
<1>3. NetType'
    BY DEF TypeInv, Named, NetType, Crash, Abandon, Claim, NoClaim, NoOp
<1>4. PastType'
    BY DEF TypeInv, Named, PastType, Crash, Goto, Fault, Abandon, Stranded, Claim,
           NoClaim, NoOp, NetType, AgentType, hubVars, agentVars, netVars, history
<1>5. CountType'
    BY OperationsAssumption DEF TypeInv, CountType, Crash, Fault
<1>6. Named'
    BY DEF TypeInv, Named, Crash, Goto, Abandon, Claim, NoClaim, NoOp, NetType,
           AgentType
<1> QED BY <1>1, <1>2, <1>3, <1>4, <1>5, <1>6 DEF TypeInv

LEMMA TypeNext ==
    ASSUME TypeInv, Next
    PROVE  TypeInv'
<1>1. ASSUME NEW n \in Nodes, NEW ticket \in BOOLEAN, CreateOperation(n, ticket)
      PROVE  TypeInv'
  <2> DEFINE op   == [node |-> n, form |-> template.form,
                      required |-> template.approval, ticket |-> ticket]
             exec == IF template.approval /\ ~ticket THEN "pending" ELSE "approved"
  <2>1. op \in Row /\ exec \in Status
      BY DEF TypeInv, HubType, Row, Status
  <2>2. Enqueue(op, exec)
      BY <1>1 DEF CreateOperation
  <2> HIDE DEF op, exec
  <2> QED BY <2>1, <2>2, TypeEnqueue
<1>2. ASSUME NEW n \in Nodes, NEW form \in Forms, PostSwitchOperation(n, form)
      PROVE  TypeInv'
  <2> DEFINE op == [node |-> n, form |-> form, required |-> FALSE, ticket |-> FALSE]
  <2>1. op \in Row /\ "approved" \in Status
      BY DEF Row, Status
  <2>2. Enqueue(op, "approved")
      BY <1>2 DEF PostSwitchOperation
  <2> HIDE DEF op
  <2> QED BY <2>1, <2>2, TypeEnqueue
<1>3. ASSUME NEW n \in Nodes, Agent(n) PROVE TypeInv'
    BY <1>3, TypeStart, TypePoll, TypeClaimNothing, TypeRunCommand, TypeRefuseCommand,
       TypeCommandEnds, TypeReported DEF Agent
<1>4. ASSUME NEW n \in Nodes, Hub(n) \/ Late(n) PROVE TypeInv'
    BY <1>4, TypeClaimSelect, TypeClaimCommit, TypeLateSelect, TypeLateCommit
    DEF Hub, Late
<1>5. ASSUME NEW n \in Nodes, ClaimFails(n) \/ ReportTimesOut(n) \/ Crash(n)
      PROVE  TypeInv'
    BY <1>5, TypeClaimFails, TypeReportTimesOut, TypeCrash
<1> QED BY <1>1, <1>2, <1>3, <1>4, <1>5, TypeEdit, TypeReportResult, TypeReportLost
        DEF Next, Result

LEMMA TypeStutter == TypeInv /\ UNCHANGED vars => TypeInv'
BY DEF TypeInv, TableType, HubType, AgentType, NetType, PastType, CountType, Named,
       vars, hubVars, agentVars, netVars, history

LEMMA TypeAlways == Spec => []TypeInv
<1>1. TypeInv /\ [Next]_vars => TypeInv'
    BY TypeNext, TypeStutter
<1> QED BY <1>1, TypeInit, PTL DEF Spec

\* The operations table, the agents, the claims and the reports keep their
\* types (TypeOK), for any nodes, forms and bounds.
THEOREM TypeCorrect == Spec => []TypeOK
BY TypeAlways, TypeInvOK, PTL

-----------------------------------------------------------------------------
(***************************************************************************)
(* Safety.  An operation is run at most once because the right to run it   *)
(* is in one place at a time: its row while it is approved, then one claim *)
(* handler's answer, then one agent, then one report.                      *)
(***************************************************************************)

\* Nothing has come of operation o yet.
Untouched(o) == /\ runs[o] = 0
                /\ outcome[o] = "none"
                /\ \A m \in results : m.op # o

\* What the row of an operation says about it.
RowInv == \A o \in OpIds :
    /\ o > Len(ops) <=> status[o] = "none"
    /\ status[o] \notin {"none", "pending"} => (ops[o].required => ops[o].ticket)
    /\ status[o] \in {"none", "pending", "approved"} => Untouched(o)
    /\ runs[o] \in {0, 1}
    /\ outcome[o] = "success" => runs[o] = 1
    /\ status[o] \in Final => outcome[o] # "none" /\ status[o] = ClassifyEnding(outcome[o])

\* A claim that holds a lock holds that of an approved operation; an answer
\* on its way is the only place the operation can be started from.
ClaimInv == \A n \in Nodes :
    /\ claim[n].op # NoOp => claim[n].op \in 1..Len(ops) /\ ops[claim[n].op].node = n
    /\ claim[n].step = "commit" => status[claim[n].op] = "approved"
    /\ claim[n].step = "replied" /\ claim[n].op # NoOp =>
            status[claim[n].op] = "running" /\ Untouched(claim[n].op)

\* A late claim holds a lock of its own.
LateInv == \A n \in Nodes :
    late[n].step = "commit" =>
        /\ late[n].op \in 1..Len(ops) /\ ops[late[n].op].node = n
        /\ status[late[n].op] = "approved"
        /\ claim[n].step = "commit" => claim[n].op # late[n].op

\* What an agent runs has been started once and nobody has reported on it.
JobInv == \A n \in Nodes : pc[n] = "run" =>
    /\ job[n] \in 1..Len(ops) /\ ops[job[n]].node = n
    /\ status[job[n]] = "running"
    /\ runs[job[n]] = 1
    /\ outcome[job[n]] = "none"
    /\ \A m \in results : m.op # job[n]

\* A report in flight tells how the command of a running operation ended.
ResultInv == \A m \in results :
    /\ status[m.op] = "running"
    /\ outcome[m.op] # "none"
    /\ m.exec = ClassifyEnding(outcome[m.op])

OpInv == RowInv /\ ClaimInv /\ LateInv /\ JobInv /\ ResultInv

LEMMA OpInit == Init => OpInv
BY OperationsAssumption
DEF Init, OpInv, RowInv, ClaimInv, LateInv, JobInv, ResultInv, Untouched, NoClaim,
    NoOp, Final, OpIds

LEMMA OpEnqueue ==
    ASSUME TypeInv, OpInv, NEW op \in Row,
           NEW exec \in {"pending", "approved"},
           exec = "approved" => (op.required => op.ticket),
           Enqueue(op, exec)
    PROVE  OpInv'
<1> DEFINE k == Len(ops) + 1
<1>1. /\ Len(ops) \in Nat /\ Len(ops') = Len(ops) + 1 /\ Len(ops) < MaxOps
      /\ ops'[k] = op
      /\ \A o \in 1..Len(ops) : ops'[o] = ops[o]
    BY DEF TypeInv, TableType, Enqueue
<1>2. k \in OpIds
    BY <1>1, OperationsAssumption DEF OpIds
<1>3. /\ status' = [status EXCEPT ![k] = exec]
      /\ UNCHANGED <<pc, job, claim, late, results, runs, outcome>>
    BY DEF Enqueue, agentVars, netVars, history
<1>4. \A o \in OpIds : status'[o] = IF o = k THEN exec ELSE status[o]
    BY <1>2, <1>3 DEF TypeInv, HubType
<1>5. status[k] = "none" /\ Untouched(k)
    BY <1>1, <1>2 DEF OpInv, RowInv
<1>6. OpIds \subseteq Nat
    BY DEF OpIds
<1> HIDE DEF k
<1>a. RowInv'
  <2> SUFFICES ASSUME NEW o \in OpIds PROVE RowInv!(o)'
      BY DEF RowInv
  <2>1. CASE o = k
      BY <2>1, <1>1, <1>2, <1>3, <1>4, <1>5, <1>6 DEF OpInv, RowInv, Untouched,
             Final, k
  <2>2. CASE o # k
    <3>1. /\ o > Len(ops') <=> o > Len(ops)
          /\ status'[o] = status[o]
          /\ o <= Len(ops) => ops'[o] = ops[o]
        BY <2>2, <1>1, <1>4, OperationsAssumption DEF k, OpIds
    <3>2. o \in Nat /\ Len(ops) \in Nat
        BY <1>1, <1>6
    <3> QED BY <3>1, <3>2, <1>3 DEF OpInv, RowInv, Untouched
  <2> QED BY <2>1, <2>2
<1>b. ClaimInv'
    BY <1>1, <1>2, <1>3, <1>4, <1>5, <1>6
    DEF OpInv, ClaimInv, Untouched, TypeInv, Named, OpIds
<1>c. LateInv'
    BY <1>1, <1>2, <1>3, <1>4, <1>5, <1>6 DEF OpInv, LateInv, TypeInv
<1>d. JobInv'
    BY <1>1, <1>2, <1>3, <1>4, <1>5, <1>6 DEF OpInv, JobInv, TypeInv
<1>e. ResultInv'
    BY <1>1, <1>2, <1>3, <1>4, <1>5, <1>6 DEF OpInv, ResultInv, TypeInv
<1> QED BY <1>a, <1>b, <1>c, <1>d, <1>e DEF OpInv

LEMMA OpStart ==
    ASSUME TypeInv, OpInv, NEW n \in Nodes, Start(n)
    PROVE  OpInv'
<1>1. RowInv'
    BY DEF OpInv, RowInv, Untouched, Start, TypeInv, hubVars, netVars, history
<1>2. ClaimInv'
    BY DEF OpInv, ClaimInv, Untouched, Start, TypeInv, hubVars, netVars, history
<1>3. LateInv'
    BY DEF OpInv, LateInv, Start, TypeInv, hubVars, netVars
<1>4. JobInv'
    BY DEF OpInv, JobInv, Start, Goto, TypeInv, hubVars, netVars, history
<1>5. ResultInv'
    BY DEF OpInv, ResultInv, Start, TypeInv, hubVars, netVars, history
<1> QED BY <1>1, <1>2, <1>3, <1>4, <1>5 DEF OpInv

LEMMA OpPoll ==
    ASSUME TypeInv, OpInv, NEW n \in Nodes, Poll(n)
    PROVE  OpInv'
<1>1. RowInv'
    BY DEF OpInv, RowInv, Untouched, Poll, TypeInv, hubVars, history
<1>2. ClaimInv'
    BY DEF OpInv, ClaimInv, Untouched, Poll, NoClaim, TypeInv, hubVars, history
<1>3. LateInv'
    BY DEF OpInv, LateInv, Poll, TypeInv, hubVars
<1>4. JobInv'
    BY DEF OpInv, JobInv, Poll, Goto, TypeInv, hubVars, history
<1>5. ResultInv'
    BY DEF OpInv, ResultInv, Poll, TypeInv, hubVars, history
<1> QED BY <1>1, <1>2, <1>3, <1>4, <1>5 DEF OpInv

LEMMA OpClaimNothing ==
    ASSUME TypeInv, OpInv, NEW n \in Nodes, ClaimNothing(n)
    PROVE  OpInv'
<1>1. RowInv'
    BY DEF OpInv, RowInv, Untouched, ClaimNothing, TypeInv, hubVars, history
<1>2. ClaimInv'
    BY DEF OpInv, ClaimInv, Untouched, ClaimNothing, NoClaim, TypeInv, hubVars,
           history
<1>3. LateInv'
    BY DEF OpInv, LateInv, ClaimNothing, NoClaim, TypeInv, hubVars
<1>4. JobInv'
    BY DEF OpInv, JobInv, ClaimNothing, Goto, TypeInv, hubVars, history
<1>5. ResultInv'
    BY DEF OpInv, ResultInv, ClaimNothing, TypeInv, hubVars, history
<1> QED BY <1>1, <1>2, <1>3, <1>4, <1>5 DEF OpInv

LEMMA OpRunCommand ==
    ASSUME TypeInv, OpInv, NEW n \in Nodes, RunCommand(n)
    PROVE  OpInv'
<1> DEFINE c == claim[n].op
<1>0. /\ c \in OpIds /\ c \in 1..Len(ops) /\ ops[c].node = n
      /\ status[c] = "running" /\ Untouched(c)
    BY DEF RunCommand, OpInv, ClaimInv, TypeInv, Named, NoOp, OpIds
<1>a. /\ \A o \in OpIds : runs'[o] = IF o = c THEN 1 ELSE runs[o]
      /\ \A m \in Nodes : pc'[m] = IF m = n THEN "run" ELSE pc[m]
      /\ \A m \in Nodes : job'[m] = IF m = n THEN c ELSE job[m]
      /\ UNCHANGED <<ops, status, results, outcome>>
    BY <1>0 DEF RunCommand, Goto, Untouched, TypeInv, PastType, AgentType, hubVars
<1>1. RowInv'
    BY <1>0, <1>a DEF c, OpInv, RowInv, Untouched
<1>2. ClaimInv'
    BY DEF OpInv, ClaimInv, Untouched, RunCommand, NoClaim, TypeInv, NetType,
           hubVars
<1>3. LateInv'
    BY DEF OpInv, LateInv, RunCommand, NoClaim, TypeInv, hubVars
<1>4. JobInv'
    BY <1>0, <1>a DEF c, OpInv, JobInv, Untouched, TypeInv, Named
<1>5. ResultInv'
    BY DEF OpInv, ResultInv, RunCommand, TypeInv, hubVars
<1> QED BY <1>1, <1>2, <1>3, <1>4, <1>5 DEF OpInv

LEMMA OpRefuseCommand ==
    ASSUME TypeInv, OpInv, NEW n \in Nodes, RefuseCommand(n)
    PROVE  OpInv'
<1> DEFINE c == claim[n].op
<1>0. /\ c \in OpIds /\ c \in 1..Len(ops) /\ ops[c].node = n
      /\ status[c] = "running" /\ Untouched(c)
    BY DEF RefuseCommand, OpInv, ClaimInv, TypeInv, Named, NoOp, OpIds
<1>a. /\ \A o \in OpIds : outcome'[o] = IF o = c THEN "failed" ELSE outcome[o]
      /\ results' = results \cup {[op |-> c, exec |-> "failed"]}
      /\ UNCHANGED <<ops, status, runs>>
    BY <1>0 DEF RefuseCommand, TypeInv, PastType, hubVars
<1>b. ClassifyEnding("failed") = "failed"
    BY DEF ClassifyEnding
<1>1. RowInv'
    BY <1>0, <1>a DEF c, OpInv, RowInv, Untouched, Final
<1>2. ClaimInv'
    BY DEF OpInv, ClaimInv, Untouched, RefuseCommand, NoClaim, TypeInv, NetType,
           hubVars
<1>3. LateInv'
    BY DEF OpInv, LateInv, RefuseCommand, NoClaim, TypeInv, hubVars
<1>4. JobInv'
    BY DEF OpInv, JobInv, Untouched, ClaimInv, RefuseCommand, Goto, NoOp, TypeInv,
           hubVars, agentVars, netVars, history
<1>5. ResultInv'
  <2> SUFFICES ASSUME NEW m \in results' PROVE ResultInv!(m)'
      BY DEF ResultInv
  <2>1. CASE m \in results
      BY <2>1, <1>0, <1>a DEF c, OpInv, ResultInv, Untouched, TypeInv, NetType
  <2>2. CASE m = [op |-> c, exec |-> "failed"]
      BY <2>2, <1>0, <1>a, <1>b DEF c
  <2> QED BY <2>1, <2>2, <1>a
<1> QED BY <1>1, <1>2, <1>3, <1>4, <1>5 DEF OpInv

LEMMA OpCommandEnds ==
    ASSUME TypeInv, OpInv, NEW n \in Nodes, NEW e \in Endings, CommandEnds(n, e)
    PROVE  OpInv'
<1> DEFINE c == job[n]
<1>0. /\ c \in OpIds /\ c \in 1..Len(ops) /\ ops[c].node = n
      /\ status[c] = "running" /\ runs[c] = 1
      /\ \A m \in results : m.op # c
    BY DEF CommandEnds, OpInv, JobInv, TypeInv, Named
<1>a. /\ \A o \in OpIds : outcome'[o] = IF o = c THEN e ELSE outcome[o]
      /\ results' = results \cup {[op |-> c, exec |-> ClassifyEnding(e)]}
      /\ UNCHANGED <<ops, status, runs>>
    BY <1>0 DEF CommandEnds, TypeInv, PastType, hubVars
<1>b. e # "none"
    BY DEF Endings
<1>1. RowInv'
    BY ClassifyFacts DEF OpInv, RowInv, Untouched, JobInv, CommandEnds, TypeInv,
           hubVars
<1>2. ClaimInv'
    BY ClassifyFacts DEF OpInv, ClaimInv, Untouched, JobInv, CommandEnds, TypeInv,
           hubVars
<1>3. LateInv'
    BY ClassifyFacts DEF OpInv, LateInv, CommandEnds, TypeInv, hubVars
<1>4. JobInv'
    BY ClassifyFacts DEF OpInv, JobInv, CommandEnds, Goto, TypeInv, AgentType,
           hubVars
<1>5. ResultInv'
  <2> SUFFICES ASSUME NEW m \in results' PROVE ResultInv!(m)'
      BY DEF ResultInv
  <2>1. CASE m \in results
      BY <2>1, <1>0, <1>a DEF c, OpInv, ResultInv, TypeInv, NetType
  <2>2. CASE m = [op |-> c, exec |-> ClassifyEnding(e)]
      BY <2>2, <1>0, <1>a, <1>b DEF c
  <2> QED BY <2>1, <2>2, <1>a
<1> QED BY <1>1, <1>2, <1>3, <1>4, <1>5 DEF OpInv

LEMMA OpReported ==
    ASSUME TypeInv, OpInv, NEW n \in Nodes, Reported(n)
    PROVE  OpInv'
<1>1. RowInv'
    BY DEF OpInv, RowInv, Untouched, Reported, TypeInv, hubVars, netVars, history
<1>2. ClaimInv'
    BY DEF OpInv, ClaimInv, Untouched, Reported, TypeInv, hubVars, netVars, history
<1>3. LateInv'
    BY DEF OpInv, LateInv, Reported, TypeInv, hubVars, netVars
<1>4. JobInv'
    BY DEF OpInv, JobInv, Reported, Goto, TypeInv, hubVars, netVars, history
<1>5. ResultInv'
    BY DEF OpInv, ResultInv, Reported, TypeInv, hubVars, netVars, history
<1> QED BY <1>1, <1>2, <1>3, <1>4, <1>5 DEF OpInv

LEMMA OpClaimSelect ==
    ASSUME TypeInv, OpInv, NEW n \in Nodes, ClaimSelect(n)
    PROVE  OpInv'
<1>0. PICK h : Picked(n, h) /\ claim' = [claim EXCEPT ![n] = h]
    BY ClaimPicks
<1>a. /\ \A m \in Nodes : claim'[m] = IF m = n THEN h ELSE claim[m]
      /\ UNCHANGED <<ops, status, late, results, runs, outcome>>
    BY <1>0 DEF ClaimSelect, TypeInv, NetType, hubVars, history
<1>1. RowInv'
    BY ClaimPicks DEF OpInv, RowInv, Untouched, ClaimSelect, Picked, Locked,
           TypeInv, hubVars, history
<1>2. ClaimInv'
    BY <1>0, <1>a DEF Picked, OpInv, ClaimInv, Untouched
<1>3. LateInv'
    BY <1>0, <1>a DEF Picked, Locked, OpInv, LateInv
<1>4. JobInv'
    BY ClaimPicks DEF OpInv, JobInv, ClaimSelect, Picked, Locked, TypeInv, hubVars,
           agentVars, history
<1>5. ResultInv'
    BY ClaimPicks DEF OpInv, ResultInv, ClaimSelect, Picked, Locked, TypeInv,
           hubVars, history
<1> QED BY <1>1, <1>2, <1>3, <1>4, <1>5 DEF OpInv

LEMMA OpClaimCommit ==
    ASSUME TypeInv, OpInv, NEW n \in Nodes, ClaimCommit(n)
    PROVE  OpInv'
<1> DEFINE c == claim[n].op
<1>0. /\ c \in OpIds /\ c # NoOp /\ ops[c].node = n
      /\ status[c] = "approved" /\ Untouched(c)
    BY DEF ClaimCommit, OpInv, ClaimInv, RowInv, TypeInv, Named, NoOp, OpIds
<1>a. /\ \A o \in OpIds : status'[o] = IF o = c THEN "running" ELSE status[o]
      /\ \A m \in Nodes : /\ claim'[m].op = claim[m].op
                          /\ claim'[m].step = IF m = n THEN "replied" ELSE claim[m].step
      /\ UNCHANGED <<ops, late, results, runs, outcome>>
    BY <1>0 DEF ClaimCommit, CommitClaim, TypeInv, HubType, NetType, Claim
<1>b. \A m \in Nodes : claim[m].op # NoOp => claim[m].op \in OpIds
    BY DEF TypeInv, NetType, Claim
<1>1. RowInv'
    BY DEF OpInv, RowInv, Untouched, ClaimInv, ClaimCommit, CommitClaim, Final,
           TypeInv
<1>2. ClaimInv'
    BY <1>0, <1>a, <1>b DEF c, OpInv, ClaimInv, Untouched, TypeInv, Named
<1>3. LateInv'
    BY DEF OpInv, LateInv, ClaimInv, ClaimCommit, CommitClaim, NoOp, TypeInv
<1>4. JobInv'
    BY DEF OpInv, JobInv, ClaimCommit, CommitClaim, TypeInv, agentVars
<1>5. ResultInv'
    BY DEF OpInv, ResultInv, ClaimCommit, CommitClaim, TypeInv
<1> QED BY <1>1, <1>2, <1>3, <1>4, <1>5 DEF OpInv

LEMMA OpLateSelect ==
    ASSUME TypeInv, OpInv, NEW n \in Nodes, LateSelect(n)
    PROVE  OpInv'
<1>1. RowInv'
    BY LatePicks DEF OpInv, RowInv, Untouched, LateSelect, Picked, Locked, TypeInv,
           hubVars, history
<1>2. ClaimInv'
    BY LatePicks DEF OpInv, ClaimInv, Untouched, LateSelect, Picked, Locked,
           TypeInv, hubVars, history
<1>3. LateInv'
    BY LatePicks DEF OpInv, LateInv, RowInv, JobInv, ResultInv, LateSelect, Picked,
           Locked, TypeInv, NetType, hubVars, agentVars, netVars, history
<1>4. JobInv'
    BY LatePicks DEF OpInv, JobInv, LateSelect, Picked, Locked, TypeInv, hubVars,
           agentVars, history
<1>5. ResultInv'
    BY LatePicks DEF OpInv, ResultInv, LateSelect, Picked, Locked, TypeInv, hubVars,
           history
<1> QED BY <1>1, <1>2, <1>3, <1>4, <1>5 DEF OpInv

LEMMA OpLateCommit ==
    ASSUME TypeInv, OpInv, NEW n \in Nodes, LateCommit(n)
    PROVE  OpInv'
<1>1. RowInv'
    BY DEF OpInv, RowInv, Untouched, LateInv, LateCommit, CommitClaim, Final,
           TypeInv
<1>2. ClaimInv'
    BY DEF OpInv, ClaimInv, Untouched, LateInv, LateCommit, CommitClaim, NoOp,
           TypeInv
<1>3. LateInv'
    BY DEF OpInv, LateInv, LateCommit, CommitClaim, NoClaim, TypeInv, NetType
<1>4. JobInv'
    BY DEF OpInv, JobInv, LateCommit, CommitClaim, TypeInv, agentVars
<1>5. ResultInv'
    BY DEF OpInv, ResultInv, LateCommit, CommitClaim, TypeInv
<1> QED BY <1>1, <1>2, <1>3, <1>4, <1>5 DEF OpInv

LEMMA OpReportResult ==
    ASSUME TypeInv, OpInv, NEW m \in results, ReportResult(m)
    PROVE  OpInv'
<1>0. m.op \in OpIds /\ status[m.op] = "running"
    BY DEF OpInv, ResultInv, TypeInv, NetType
<1>a. /\ \A o \in OpIds : status'[o] = IF o = m.op THEN m.exec ELSE status[o]
      /\ results' = results \ {m}
      /\ UNCHANGED <<ops, runs, outcome>>
    BY <1>0 DEF ReportResult, TypeInv, HubType, history
<1>b. \A x \in results : x.op = m.op => x = m
  <2> SUFFICES ASSUME NEW x \in results, x.op = m.op PROVE x = m
      OBVIOUS
  <2>1. x.exec = m.exec
      BY DEF OpInv, ResultInv
  <2> QED BY <2>1 DEF TypeInv, NetType
<1>1. RowInv'
    BY DEF OpInv, RowInv, Untouched, ResultInv, ReportResult, Final, TypeInv,
           NetType, history
<1>2. ClaimInv'
    BY DEF OpInv, ClaimInv, Untouched, ResultInv, ReportResult, TypeInv, history
<1>3. LateInv'
    BY DEF OpInv, LateInv, ResultInv, ReportResult, TypeInv
<1>4. JobInv'
    BY DEF OpInv, JobInv, ReportResult, TypeInv, agentVars, history
<1>5. ResultInv'
    BY <1>0, <1>a, <1>b DEF OpInv, ResultInv, TypeInv, NetType
<1> QED BY <1>1, <1>2, <1>3, <1>4, <1>5 DEF OpInv

LEMMA OpReportLost ==
    ASSUME TypeInv, OpInv, NEW m \in results, ReportLost(m)
    PROVE  OpInv'
<1>1. RowInv'
    BY DEF OpInv, RowInv, Untouched, ReportLost, TypeInv, hubVars
<1>2. ClaimInv'
    BY DEF OpInv, ClaimInv, Untouched, ReportLost, TypeInv, hubVars
<1>3. LateInv'
    BY DEF OpInv, LateInv, ReportLost, TypeInv, hubVars
<1>4. JobInv'
    BY DEF OpInv, JobInv, ReportLost, TypeInv, hubVars, agentVars
<1>5. ResultInv'
    BY DEF OpInv, ResultInv, ReportLost, TypeInv, hubVars
<1> QED BY <1>1, <1>2, <1>3, <1>4, <1>5 DEF OpInv

LEMMA AbandonFacts ==
    ASSUME TypeInv, NEW n \in Nodes, Abandon(n)
    PROVE  /\ \A m \in Nodes : claim'[m] = IF m = n THEN NoClaim ELSE claim[m]
           /\ \A m \in Nodes : \/ late'[m] = late[m]
                               \/ m = n /\ late'[m] = claim[m]
<1>1. \A m \in Nodes : claim'[m] = IF m = n THEN NoClaim ELSE claim[m]
    BY DEF Abandon, TypeInv, NetType
<1>2. CASE late' = late
    BY <1>1, <1>2
<1>3. CASE late' = [late EXCEPT ![n] = claim[n]]
    BY <1>1, <1>3 DEF TypeInv, NetType
<1> QED BY <1>2, <1>3 DEF Abandon

LEMMA OpClaimFails ==
    ASSUME TypeInv, OpInv, NEW n \in Nodes, ClaimFails(n)
    PROVE  OpInv'
<1>1. RowInv'
    BY DEF OpInv, RowInv, Untouched, ClaimFails, TypeInv, hubVars
<1>2. ClaimInv'
    BY DEF OpInv, ClaimInv, Untouched, ClaimFails, Abandon, NoClaim, TypeInv,
           hubVars
<1>3. LateInv'
  <2>1. Abandon(n) /\ UNCHANGED <<ops, status>>
      BY DEF ClaimFails, hubVars
  <2>2. \A m \in Nodes : claim[m].step = "commit" => claim[m].op # NoOp
      BY DEF TypeInv, Named, OpIds, NoOp
  <2> QED BY <2>1, <2>2, AbandonFacts DEF OpInv, LateInv, ClaimInv, NoClaim
<1>4. JobInv'
    BY DEF OpInv, JobInv, ClaimFails, Goto, TypeInv, hubVars
<1>5. ResultInv'
    BY DEF OpInv, ResultInv, ClaimFails, TypeInv, hubVars
<1> QED BY <1>1, <1>2, <1>3, <1>4, <1>5 DEF OpInv

LEMMA OpReportTimesOut ==
    ASSUME TypeInv, OpInv, NEW n \in Nodes, ReportTimesOut(n)
    PROVE  OpInv'
<1>1. RowInv'
    BY DEF OpInv, RowInv, Untouched, ReportTimesOut, TypeInv, hubVars, netVars,
           history
<1>2. ClaimInv'
    BY DEF OpInv, ClaimInv, Untouched, ReportTimesOut, TypeInv, hubVars, netVars,
           history
<1>3. LateInv'
    BY DEF OpInv, LateInv, ReportTimesOut, TypeInv, hubVars, netVars
<1>4. JobInv'
    BY DEF OpInv, JobInv, ReportTimesOut, Goto, TypeInv, hubVars, netVars, history
<1>5. ResultInv'
    BY DEF OpInv, ResultInv, ReportTimesOut, TypeInv, hubVars, netVars, history
<1> QED BY <1>1, <1>2, <1>3, <1>4, <1>5 DEF OpInv

LEMMA OpCrash ==
    ASSUME TypeInv, OpInv, NEW n \in Nodes, Crash(n)
    PROVE  OpInv'
<1>1. RowInv'
    BY DEF OpInv, RowInv, Untouched, Crash, TypeInv, hubVars
<1>2. ClaimInv'
    BY DEF OpInv, ClaimInv, Untouched, Crash, Abandon, NoClaim, TypeInv, hubVars
<1>3. LateInv'
  <2>1. Abandon(n) /\ UNCHANGED <<ops, status>>
      BY DEF Crash, hubVars
  <2>2. \A m \in Nodes : claim[m].step = "commit" => claim[m].op # NoOp
      BY DEF TypeInv, Named, OpIds, NoOp
  <2> QED BY <2>1, <2>2, AbandonFacts DEF OpInv, LateInv, ClaimInv, NoClaim
<1>4. JobInv'
    BY DEF OpInv, JobInv, Crash, Goto, TypeInv, AgentType, hubVars
<1>5. ResultInv'
    BY DEF OpInv, ResultInv, Crash, TypeInv, hubVars
<1> QED BY <1>1, <1>2, <1>3, <1>4, <1>5 DEF OpInv

LEMMA OpEdit ==
    ASSUME OpInv, NEW form \in Forms, NEW approval \in BOOLEAN,
           EditTemplate(form, approval)
    PROVE  OpInv'
BY DEF OpInv, RowInv, ClaimInv, LateInv, JobInv, ResultInv, Untouched, EditTemplate,
       agentVars, netVars, history

LEMMA OpNext ==
    ASSUME TypeInv, OpInv, Next
    PROVE  OpInv'
<1>1. ASSUME NEW n \in Nodes, NEW ticket \in BOOLEAN, CreateOperation(n, ticket)
      PROVE  OpInv'
  <2> DEFINE op   == [node |-> n, form |-> template.form,
                      required |-> template.approval, ticket |-> ticket]
             exec == IF template.approval /\ ~ticket THEN "pending" ELSE "approved"
  <2>1. /\ op \in Row /\ exec \in {"pending", "approved"}
        /\ exec = "approved" => (op.required => op.ticket)
      BY DEF TypeInv, HubType, Row
  <2>2. Enqueue(op, exec)
      BY <1>1 DEF CreateOperation
  <2> HIDE DEF op, exec
  <2> QED BY <2>1, <2>2, OpEnqueue
<1>2. ASSUME NEW n \in Nodes, NEW form \in Forms, PostSwitchOperation(n, form)
      PROVE  OpInv'
  <2> DEFINE op == [node |-> n, form |-> form, required |-> FALSE, ticket |-> FALSE]
  <2>1. op \in Row /\ (op.required => op.ticket)
      BY DEF Row
  <2>2. Enqueue(op, "approved")
      BY <1>2 DEF PostSwitchOperation
  <2> HIDE DEF op
  <2> QED BY <2>1, <2>2, OpEnqueue
<1>3. ASSUME NEW n \in Nodes, Agent(n) PROVE OpInv'
    BY <1>3, OpStart, OpPoll, OpClaimNothing, OpRunCommand, OpRefuseCommand,
       OpCommandEnds, OpReported DEF Agent
<1>4. ASSUME NEW n \in Nodes, Hub(n) \/ Late(n) PROVE OpInv'
    BY <1>4, OpClaimSelect, OpClaimCommit, OpLateSelect, OpLateCommit DEF Hub, Late
<1>5. ASSUME NEW n \in Nodes, ClaimFails(n) \/ ReportTimesOut(n) \/ Crash(n)
      PROVE  OpInv'
    BY <1>5, OpClaimFails, OpReportTimesOut, OpCrash
<1> QED BY <1>1, <1>2, <1>3, <1>4, <1>5, OpEdit, OpReportResult, OpReportLost
        DEF Next, Result

LEMMA OpStutter == OpInv /\ UNCHANGED vars => OpInv'
BY DEF OpInv, RowInv, ClaimInv, LateInv, JobInv, ResultInv, Untouched,
       vars, hubVars, agentVars, netVars, history

LEMMA OpAlways == Spec => [](TypeInv /\ OpInv)
<1>1. TypeInv /\ OpInv /\ [Next]_vars => OpInv'
    BY OpNext, OpStutter
<1> QED BY <1>1, OpInit, TypeAlways, PTL DEF Spec

-----------------------------------------------------------------------------
(***************************************************************************)
(* What follows.                                                           *)
(***************************************************************************)

\* However claims, answers and reports are lost, delayed or retried, and
\* whenever agents restart, no operation's command is started twice
\* (AtMostOnce; claim_next_node_operation, sync_pending_operations).
THEOREM CommandsRunAtMostOnce == Spec => []AtMostOnce
<1>1. TypeInv /\ OpInv => AtMostOnce
    BY DEF OpInv, RowInv, AtMostOnce
<1> QED BY <1>1, OpAlways, PTL

\* What runs was approved, or needed no approval, when it was created, and
\* runs on its own node (RunsAsRequested; create_node_operation,
\* enqueue_post_switch_operations, claim_next_node_operation).
THEOREM CommandsRunAsRequested == Spec => []RunsAsRequested
<1>1. ASSUME TypeInv, OpInv PROVE RunsAsRequested
  <2>1. Len(ops) \in Nat
      BY <1>1 DEF TypeInv, TableType
  <2>2. ASSUME NEW o \in OpIds, runs[o] > 0
        PROVE  o <= Len(ops) /\ (ops[o].required => ops[o].ticket)
      BY <1>1, <2>1, <2>2 DEF OpInv, RowInv, Untouched, OpIds
  <2>3. \A n \in Nodes : pc[n] = "run" => ops[job[n]].node = n
      BY <1>1 DEF OpInv, JobInv
  <2> QED BY <2>2, <2>3 DEF RunsAsRequested
<1> QED BY <1>1, OpAlways, PTL

\* A recorded result tells how the command really ended (ResultIsReal;
\* classify_operation_error, report_node_operation_result).
THEOREM ResultsAreReal == Spec => []ResultIsReal
<1>1. ASSUME TypeInv, OpInv PROVE ResultIsReal
  <2> SUFFICES ASSUME NEW o \in OpIds, status[o] \in Final
               PROVE  ResultIsReal!(o)!2
      BY DEF ResultIsReal
  <2>1. /\ outcome[o] \in Endings
        /\ status[o] = ClassifyEnding(outcome[o])
        /\ outcome[o] = "success" => runs[o] = 1
      BY <1>1 DEF OpInv, RowInv, TypeInv, PastType
  <2>2. status[o] = "success" <=> outcome[o] = "success"
      BY <2>1, ClassifyFacts
  <2> QED BY <2>1, <2>2 DEF Endings
<1> QED BY <1>1, OpAlways, PTL

\* Once recorded, a result is never replaced, although nothing in
\* report_node_operation_result checks what it overwrites (ResultStays).
THEOREM ResultsStay == Spec => ResultStays
<1> DEFINE Stay == \A o \in OpIds : status[o] \in Final => status'[o] = status[o]
<1>1. ASSUME TypeInv, OpInv, Next PROVE Stay
  <2>1. ASSUME NEW op, NEW exec, Enqueue(op, exec) PROVE Stay
    <3>1. Len(ops) \in Nat /\ Len(ops) < MaxOps
        BY <1>1, <2>1, OperationsAssumption DEF TypeInv, TableType, Enqueue
    <3>2. Len(ops) + 1 \in OpIds
        BY <3>1, OperationsAssumption DEF OpIds
    <3>3. status[Len(ops) + 1] = "none"
        BY <1>1, <3>1, <3>2 DEF OpInv, RowInv
    <3>4. status' = [status EXCEPT ![Len(ops) + 1] = exec]
        BY <2>1 DEF Enqueue
    <3> QED BY <1>1, <3>2, <3>3, <3>4 DEF Final, TypeInv, HubType
  <2>2. ASSUME NEW n \in Nodes, Hub(n) \/ Late(n) PROVE Stay
      BY <1>1, <2>2 DEF Hub, Late, ClaimSelect, ClaimCommit, LateSelect, LateCommit,
             CommitClaim, hubVars, OpInv, ClaimInv, LateInv, Final, TypeInv, HubType
  <2>3. ASSUME NEW m \in results, ReportResult(m) PROVE Stay
      BY <1>1, <2>3 DEF ReportResult, OpInv, ResultInv, Final, TypeInv, HubType
  <2>4. ASSUME UNCHANGED status PROVE Stay
      BY <2>4
  <2>5. ASSUME NEW n \in Nodes,
               Agent(n) \/ ClaimFails(n) \/ ReportTimesOut(n) \/ Crash(n)
        PROVE  UNCHANGED status
      BY <2>5 DEF Agent, Start, Poll, ClaimNothing, RunCommand, RefuseCommand,
             CommandEnds, Reported, ClaimFails, ReportTimesOut, Crash, hubVars
  <2>6. ASSUME NEW form, NEW approval, EditTemplate(form, approval)
        PROVE  UNCHANGED status
      BY <2>6 DEF EditTemplate
  <2>7. ASSUME NEW m \in results, ReportLost(m) PROVE UNCHANGED status
      BY <2>7 DEF ReportLost, hubVars
  <2> HIDE DEF Stay
  <2> QED BY <1>1, <2>1, <2>2, <2>3, <2>4, <2>5, <2>6, <2>7
          DEF Next, Result, CreateOperation, PostSwitchOperation
<1>2. ASSUME UNCHANGED vars PROVE Stay
    BY <1>2 DEF vars, hubVars
<1>3. TypeInv /\ OpInv /\ [Next]_vars => [Stay]_vars
    BY <1>1, <1>2
<1> QED BY <1>3, OpAlways, PTL DEF Spec, ResultStays
=============================================================================
