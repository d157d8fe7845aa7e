--------------------------- MODULE NodeOperations ---------------------------
(***************************************************************************)
(* Templated operations on nodes: an administrator (create_node_operation) *)
(* or the failover worker (enqueue_post_switch_operations) queues one, the *)
(* node's agent claims it from the hub, runs its command and reports the   *)
(* result (apps/hub-api/src/service.rs and store.rs,                       *)
(* apps/node-agent/src/main.rs, apps/failover-worker/src/main.rs).         *)
(*                                                                         *)
(* Operations are numbered in the order of created_at.  They all use one   *)
(* template, which administrators may edit.  A set of parameters fits some *)
(* forms of the template and not others: an operation's form is the one    *)
(* its parameters were written for.                                        *)
(***************************************************************************)
EXTENDS Naturals, Sequences

CONSTANTS
    Nodes,       \* the nodes, each with its agent
    Forms,       \* forms the template can take
    MaxOps,      \* bound: operations created
    MaxEdits,    \* bound: edits of the template
    MaxFaults    \* bound: failed requests and crashes

ASSUME OperationsAssumption ==
    /\ MaxOps \in Nat
    /\ MaxEdits \in Nat
    /\ MaxFaults \in Nat
    /\ Forms # {}

VARIABLES
    template,  \* operation_templates: its form and approval_required
    ops,       \* node_operations: node, form, and whether it needed and had approval
    status,    \* node_operations.exec_status
    pc,        \* where each agent is in sync_pending_operations
    job,       \* the operation each agent works on
    claim,     \* the claim request each agent waits for, as its handler
    late,      \* claim handlers whose agent gave up, one for each node
    results,   \* result reports in flight or being handled: [op, exec]
    runs,      \* history: how often the command of each operation was started
    outcome,   \* history: how the command really ended
    lost,      \* history: operations that a fault, or an edit, has stranded
    edits, faults  \* counters, bounded

hubVars   == <<template, ops, status>>
agentVars == <<pc, job>>
netVars   == <<claim, late, results>>
history   == <<runs, outcome, lost>>
vars      == <<hubVars, agentVars, netVars, history, edits, faults>>

OpIds   == 1..MaxOps
NoOp    == 0
Final   == {"success", "failed", "timeout"}
Status  == {"none", "pending", "approved", "running"} \cup Final

\* How a command can end: it succeeds, fails, fails with the words "timed
\* out" in its output, or is killed at the template's time limit.
Endings == {"success", "failed", "failed saying timed out", "timeout"}

\* A claim handler: there is none, or it is about to select, holds the lock of
\* op, or has answered with op (NoOp: nothing to do), which renders or not.
Claim   == [step: {"idle", "select", "commit", "replied"}, op: OpIds \cup {NoOp},
            renders: BOOLEAN]
NoClaim == [step |-> "idle", op |-> NoOp, renders |-> FALSE]

TypeOK ==
    /\ template \in [form: Forms, approval: BOOLEAN]
    /\ ops \in Seq([node: Nodes, form: Forms, required: BOOLEAN, ticket: BOOLEAN])
    /\ Len(ops) <= MaxOps
    /\ status \in [OpIds -> Status]
    /\ pc \in [Nodes -> {"down", "poll", "claiming", "run", "report"}]
    /\ job \in [Nodes -> OpIds \cup {NoOp}]
    /\ claim \in [Nodes -> Claim]
    /\ late \in [Nodes -> Claim]
    /\ results \in SUBSET [op: OpIds, exec: Final]
    /\ runs \in [OpIds -> Nat]
    /\ outcome \in [OpIds -> Endings \cup {"none"}]
    /\ lost \in SUBSET OpIds
    /\ edits \in 0..MaxEdits
    /\ faults \in 0..MaxFaults

Init ==
    /\ template \in [form: Forms, approval: BOOLEAN]
    /\ ops = <<>>
    /\ status = [o \in OpIds |-> "none"]
    /\ pc = [n \in Nodes |-> "down"]
    /\ job = [n \in Nodes |-> NoOp]
    /\ claim = [n \in Nodes |-> NoClaim]
    /\ late = [n \in Nodes |-> NoClaim]
    /\ results = {}
    /\ runs = [o \in OpIds |-> 0]
    /\ outcome = [o \in OpIds |-> "none"]
    /\ lost = {}
    /\ edits = 0
    /\ faults = 0

Fault == faults < MaxFaults /\ faults' = faults + 1

-----------------------------------------------------------------------------
(***************************************************************************)
(* Queueing operations and editing the template.                           *)
(***************************************************************************)

Enqueue(op, exec) ==
    /\ Len(ops) < MaxOps
    /\ ops' = Append(ops, op)
    /\ status' = [status EXCEPT ![Len(ops) + 1] = exec]
    /\ UNCHANGED <<template, agentVars, netVars, history, edits, faults>>

\* create_node_operation: the parameters must render; a template that needs
\* approval leaves an operation without a ticket pending, for good.
CreateOperation(n, ticket) ==
    Enqueue([node |-> n, form |-> template.form,
             required |-> template.approval, ticket |-> ticket],
            IF template.approval /\ ~ticket THEN "pending" ELSE "approved")

\* enqueue_post_switch_operations: templates that need approval are skipped,
\* the parameters are not looked at.
PostSwitchOperation(n, form) ==
    /\ ~template.approval
    /\ Enqueue([node |-> n, form |-> form, required |-> FALSE, ticket |-> FALSE],
               "approved")

\* update_operation_template, or create_operation_template under a name that
\* exists: operations already queued are not looked at.
EditTemplate(form, approval) ==
    /\ edits < MaxEdits
    /\ edits' = edits + 1
    /\ template' = [form |-> form, approval |-> approval]
    /\ UNCHANGED <<ops, status, agentVars, netVars, history, faults>>

-----------------------------------------------------------------------------
(***************************************************************************)
(* The hub's claim transaction.                                            *)
(***************************************************************************)

\* Operations whose row a claim transaction has locked.
Locked == {o \in OpIds : \E n \in Nodes : \E h \in {claim[n], late[n]} :
                              h.step = "commit" /\ h.op = o}

\* Mutant of Claimable: operations waiting for approval are handed out too.
ClaimableUnapproved(n) ==
    {o \in 1..Len(ops) \ Locked :
        ops[o].node = n /\ status[o] \in {"pending", "approved"}}

\* Mutant of Claimable: failed operations are tried again.
ClaimableAgain(n) ==
    {o \in 1..Len(ops) \ Locked :
        ops[o].node = n /\ status[o] \in {"approved", "failed"}}

\* What a claim of node n may select: approved and not locked (SKIP LOCKED).
Claimable(n) ==
    {o \in 1..Len(ops) \ Locked : ops[o].node = n /\ status[o] = "approved"}

\* SELECT ... ORDER BY created_at LIMIT 1 FOR UPDATE: the oldest one, as a set
\* of at most one, is locked and the template is read with it.
Oldest(n) == {o \in Claimable(n) : \A q \in Claimable(n) : o <= q}
Lock(o)   == [step |-> "commit", op |-> o, renders |-> ops[o].form = template.form]

\* Mutant of CommitClaim: the row is not marked.
CommitClaimUnmarked(o) == UNCHANGED status

\* UPDATE ... SET exec_status = 'running' and COMMIT.
CommitClaim(o) == status' = [status EXCEPT ![o] = "running"]

\* The handler of the claim an agent waits for makes its next step.  An
\* operation that does not render is answered with an error after the commit.
ClaimSelect(n) ==
    /\ claim[n].step = "select"
    /\ \/ /\ Claimable(n) = {}
          /\ claim' = [claim EXCEPT ![n] = [NoClaim EXCEPT !.step = "replied"]]
       \/ \E o \in Oldest(n) : claim' = [claim EXCEPT ![n] = Lock(o)]
    /\ UNCHANGED <<hubVars, agentVars, late, results, history, edits, faults>>

ClaimCommit(n) ==
    /\ claim[n].step = "commit"
    /\ CommitClaim(claim[n].op)
    /\ claim' = [claim EXCEPT ![n].step = "replied"]
    /\ lost' = IF claim[n].renders THEN lost ELSE lost \cup {claim[n].op}
    /\ UNCHANGED <<template, ops, agentVars, late, results, runs, outcome, edits,
                   faults>>

\* The same for a handler nobody waits for: what it claims nobody will run.
LateSelect(n) ==
    /\ late[n].step = "select"
    /\ \/ Claimable(n) = {} /\ late' = [late EXCEPT ![n] = NoClaim]
       \/ \E o \in Oldest(n) : late' = [late EXCEPT ![n] = Lock(o)]
    /\ UNCHANGED <<hubVars, agentVars, claim, results, history, edits, faults>>

LateCommit(n) ==
    /\ late[n].step = "commit"
    /\ CommitClaim(late[n].op)
    /\ late' = [late EXCEPT ![n] = NoClaim]
    /\ lost' = lost \cup {late[n].op}
    /\ UNCHANGED <<template, ops, agentVars, claim, results, runs, outcome, edits,
                   faults>>

\* report_node_operation_result: the row takes the reported status, whatever
\* it was before.
ReportResult(m) ==
    /\ m \in results
    /\ status' = [status EXCEPT ![m.op] = m.exec]
    /\ results' = results \ {m}
    /\ UNCHANGED <<template, ops, agentVars, claim, late, history, edits, faults>>

-----------------------------------------------------------------------------
(***************************************************************************)
(* A node's agent.                                                         *)
(***************************************************************************)

Goto(n, l) == pc' = [pc EXCEPT ![n] = l]

Start(n) ==
    /\ pc[n] = "down"
    /\ Goto(n, "poll")
    /\ UNCHANGED <<hubVars, job, netVars, history, edits, faults>>

Poll(n) ==
    /\ pc[n] = "poll"
    /\ claim' = [claim EXCEPT ![n] = [NoClaim EXCEPT !.step = "select"]]
    /\ Goto(n, "claiming")
    /\ UNCHANGED <<hubVars, job, late, results, history, edits, faults>>

\* Nothing to do, or an error: this round of the loop is over.
ClaimNothing(n) ==
    /\ pc[n] = "claiming"
    /\ claim[n].step = "replied"
    /\ ~claim[n].renders
    /\ claim' = [claim EXCEPT ![n] = NoClaim]
    /\ Goto(n, "poll")
    /\ UNCHANGED <<hubVars, job, late, results, history, edits, faults>>

\* An operation has arrived: its command is started.
RunCommand(n) ==
    /\ pc[n] = "claiming"
    /\ claim[n].step = "replied"
    /\ claim[n].renders
    /\ claim' = [claim EXCEPT ![n] = NoClaim]
    /\ job' = [job EXCEPT ![n] = claim[n].op]
    /\ runs' = [runs EXCEPT ![claim[n].op] = @ + 1]
    /\ Goto(n, "run")
    /\ UNCHANGED <<hubVars, late, results, outcome, lost, edits, faults>>

\* Mutant of ClassifyEnding: whatever printed something has succeeded.
ClassifyEndingLoose(e) ==
    IF e = "timeout" THEN "timeout" ELSE IF e = "failed" THEN "failed" ELSE "success"

\* Mutant of ClassifyEnding: errors are passed on unclassified.
ClassifyEndingRaw(e) == e

\* classify_operation_error: an error that mentions "timed out" is a timeout.
ClassifyEnding(e) ==
    IF e \in {"timeout", "failed saying timed out"} THEN "timeout" ELSE e

\* Mutant of CommandEnds: an error ends the round before it is reported.
CommandEndsUnreported(n, e) ==
    /\ pc[n] = "run"
    /\ outcome' = [outcome EXCEPT ![job[n]] = e]
    /\ results' = IF e # "success" THEN results
                  ELSE results \cup {[op |-> job[n], exec |-> ClassifyEnding(e)]}
    /\ Goto(n, "report")
    /\ UNCHANGED <<hubVars, job, claim, late, runs, lost, edits, faults>>

\* The command ends and its result is posted.
CommandEnds(n, e) ==
    /\ pc[n] = "run"
    /\ outcome' = [outcome EXCEPT ![job[n]] = e]
    /\ results' = results \cup {[op |-> job[n], exec |-> ClassifyEnding(e)]}
    /\ Goto(n, "report")
    /\ UNCHANGED <<hubVars, job, claim, late, runs, lost, edits, faults>>

\* The operation wants another user: it is reported failed and not run.
RefuseCommand(n) ==
    /\ pc[n] = "claiming"
    /\ claim[n].step = "replied"
    /\ claim[n].renders
    /\ claim' = [claim EXCEPT ![n] = NoClaim]
    /\ job' = [job EXCEPT ![n] = claim[n].op]
    /\ outcome' = [outcome EXCEPT ![claim[n].op] = "failed"]
    /\ results' = results \cup {[op |-> claim[n].op, exec |-> "failed"]}
    /\ Goto(n, "report")
    /\ UNCHANGED <<hubVars, late, runs, lost, edits, faults>>

\* The report was handled, or was lost: the agent asks for more work.  It
\* never posts a result again.
Reported(n) ==
    /\ pc[n] = "report"
    /\ \A m \in results : m.op # job[n]
    /\ job' = [job EXCEPT ![n] = NoOp]
    /\ Goto(n, "poll")
    /\ UNCHANGED <<hubVars, netVars, history, edits, faults>>

-----------------------------------------------------------------------------
(***************************************************************************)
(* Faults.                                                                 *)
(***************************************************************************)

\* What becomes of a claim nobody waits for any more: its handler is dropped,
\* with its transaction, or goes on late.  An answer that is lost strands its
\* operation.
Abandon(n) ==
    /\ claim' = [claim EXCEPT ![n] = NoClaim]
    /\ \/ UNCHANGED late
       \/ /\ claim[n].step \in {"select", "commit"}
          /\ late[n] = NoClaim
          /\ late' = [late EXCEPT ![n] = claim[n]]

Stranded(n) == {o \in {claim[n].op} \ {NoOp} : claim[n].step = "replied"}

\* A claim gets no answer in time, or none that can be read.
ClaimFails(n) ==
    /\ pc[n] = "claiming"
    /\ Goto(n, "poll")
    /\ Fault
    /\ Abandon(n)
    /\ lost' = lost \cup Stranded(n)
    /\ UNCHANGED <<hubVars, job, results, runs, outcome, edits>>

\* The agent gives up on a report whose handler is still to run.
ReportTimesOut(n) ==
    /\ pc[n] = "report"
    /\ job' = [job EXCEPT ![n] = NoOp]
    /\ Goto(n, "poll")
    /\ Fault
    /\ UNCHANGED <<hubVars, netVars, history, edits>>

\* A report never reaches the database.
ReportLost(m) ==
    /\ m \in results
    /\ results' = results \ {m}
    /\ lost' = lost \cup {m.op}
    /\ Fault
    /\ UNCHANGED <<hubVars, agentVars, claim, late, runs, outcome, edits>>

\* The agent process ends, and with it the command it runs.
Crash(n) ==
    /\ pc[n] # "down"
    /\ Goto(n, "down")
    /\ Fault
    /\ Abandon(n)
    /\ lost' = lost \cup Stranded(n) \cup (IF pc[n] = "run" THEN {job[n]} ELSE {})
    /\ job' = [job EXCEPT ![n] = NoOp]
    /\ UNCHANGED <<hubVars, results, runs, outcome, edits>>

-----------------------------------------------------------------------------
Agent(n) ==
    \/ Start(n) \/ Poll(n) \/ ClaimNothing(n) \/ RunCommand(n) \/ RefuseCommand(n)
    \/ \E e \in Endings : CommandEnds(n, e)
    \/ Reported(n)

Hub(n)  == ClaimSelect(n) \/ ClaimCommit(n)
Late(n) == LateSelect(n) \/ LateCommit(n)

Result == \E m \in results : ReportResult(m)

Next ==
    \/ \E n \in Nodes : \/ \E ticket \in BOOLEAN : CreateOperation(n, ticket)
                        \/ \E form \in Forms : PostSwitchOperation(n, form)
                        \/ Agent(n) \/ Hub(n) \/ Late(n)
                        \/ ClaimFails(n) \/ ReportTimesOut(n) \/ Crash(n)
    \/ \E form \in Forms, approval \in BOOLEAN : EditTemplate(form, approval)
    \/ Result
    \/ \E m \in results : ReportLost(m)

Spec == Init /\ [][Next]_vars

\* Agents are restarted and every command has a time limit; handlers that are
\* not dropped come to an end.
Fairness == /\ \A n \in Nodes : WF_vars(Agent(n)) /\ WF_vars(Hub(n))
                                /\ WF_vars(Late(n))
            /\ WF_vars(Result)

FairSpec == Spec /\ Fairness

-----------------------------------------------------------------------------
(***************************************************************************)
(* Properties.                                                             *)
(***************************************************************************)

\* However claims, answers and reports are lost, delayed or retried, and
\* whenever the agent restarts, no operation's command is started twice
\* (claim_next_node_operation hands an operation out once).
AtMostOnce == \A o \in OpIds : runs[o] <= 1

\* A command that was started is that of an operation which, when it was
\* created, needed no approval or had a ticket; it runs on the node it was
\* meant for.
RunsAsRequested ==
    /\ \A o \in OpIds : runs[o] > 0 =>
        o <= Len(ops) /\ (ops[o].required => ops[o].ticket)
    /\ \A n \in Nodes : pc[n] = "run" => ops[job[n]].node = n

\* What the hub records is what happened: an operation is shown as successful
\* exactly if its command was started and succeeded, and as finished only if
\* its command ended or was refused (sync_pending_operations,
\* report_node_operation_result).
ResultIsReal ==
    \A o \in OpIds : status[o] \in Final =>
        /\ outcome[o] # "none"
        /\ status[o] = "success" <=> outcome[o] = "success" /\ runs[o] = 1

\* A recorded result stays, although report_node_operation_result writes
\* without looking at the status: no late claim or report can replace it.
ResultStays ==
    [][\A o \in OpIds : status[o] \in Final => status'[o] = status[o]]_vars

\* Every approved operation ends with a recorded result, unless a crash, a
\* lost claim answer, a lost report or parameters that no longer render have
\* stranded it in 'running'.
Finishes ==
    \A o \in OpIds :
        status[o] = "approved" ~> status[o] \in Final \/ o \in lost
=============================================================================
