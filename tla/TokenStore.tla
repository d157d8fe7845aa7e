----------------------------- MODULE TokenStore -----------------------------
(***************************************************************************)
(* The session of one node: registration, refresh and deletion at the hub  *)
(* (apps/hub-api/src/service.rs and store.rs), the store that keeps the    *)
(* tokens (apps/hub-api/src/token_store.rs, in Redis or in memory) and the *)
(* agent that lives on them (apps/node-agent/src/main.rs).                 *)
(*                                                                         *)
(* Pair i is the i-th access and refresh token issued.  A handler is a     *)
(* program of commands, each one step; it goes on when its client has      *)
(* given up, or is dropped.                                                *)
(***************************************************************************)
EXTENDS Naturals, Sequences, FiniteSets

CONSTANTS
    Handlers,     \* bound: handlers of the node's requests at one time
    MaxPairs,     \* bound: pairs issued until a deleted node's agent stays down
    MaxFaults     \* bound: crashes, lost requests and replies, sessions that
                  \* are about to expire or have expired

ASSUME TokensAssumption ==
    MaxPairs \in Nat /\ MaxFaults \in Nat

VARIABLES
    backend,     \* which store the hub runs with
    row,         \* the nodes row: bootstrap token unused, used, or row deleted
    issued,      \* number of pairs issued
    access,      \* pairs with an access lease
    refresh,     \* pairs with a refresh lease
    curAccess,   \* the node's current_access key
    curRefresh,  \* the node's current_refresh key
    handlers,    \* the hub's requests under way
    agent,       \* the agent: its tokens in memory and in the registration file
    upsets,      \* history: handlers that overlapped or were dropped
    lost,        \* history: a fault, or an administrator, has ended the session
    faults       \* counter, bounded

storeVars == <<issued, access, refresh, curAccess, curRefresh>>
vars      == <<backend, row, storeVars, handlers, agent, upsets, lost, faults>>

None == 0

\* Mutant of IssueCommands: the old leases are left to expire.
IssueOnTop ==
    IF backend = "memory" THEN <<"issue">>
    ELSE <<"set_access", "set_refresh", "set_current_access", "set_current_refresh">>

IssueCommands ==
    IF backend = "memory" THEN <<"issue">>
    ELSE <<"get_access", "get_refresh", "del_access", "del_refresh", "set_access",
           "set_refresh", "set_current_access", "set_current_refresh">>

\* Mutant of RevokeCommands: the node's keys are deleted before they are read.
RevokeUnread ==
    IF backend = "memory" THEN <<"revoke">>
    ELSE <<"del_current_access", "del_current_refresh", "get_access", "get_refresh",
           "del_access", "del_refresh">>

RevokeCommands ==
    IF backend = "memory" THEN <<"revoke">>
    ELSE <<"get_access", "get_refresh", "del_current_access", "del_current_refresh",
           "del_access", "del_refresh">>

\* register_node, refresh_node_token and delete_node.
Program(op) ==
    CASE op = "register" -> <<"check_node">> \o IssueCommands \o <<"save_node", "reply">>
      [] op = "refresh"  -> <<"check_lease">> \o IssueCommands \o <<"reply">>
      [] op = "delete"   -> <<"find_node">> \o RevokeCommands \o <<"delete_node", "reply">>

\* A handler: its operation, the command it comes to next, the refresh token of
\* its request, the current tokens it has read, the pair it issues, and whether
\* its client still waits.
Handler == [op: {"none", "register", "refresh", "delete"}, at: 1..11, token: Nat,
            oldAccess: Nat, oldRefresh: Nat, new: Nat,
            waiting: BOOLEAN]

NoHandler == [op |-> "none", at |-> 1, token |-> None, oldAccess |-> None,
              oldRefresh |-> None, new |-> None, waiting |-> FALSE]

TypeOK ==
    /\ backend \in {"redis", "memory"}
    /\ row \in {"pending", "registered", "gone"}
    /\ issued \in Nat
    /\ access \subseteq 1..issued /\ refresh \subseteq 1..issued
    /\ curAccess \in 0..issued /\ curRefresh \in 0..issued
    /\ handlers \in [Handlers -> Handler]
    /\ agent \in [pc: {"uninstalled", "registering", "down", "refreshing", "persist", "work"},
                  token: 0..issued, disk: 0..issued, access: 0..issued]
    /\ upsets \in Nat /\ lost \in BOOLEAN

\* create_node has stored the node with its bootstrap token.
Init ==
    /\ backend \in {"redis", "memory"}
    /\ row = "pending"
    /\ issued = 0 /\ access = {} /\ refresh = {}
    /\ curAccess = None /\ curRefresh = None
    /\ handlers = [i \in Handlers |-> NoHandler]
    /\ agent = [pc |-> "uninstalled", token |-> None, disk |-> None, access |-> None]
    /\ upsets = 0 /\ lost = FALSE /\ faults = 0

----------------------------------------------------------------------------
(* The hub.                                                                *)

Active(i)       == handlers[i].op # "none"
Command(i)      == Program(handlers[i].op)[handlers[i].at]
Doing(i, c)     == Active(i) /\ Command(i) = c
Advance(i, h)   == handlers' = [handlers EXCEPT ![i] = [h EXCEPT !.at = @ + 1]]
Proceed(i)      == Advance(i, handlers[i])
End(i)          == handlers' = [handlers EXCEPT ![i] = NoHandler]
OutsideHub      == UNCHANGED <<backend, agent, upsets, lost, faults>>

\* A request arrives; the slots are alike, so it takes a fixed one of the free.
Accept(i, op, token, waiting) ==
    /\ ~Active(i) /\ i = CHOOSE j \in Handlers : ~Active(j)
    /\ handlers' = [handlers EXCEPT ![i] = [NoHandler EXCEPT !.op = op, !.token = token,
                                                             !.waiting = waiting]]

\* The checks that come first; a refusal ends the handler with an error, which
\* its client, if it still waits, sees as a failed request.
CheckPasses(i) ==
    \/ Command(i) = "check_node"  /\ row = "pending"
    \/ Command(i) = "check_lease" /\ handlers[i].token \in refresh
    \/ Command(i) = "find_node"   /\ row # "gone"

Check(i) ==
    /\ Active(i) /\ Command(i) \in {"check_node", "check_lease", "find_node"}
    /\ CheckPasses(i)
    /\ Proceed(i)
    /\ upsets' = IF \E j \in Handlers \ {i} : handlers[j].at > 1 THEN upsets + 1 ELSE upsets
    /\ UNCHANGED <<backend, row, storeVars, agent, lost, faults>>

\* MemoryTokenStore: one write lock for the whole of it.
MemoryIssue(i) ==
    /\ Doing(i, "issue")
    /\ issued' = issued + 1
    /\ access' = (access \ {curAccess}) \cup {issued'}
    /\ refresh' = (refresh \ {curRefresh}) \cup {issued'}
    /\ curAccess' = issued' /\ curRefresh' = issued'
    /\ Advance(i, [handlers[i] EXCEPT !.new = issued'])
    /\ UNCHANGED row /\ OutsideHub

MemoryRevoke(i) ==
    /\ Doing(i, "revoke")
    /\ access' = access \ {curAccess} /\ refresh' = refresh \ {curRefresh}
    /\ curAccess' = None /\ curRefresh' = None
    /\ Proceed(i)
    /\ UNCHANGED <<row, issued>> /\ OutsideHub

\* RedisTokenStore: the commands of issue_tokens and revoke_tokens.
GetCurrent(i) ==
    /\ \/ /\ Doing(i, "get_access")
          /\ Advance(i, [handlers[i] EXCEPT !.oldAccess = curAccess])
       \/ /\ Doing(i, "get_refresh")
          /\ Advance(i, [handlers[i] EXCEPT !.oldRefresh = curRefresh])
    /\ UNCHANGED <<row, storeVars>> /\ OutsideHub

DelLease(i) ==
    /\ \/ /\ Doing(i, "del_access")
          /\ access' = access \ {handlers[i].oldAccess} /\ UNCHANGED refresh
          /\ Advance(i, [handlers[i] EXCEPT !.oldAccess = None])
       \/ /\ Doing(i, "del_refresh")
          /\ refresh' = refresh \ {handlers[i].oldRefresh} /\ UNCHANGED access
          /\ Advance(i, [handlers[i] EXCEPT !.oldRefresh = None])
    /\ UNCHANGED <<row, issued, curAccess, curRefresh>> /\ OutsideHub

\* Mutant of SetLease: the lease is written under a token other than the one
\* generated for it.
SetLeaseMisnamed(i) ==
    /\ Doing(i, "set_access")
    /\ access' = access \cup {issued + 1}
    /\ Proceed(i)
    /\ UNCHANGED <<row, issued, refresh, curAccess, curRefresh>> /\ OutsideHub

SetLease(i) ==
    /\ \/ /\ Doing(i, "set_access")
          /\ issued' = issued + 1
          /\ access' = access \cup {issued'} /\ UNCHANGED refresh
          /\ Advance(i, [handlers[i] EXCEPT !.new = issued'])
       \/ /\ Doing(i, "set_refresh")
          /\ refresh' = refresh \cup {handlers[i].new} /\ UNCHANGED <<issued, access>>
          /\ Proceed(i)
    /\ UNCHANGED <<row, curAccess, curRefresh>> /\ OutsideHub

SetCurrent(i) ==
    /\ \/ /\ Doing(i, "set_current_access")
          /\ curAccess' = handlers[i].new /\ UNCHANGED curRefresh
       \/ /\ Doing(i, "set_current_refresh")
          /\ curRefresh' = handlers[i].new /\ UNCHANGED curAccess
    /\ Proceed(i)
    /\ UNCHANGED <<row, issued, access, refresh>> /\ OutsideHub

DelCurrent(i) ==
    /\ \/ /\ Doing(i, "del_current_access")
          /\ curAccess' = None /\ UNCHANGED curRefresh
       \/ /\ Doing(i, "del_current_refresh")
          /\ curRefresh' = None /\ UNCHANGED curAccess
    /\ Proceed(i)
    /\ UNCHANGED <<row, issued, access, refresh>> /\ OutsideHub

\* save_node uses up the bootstrap token; it is an upsert, which brings back a
\* node deleted since it was read.
SaveNode(i) ==
    /\ Doing(i, "save_node")
    /\ row' = "registered"
    /\ Proceed(i)
    /\ UNCHANGED storeVars /\ OutsideHub

DeleteRow(i) ==
    /\ Doing(i, "delete_node")
    /\ row' = "gone"
    /\ Proceed(i)
    /\ UNCHANGED storeVars /\ OutsideHub

\* The handler ends and nobody hears of it.
EndUnheard(i) ==
    /\ Active(i) /\ ~handlers[i].waiting
    /\ \/ Command(i) = "reply"
       \/ Command(i) \in {"check_node", "check_lease", "find_node"} /\ ~CheckPasses(i)
    /\ End(i)
    /\ UNCHANGED <<row, storeVars>> /\ OutsideHub

HubStep(i) ==
    \/ Check(i) \/ MemoryIssue(i) \/ MemoryRevoke(i)
    \/ GetCurrent(i) \/ DelLease(i) \/ SetLease(i) \/ SetCurrent(i) \/ DelCurrent(i)
    \/ SaveNode(i) \/ DeleteRow(i) \/ EndUnheard(i)

\* delete_node: the administrator's request, which means the session to end.
DeleteNode(i) ==
    /\ row # "gone"
    /\ \A j \in Handlers : handlers[j].op # "delete"
    /\ Accept(i, "delete", None, FALSE)
    /\ lost' = TRUE
    /\ UNCHANGED <<backend, row, storeVars, agent, upsets, faults>>

----------------------------------------------------------------------------
(* The agent, and the operator who registers it.                           *)

OutsideAgent == UNCHANGED <<backend, row, storeVars>>

Heard(i)   == handlers[i].waiting /\ Active(i) /\ Command(i) = "reply"
Refused(i) == /\ handlers[i].waiting /\ Active(i)
              /\ Command(i) \in {"check_node", "check_lease"} /\ ~CheckPasses(i)

\* The registration file is written from the answer of /api/node/register.
Register(i) ==
    /\ agent.pc = "uninstalled"
    /\ Accept(i, "register", None, TRUE)
    /\ agent' = [agent EXCEPT !.pc = "registering"]
    /\ UNCHANGED <<upsets, lost, faults>> /\ OutsideAgent

RegisterAnswer(i) ==
    /\ agent.pc = "registering"
    /\ \/ Heard(i) /\ agent' = [agent EXCEPT !.pc = "down", !.disk = handlers[i].new]
       \/ Refused(i) /\ agent' = [agent EXCEPT !.pc = "uninstalled"]
    /\ End(i)
    /\ UNCHANGED <<upsets, lost, faults>> /\ OutsideAgent

\* refresh_session sends the refresh token it has.
SendRefresh(i, token) ==
    /\ Accept(i, "refresh", token, TRUE)
    /\ agent' = [agent EXCEPT !.pc = "refreshing", !.token = token, !.access = None]
    /\ UNCHANGED <<upsets, lost>> /\ OutsideAgent

\* main loads the registration file, then refreshes.
Start(i) ==
    /\ agent.pc = "down"
    /\ row = "gone" => issued < MaxPairs
    /\ SendRefresh(i, agent.disk)
    /\ UNCHANGED faults

\* The hub cannot be reached: the process ends and is started again.
StartFails == agent.pc = "down" /\ UNCHANGED vars

\* should_refresh: the session has five minutes left.
RenewSession(i) ==
    /\ agent.pc = "work"
    /\ faults < MaxFaults /\ faults' = faults + 1
    /\ SendRefresh(i, agent.token)

\* authorize_node: what a request with the agent's access token meets.
Authorized == agent.access \in access /\ row # "gone"

\* A request of the agent is refused with 401.
Rejected(i) ==
    /\ agent.pc = "work"
    /\ agent.access \notin access
    /\ SendRefresh(i, agent.token)
    /\ UNCHANGED faults

\* It is refused with 404, which is no reason to refresh: the process ends.
NodeMissing ==
    /\ agent.pc = "work"
    /\ agent.access \in access /\ ~Authorized
    /\ agent' = [agent EXCEPT !.pc = "down"]
    /\ UNCHANGED <<handlers, upsets, lost, faults>> /\ OutsideAgent

\* An answer with an error ends the process too.
RefreshAnswer(i) ==
    /\ agent.pc = "refreshing"
    /\ \/ Heard(i) /\ agent' = [agent EXCEPT !.pc = "persist", !.token = handlers[i].new,
                                             !.access = handlers[i].new]
       \/ Refused(i) /\ agent' = [agent EXCEPT !.pc = "down"]
    /\ End(i)
    /\ UNCHANGED <<upsets, lost, faults>> /\ OutsideAgent

\* Mutant of Persist: the new token is kept in memory only.
PersistForgotten ==
    /\ agent.pc = "persist"
    /\ agent' = [agent EXCEPT !.pc = "work"]
    /\ UNCHANGED <<handlers, upsets, lost, faults>> /\ OutsideAgent

Persist ==
    /\ agent.pc = "persist"
    /\ agent' = [agent EXCEPT !.pc = "work", !.disk = agent.token]
    /\ UNCHANGED <<handlers, upsets, lost, faults>> /\ OutsideAgent

\* The agent's process, or the operator's, ends: it is killed, cannot write its
\* file, or gives up on a request after 20 s.  The handler of a request it was
\* waiting for is dropped where it is, or goes on unheard.  The session is lost
\* when the new pair reaches nobody and the old one is, or will be, gone.
Interrupt ==
    /\ faults < MaxFaults /\ faults' = faults + 1
    /\ agent.pc \in {"registering", "refreshing", "persist", "work"}
    /\ agent' = [agent EXCEPT !.pc = IF @ = "registering" THEN "uninstalled" ELSE "down"]
    /\ \/ /\ \A i \in Handlers : ~handlers[i].waiting
          /\ lost' = (lost \/ agent.pc = "persist")
          /\ UNCHANGED <<handlers, upsets>>
       \/ \E i \in Handlers :
            /\ handlers[i].waiting
            /\ End(i)
            /\ upsets' = upsets + 1
            /\ lost' = (lost \/ IF handlers[i].op = "register" THEN row # "pending"
                                ELSE handlers[i].token \notin refresh)
       \/ \E i \in Handlers :
            /\ handlers[i].waiting
            /\ handlers' = [handlers EXCEPT ![i].waiting = FALSE]
            /\ lost' = TRUE
            /\ UNCHANGED upsets
    /\ OutsideAgent

\* A handler nobody waits for, delete_node or one the agent gave up on, ends where
\* it is: a command fails and the error is passed up, or the hub stops.  A second
\* handler that the hub takes with it is a second fault.
Abandon(i) ==
    /\ faults < MaxFaults /\ faults' = faults + 1
    /\ Active(i) /\ ~handlers[i].waiting
    /\ End(i)
    /\ upsets' = upsets + 1
    /\ UNCHANGED <<backend, row, storeVars, agent, lost>>

\* The hub is restarted and its memory store, which keeps nothing, is empty; the
\* agent's request fails.
HubRestart ==
    /\ faults < MaxFaults /\ faults' = faults + 1
    /\ backend = "memory"
    /\ access' = {} /\ refresh' = {} /\ curAccess' = None /\ curRefresh' = None
    /\ handlers' = [i \in Handlers |-> NoHandler]
    /\ agent' = [agent EXCEPT !.pc = CASE @ = "registering" -> "uninstalled"
                                      [] @ = "refreshing"  -> "down"
                                      [] OTHER             -> @]
    /\ lost' = (lost \/ row # "pending")
    /\ UNCHANGED <<backend, row, issued, upsets>>

\* The 24 hours of a pair in Redis are over: nobody has refreshed it.
Expire(p) ==
    /\ faults < MaxFaults /\ faults' = faults + 1
    /\ backend = "redis"
    /\ access' = access \ {p} /\ refresh' = refresh \ {p}
    /\ curAccess' = IF curAccess = p THEN None ELSE curAccess
    /\ curRefresh' = IF curRefresh = p THEN None ELSE curRefresh
    /\ lost' = (lost \/ p >= agent.disk)
    /\ UNCHANGED <<backend, row, issued, handlers, agent, upsets>>

AgentStep ==
    \/ \E i \in Handlers : RegisterAnswer(i) \/ Start(i) \/ Rejected(i) \/ RefreshAnswer(i)
    \/ NodeMissing \/ Persist

Next ==
    \/ \E i \in Handlers : HubStep(i) \/ DeleteNode(i) \/ Register(i) \/ RenewSession(i)
    \/ AgentStep \/ StartFails
    \/ Interrupt \/ HubRestart \/ \E i \in Handlers : Abandon(i)
    \/ \E p \in access \cup refresh : Expire(p)

\* Redis and PostgreSQL answer, and systemd restarts the agent.
Spec == /\ Init /\ [][Next]_vars
        /\ \A i \in Handlers : WF_vars(HubStep(i))
        /\ WF_vars(AgentStep)

----------------------------------------------------------------------------
(* Properties.                                                             *)

\* What the stores promise, and the mapping: the pairs whose refresh token is
\* still to be granted are in the hands of handlers.
Leases == INSTANCE TokenLeases WITH
    owed  <- {handlers[i].new : i \in {j \in Handlers : Doing(j, "set_refresh")}},
    slack <- upsets

\* KeepsPromise: both stores implement TokenLeases.  In Redis, where issuing
\* and revoking are up to eight commands that other handlers interleave with,
\* each overlap or dropped handler leaves at most one stray token behind, and a
\* token that died is never written back.
KeepsPromise == Leases!Spec

\* DeletedLeavesNothing: once delete_node has removed a node none of its tokens
\* is live, unless another handler of the node overlapped or was dropped.
DeletedLeavesNothing == row = "gone" /\ upsets = 0 => access = {} /\ refresh = {}

Working == agent.pc = "work" /\ Authorized

\* AgentRecovers: an agent that was registered always gets back to an accepted
\* session, after restarts, rejected requests and requests dropped before the
\* old refresh token is deleted.  Only these end a session for good: an answer
\* that is lost or not persisted, an agent that gives up on a handler that goes
\* on, an expired pair, a hub that restarts with the memory store, a deleted node.
AgentRecovers ==
    []<>(Working \/ lost \/ agent.pc \in {"uninstalled", "registering"})

=============================================================================
