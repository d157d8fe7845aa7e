-------------------------- MODULE TokenStoreProofs --------------------------
(***************************************************************************)
(* What is true of a node's tokens for any number of handlers and any      *)
(* bounds: their types, that both stores implement TokenLeases, and that   *)
(* a deleted node has no token left.                                       *)
(***************************************************************************)
EXTENDS TokenStore, FiniteSetTheorems, TLAPS

-----------------------------------------------------------------------------
(***************************************************************************)
(* Types.                                                                  *)
(***************************************************************************)
Issuing(h) == h.op \in {"register", "refresh"}

\* The tokens of both kinds, and what a handler has read of them.
Kinds      == {"access", "refresh"}
Live(k)    == IF k = "access" THEN access ELSE refresh
Current(k) == IF k = "access" THEN curAccess ELSE curRefresh
Old(k, h)  == IF k = "access" THEN h.oldAccess ELSE h.oldRefresh

\* Where a program handles the tokens of a kind: the command that reads the
\* current one, and when issuing the ones that delete its lease, write the new
\* lease and make that current; when deleting, the ones that delete the key of
\* the current token and its lease.
Spots(k) ==
    IF backend = "memory"
    THEN [get |-> 2, free |-> 2, lease |-> 2, current |-> 2, gone |-> 2, freed |-> 2]
    ELSE IF k = "access"
    THEN [get |-> 2, free |-> 4, lease |-> 6, current |-> 8, gone |-> 4, freed |-> 6]
    ELSE [get |-> 3, free |-> 5, lease |-> 7, current |-> 9, gone |-> 5, freed |-> 7]
ReplyAt(op) ==
    IF backend = "memory" THEN (IF op = "refresh" THEN 3 ELSE 4)
    ELSE CASE op = "register" -> 11 [] op = "refresh" -> 10 [] op = "delete" -> 9

\* A handler holds what it has read until it has deleted that.
Holding(k, h) ==
    Old(k, h) # None => /\ backend = "redis" /\ h.at > Spots(k).get
                        /\ h.at <= (IF Issuing(h) THEN Spots(k).free ELSE Spots(k).freed)

Sound(h) ==
    /\ h.op = "none" => h = NoHandler
    /\ h.op # "none" => h.at <= ReplyAt(h.op)
    /\ h.waiting => Issuing(h)
    /\ \A k \in Kinds : Holding(k, h)
    /\ {h.token, h.oldAccess, h.oldRefresh, h.new} \subseteq 0..issued
    /\ Issuing(h) /\ h.at > Spots("access").lease => h.new \in 1..issued

BaseType    == /\ backend \in {"redis", "memory"}
               /\ row \in {"pending", "registered", "gone"}
               /\ upsets \in Nat /\ lost \in BOOLEAN
LeaseType   == /\ issued \in Nat
               /\ access \subseteq 1..issued /\ refresh \subseteq 1..issued
               /\ curAccess \in 0..issued /\ curRefresh \in 0..issued
HandlerType == handlers \in [Handlers -> Handler] /\ \A i \in Handlers : Sound(handlers[i])
AgentType   == agent \in [pc: {"uninstalled", "registering", "down", "refreshing", "persist",
                               "work"},
                          token: 0..issued, disk: 0..issued, access: 0..issued]
TypeInv     == BaseType /\ LeaseType /\ HandlerType /\ AgentType

\* Each pair that is owed a refresh token is in the hands of one handler.
Granting(h) == backend = "redis" /\ Issuing(h) /\ h.at = Spots("refresh").lease
Distinct    == \A i, j \in Handlers :
                  /\ Granting(handlers[i]) /\ Granting(handlers[j])
                  /\ handlers[i].new = handlers[j].new
                  => i = j

-----------------------------------------------------------------------------
(***************************************************************************)
(* The programs, command by command.                                       *)
(***************************************************************************)
LEMMA MemoryRegister ==
    ASSUME backend = "memory"
    PROVE  /\ Program("register")[1] = "check_node" /\ Program("register")[2] = "issue"
           /\ Program("register")[3] = "save_node" /\ Program("register")[4] = "reply"
<1> DEFINE program == <<"check_node">> \o <<"issue">> \o <<"save_node", "reply">>
<1>1. Program("register") = program
    BY DEF Program, IssueCommands
<1>2. /\ program[1] = "check_node" /\ program[2] = "issue"
      /\ program[3] = "save_node" /\ program[4] = "reply"
    OBVIOUS
<1> HIDE DEF program
<1> QED BY <1>1, <1>2

LEMMA MemoryRefresh ==
    ASSUME backend = "memory"
    PROVE  /\ Program("refresh")[1] = "check_lease" /\ Program("refresh")[2] = "issue"
           /\ Program("refresh")[3] = "reply"
<1> DEFINE program == <<"check_lease">> \o <<"issue">> \o <<"reply">>
<1>1. Program("refresh") = program
    BY DEF Program, IssueCommands
<1>2. /\ program[1] = "check_lease" /\ program[2] = "issue"
      /\ program[3] = "reply"
    OBVIOUS
<1> HIDE DEF program
<1> QED BY <1>1, <1>2

LEMMA MemoryDelete ==
    ASSUME backend = "memory"
    PROVE  /\ Program("delete")[1] = "find_node" /\ Program("delete")[2] = "revoke"
           /\ Program("delete")[3] = "delete_node" /\ Program("delete")[4] = "reply"
<1> DEFINE program == <<"find_node">> \o <<"revoke">> \o <<"delete_node", "reply">>
<1>1. Program("delete") = program
    BY DEF Program, RevokeCommands
<1>2. /\ program[1] = "find_node" /\ program[2] = "revoke"
      /\ program[3] = "delete_node" /\ program[4] = "reply"
    OBVIOUS
<1> HIDE DEF program
<1> QED BY <1>1, <1>2

LEMMA RedisRegister ==
    ASSUME backend = "redis"
    PROVE  /\ Program("register")[1] = "check_node" /\ Program("register")[2] = "get_access"
           /\ Program("register")[3] = "get_refresh" /\ Program("register")[4] = "del_access"
           /\ Program("register")[5] = "del_refresh" /\ Program("register")[6] = "set_access"
           /\ Program("register")[7] = "set_refresh"
           /\ Program("register")[8] = "set_current_access"
           /\ Program("register")[9] = "set_current_refresh"
           /\ Program("register")[10] = "save_node" /\ Program("register")[11] = "reply"
<1> DEFINE program == <<"check_node">>
                  \o <<"get_access", "get_refresh", "del_access", "del_refresh", "set_access",
                     "set_refresh", "set_current_access", "set_current_refresh">>
                  \o <<"save_node", "reply">>
<1>1. Program("register") = program
    BY DEF Program, IssueCommands
<1>2. /\ program[1] = "check_node" /\ program[2] = "get_access"
      /\ program[3] = "get_refresh" /\ program[4] = "del_access"
      /\ program[5] = "del_refresh" /\ program[6] = "set_access"
      /\ program[7] = "set_refresh"
      /\ program[8] = "set_current_access"
      /\ program[9] = "set_current_refresh"
      /\ program[10] = "save_node" /\ program[11] = "reply"
    OBVIOUS
<1> HIDE DEF program
<1> QED BY <1>1, <1>2

LEMMA RedisRefresh ==
    ASSUME backend = "redis"
    PROVE  /\ Program("refresh")[1] = "check_lease" /\ Program("refresh")[2] = "get_access"
           /\ Program("refresh")[3] = "get_refresh" /\ Program("refresh")[4] = "del_access"
           /\ Program("refresh")[5] = "del_refresh" /\ Program("refresh")[6] = "set_access"
           /\ Program("refresh")[7] = "set_refresh" /\ Program("refresh")[8] = "set_current_access"
           /\ Program("refresh")[9] = "set_current_refresh" /\ Program("refresh")[10] = "reply"
<1> DEFINE program == <<"check_lease">>
                  \o <<"get_access", "get_refresh", "del_access", "del_refresh", "set_access",
                     "set_refresh", "set_current_access", "set_current_refresh">>
                  \o <<"reply">>
<1>1. Program("refresh") = program
    BY DEF Program, IssueCommands
<1>2. /\ program[1] = "check_lease" /\ program[2] = "get_access"
      /\ program[3] = "get_refresh" /\ program[4] = "del_access"
      /\ program[5] = "del_refresh" /\ program[6] = "set_access"
      /\ program[7] = "set_refresh" /\ program[8] = "set_current_access"
      /\ program[9] = "set_current_refresh" /\ program[10] = "reply"
    OBVIOUS
<1> HIDE DEF program
<1> QED BY <1>1, <1>2

LEMMA RedisDelete ==
    ASSUME backend = "redis"
    PROVE  /\ Program("delete")[1] = "find_node" /\ Program("delete")[2] = "get_access"
           /\ Program("delete")[3] = "get_refresh" /\ Program("delete")[4] = "del_current_access"
           /\ Program("delete")[5] = "del_current_refresh" /\ Program("delete")[6] = "del_access"
           /\ Program("delete")[7] = "del_refresh" /\ Program("delete")[8] = "delete_node"
           /\ Program("delete")[9] = "reply"
<1> DEFINE program == <<"find_node">>
                  \o <<"get_access", "get_refresh", "del_current_access", "del_current_refresh",
                     "del_access", "del_refresh">>
                  \o <<"delete_node", "reply">>
<1>1. Program("delete") = program
    BY DEF Program, RevokeCommands
<1>2. /\ program[1] = "find_node" /\ program[2] = "get_access"
      /\ program[3] = "get_refresh" /\ program[4] = "del_current_access"
      /\ program[5] = "del_current_refresh" /\ program[6] = "del_access"
      /\ program[7] = "del_refresh" /\ program[8] = "delete_node"
      /\ program[9] = "reply"
    OBVIOUS
<1> HIDE DEF program
<1> QED BY <1>1, <1>2

\* Which command a handler has come to tells where it is in its program.
LEMMA CommandAt ==
    ASSUME TypeInv, NEW i \in Handlers, Active(i)
    PROVE  LET h == handlers[i] IN
           /\ Command(i) = "issue" => backend = "memory" /\ Issuing(h) /\ h.at = 2
           /\ Command(i) = "revoke" => backend = "memory" /\ ~Issuing(h) /\ h.at = 2
           /\ Command(i) = "get_access" => backend = "redis" /\ h.at = 2
           /\ Command(i) = "get_refresh" => backend = "redis" /\ h.at = 3
           /\ Command(i) = "del_access" => /\ backend = "redis"
                                           /\ h.at = IF Issuing(h) THEN 4 ELSE 6
           /\ Command(i) = "del_refresh" => /\ backend = "redis"
                                            /\ h.at = IF Issuing(h) THEN 5 ELSE 7
           /\ Command(i) = "set_access" => backend = "redis" /\ Issuing(h) /\ h.at = 6
           /\ Command(i) = "set_refresh" <=> backend = "redis" /\ Issuing(h) /\ h.at = 7
           /\ Command(i) = "set_current_access" => backend = "redis" /\ Issuing(h) /\ h.at = 8
           /\ Command(i) = "set_current_refresh" => backend = "redis" /\ Issuing(h) /\ h.at = 9
           /\ Command(i) = "del_current_access" => backend = "redis" /\ ~Issuing(h) /\ h.at = 4
           /\ Command(i) = "del_current_refresh" => backend = "redis" /\ ~Issuing(h) /\ h.at = 5
           /\ Command(i) = "save_node" => /\ h.op = "register"
                                          /\ h.at = IF backend = "memory" THEN 3 ELSE 10
           /\ Command(i) = "delete_node" => /\ h.op = "delete"
                                            /\ h.at = IF backend = "memory" THEN 3 ELSE 8
           /\ Command(i) = "reply" => h.at = ReplyAt(h.op)
           /\ Command(i) \in {"check_node", "check_lease", "find_node"} <=> h.at = 1
           /\ Command(i) = "check_node" => h.op = "register"
           /\ Command(i) = "check_lease" => h.op = "refresh"
           /\ Command(i) = "find_node" => h.op = "delete"
<1> DEFINE h == handlers[i]
<1>1. /\ h.op \in {"register", "refresh", "delete"} /\ h.at \in 1..11 /\ h.at <= ReplyAt(h.op)
      /\ backend \in {"redis", "memory"}
    BY DEF TypeInv, BaseType, HandlerType, Handler, Sound, Active
<1>2. Command(i) = Program(h.op)[h.at]
    BY DEF Command
<1> HIDE DEF h
<1>3. CASE backend = "memory" /\ h.op = "register"
  <2>1. h.at \in 1..4 /\ ReplyAt(h.op) = 4
      BY <1>1, <1>3 DEF ReplyAt
  <2>2. h.at = 1 \/ h.at = 2 \/ h.at = 3 \/ h.at = 4
      BY <2>1
  <2> QED BY <1>2, <1>3, <2>1, <2>2, MemoryRegister DEF Issuing, h
<1>4. CASE backend = "memory" /\ h.op = "refresh"
  <2>1. h.at \in 1..3 /\ ReplyAt(h.op) = 3
      BY <1>1, <1>4 DEF ReplyAt
  <2>2. h.at = 1 \/ h.at = 2 \/ h.at = 3
      BY <2>1
  <2> QED BY <1>2, <1>4, <2>1, <2>2, MemoryRefresh DEF Issuing, h
<1>5. CASE backend = "memory" /\ h.op = "delete"
  <2>1. h.at \in 1..4 /\ ReplyAt(h.op) = 4
      BY <1>1, <1>5 DEF ReplyAt
  <2>2. h.at = 1 \/ h.at = 2 \/ h.at = 3 \/ h.at = 4
      BY <2>1
  <2> QED BY <1>2, <1>5, <2>1, <2>2, MemoryDelete DEF Issuing, h
<1>6. CASE backend = "redis" /\ h.op = "register"
  <2>1. h.at \in 1..11 /\ ReplyAt(h.op) = 11
      BY <1>1, <1>6 DEF ReplyAt
  <2>2. \/ h.at = 1 \/ h.at = 2 \/ h.at = 3 \/ h.at = 4 \/ h.at = 5 \/ h.at = 6
        \/ h.at = 7 \/ h.at = 8 \/ h.at = 9 \/ h.at = 10 \/ h.at = 11
      BY <2>1
  <2> QED BY <1>2, <1>6, <2>1, <2>2, RedisRegister DEF Issuing, h
<1>7. CASE backend = "redis" /\ h.op = "refresh"
  <2>1. h.at \in 1..10 /\ ReplyAt(h.op) = 10
      BY <1>1, <1>7 DEF ReplyAt
  <2>2. \/ h.at = 1 \/ h.at = 2 \/ h.at = 3 \/ h.at = 4 \/ h.at = 5 \/ h.at = 6
        \/ h.at = 7 \/ h.at = 8 \/ h.at = 9 \/ h.at = 10
      BY <2>1
  <2> QED BY <1>2, <1>7, <2>1, <2>2, RedisRefresh DEF Issuing, h
<1>8. CASE backend = "redis" /\ h.op = "delete"
  <2>1. h.at \in 1..9 /\ ReplyAt(h.op) = 9
      BY <1>1, <1>8 DEF ReplyAt
  <2>2. \/ h.at = 1 \/ h.at = 2 \/ h.at = 3 \/ h.at = 4 \/ h.at = 5 \/ h.at = 6
        \/ h.at = 7 \/ h.at = 8 \/ h.at = 9
      BY <2>1
  <2> QED BY <1>2, <1>8, <2>1, <2>2, RedisDelete DEF Issuing, h
<1> QED BY <1>1, <1>3, <1>4, <1>5, <1>6, <1>7, <1>8

-----------------------------------------------------------------------------
(***************************************************************************)
(* The account.                                                            *)
(***************************************************************************)
Account(live, cur, busy, owing, held, u) ==
    /\ IsFiniteSet(live) /\ IsFiniteSet(busy) /\ owing \subseteq busy /\ None \notin live
    /\ \A h \in busy : Cardinality(live \ {held[h]}) + Cardinality(owing \ {h}) <= u
    /\ busy # {} => Cardinality(live \ {cur}) + Cardinality(owing) <= u + 1
    /\ busy = {} => Cardinality(live \ {cur}) <= u

\* What the counting needs of finite sets.
LEMMA Counting ==
    ASSUME NEW S, IsFiniteSet(S), NEW x
    PROVE  /\ IsFiniteSet(S \ {x}) /\ IsFiniteSet(S \cup {x})
           /\ Cardinality(S) \in Nat /\ Cardinality(S \ {x}) \in Nat
           /\ Cardinality(S \cup {x}) \in Nat
           /\ Cardinality(S \ {x}) <= Cardinality(S)
           /\ Cardinality(S) <= Cardinality(S \ {x}) + 1
           /\ Cardinality(S \cup {x}) <= Cardinality(S) + 1
           /\ x \in S => Cardinality(S \ {x}) = Cardinality(S) - 1
           /\ x \notin S => S \ {x} = S
<1>1. /\ IsFiniteSet(S \ {x})
      /\ Cardinality(S \ {x}) = IF x \in S THEN Cardinality(S) - 1 ELSE Cardinality(S)
    BY FS_RemoveElement
<1>2. /\ IsFiniteSet(S \cup {x})
      /\ Cardinality(S \cup {x}) = IF x \in S THEN Cardinality(S) ELSE Cardinality(S) + 1
    BY FS_AddElement
<1>3. /\ Cardinality(S) \in Nat /\ Cardinality(S \ {x}) \in Nat
      /\ Cardinality(S \cup {x}) \in Nat
    BY <1>1, <1>2, FS_CardinalityType
<1>4. x \notin S => S \ {x} = S
    OBVIOUS
<1> QED BY <1>1, <1>2, <1>3, <1>4

LEMMA Fewer ==
    ASSUME NEW T, IsFiniteSet(T), NEW S \in SUBSET T
    PROVE  /\ IsFiniteSet(S) /\ Cardinality(S) \in Nat /\ Cardinality(T) \in Nat
           /\ Cardinality(S) <= Cardinality(T)
BY FS_Subset, FS_CardinalityType

\* Within the account at most one token, and one for each upset, is live.
LEMMA AccountFew ==
    ASSUME NEW live, NEW cur, NEW busy, NEW owing, NEW held, NEW u \in Nat,
           Account(live, cur, busy, owing, held, u)
    PROVE  IsFiniteSet(live) /\ Cardinality(live) <= 1 + u
<1>1. CASE busy = {}
  <2>1. Cardinality(live \ {cur}) <= u /\ IsFiniteSet(live)
      BY <1>1 DEF Account
  <2>2. /\ Cardinality(live) \in Nat /\ Cardinality(live \ {cur}) \in Nat
        /\ Cardinality(live) <= Cardinality(live \ {cur}) + 1
      BY <2>1, Counting
  <2> QED BY <2>1, <2>2
<1>2. CASE busy # {}
  <2>1. PICK h \in busy : TRUE
      BY <1>2
  <2>2. /\ IsFiniteSet(live) /\ IsFiniteSet(owing)
        /\ Cardinality(live \ {held[h]}) + Cardinality(owing \ {h}) <= u
      BY <2>1, FS_Subset DEF Account
  <2>3. Cardinality(live \ {held[h]}) \in Nat /\ Cardinality(owing \ {h}) \in Nat
      BY <2>2, Counting
  <2>4. Cardinality(live) \in Nat /\ Cardinality(live) <= Cardinality(live \ {held[h]}) + 1
      BY <2>2, Counting
  <2> QED BY <2>2, <2>3, <2>4
<1> QED BY <1>1, <1>2

\* A request passes its check; it is upset when others are under way.
LEMMA AccountJoin ==
    ASSUME NEW live, NEW cur, NEW busy, NEW owing, NEW held, NEW u \in Nat,
           Account(live, cur, busy, owing, held, u),
           NEW h, h \notin busy, NEW held2, held2[h] = cur,
           \A g \in busy : held2[g] = held[g]
    PROVE  Account(live, cur, busy \cup {h}, owing \cup {h}, held2,
                   IF busy = {} THEN u ELSE u + 1)
<1>1. /\ IsFiniteSet(live) /\ IsFiniteSet(busy) /\ owing \subseteq busy /\ None \notin live
      /\ IsFiniteSet(owing) /\ IsFiniteSet(busy \cup {h})
    BY FS_Subset, Counting DEF Account
<1>2. /\ Cardinality(live \ {cur}) \in Nat /\ Cardinality(owing) \in Nat
      /\ Cardinality(owing \cup {h}) \in Nat
      /\ Cardinality(owing \cup {h}) <= Cardinality(owing) + 1
    BY <1>1, Counting
<1>3. (owing \cup {h}) \ {h} = owing
    BY <1>1
<1>4. CASE busy = {}
  <2>1. Cardinality(owing) = 0 /\ Cardinality(live \ {cur}) <= u
      BY <1>1, <1>4, FS_EmptySet DEF Account
  <2> QED BY <1>1, <1>2, <1>3, <1>4, <2>1 DEF Account
<1>5. CASE busy # {}
  <2>1. Cardinality(live \ {cur}) + Cardinality(owing) <= u + 1
      BY <1>5 DEF Account
  <2>2. ASSUME NEW g \in busy
        PROVE  Cardinality(live \ {held2[g]}) + Cardinality((owing \cup {h}) \ {g}) <= u + 1
    <3>1. Cardinality(live \ {held[g]}) + Cardinality(owing \ {g}) <= u /\ held2[g] = held[g]
        BY DEF Account
    <3>2. (owing \cup {h}) \ {g} = (owing \ {g}) \cup {h}
        OBVIOUS
    <3>3. /\ IsFiniteSet(owing \ {g}) /\ Cardinality(owing \ {g}) \in Nat
          /\ Cardinality(live \ {held[g]}) \in Nat
        BY <1>1, Counting
    <3>4. /\ Cardinality((owing \ {g}) \cup {h}) <= Cardinality(owing \ {g}) + 1
          /\ Cardinality((owing \ {g}) \cup {h}) \in Nat
        BY <3>3, Counting
    <3> QED BY <3>1, <3>2, <3>3, <3>4
  <2> QED BY <1>1, <1>2, <1>3, <1>5, <2>1, <2>2 DEF Account
<1> QED BY <1>4, <1>5

\* Tokens die: an account is kept when what a handler holds, and what is
\* current, is still so, or has died.
LEMMA AccountRetire ==
    ASSUME NEW live, NEW cur, NEW busy, NEW owing, NEW held, NEW u \in Nat,
           Account(live, cur, busy, owing, held, u),
           NEW live2 \in SUBSET live, NEW cur2, cur2 = cur \/ cur \notin live2,
           NEW held2, \A g \in busy : held2[g] = held[g] \/ held[g] \notin live2
    PROVE  Account(live2, cur2, busy, owing, held2, u)
<1>1. /\ IsFiniteSet(live) /\ IsFiniteSet(busy) /\ owing \subseteq busy /\ None \notin live
      /\ IsFiniteSet(live2) /\ IsFiniteSet(owing)
    BY FS_Subset DEF Account
<1>2. ASSUME NEW x, NEW y, y = x \/ x \notin live2
      PROVE  /\ Cardinality(live2 \ {y}) \in Nat /\ Cardinality(live \ {x}) \in Nat
             /\ Cardinality(live2 \ {y}) <= Cardinality(live \ {x})
  <2>1. live2 \ {y} \in SUBSET (live \ {x}) /\ IsFiniteSet(live \ {x})
      BY <1>1, <1>2, Counting
  <2> QED BY <2>1, Fewer
<1>3. Cardinality(owing) \in Nat /\ \A g : Cardinality(owing \ {g}) \in Nat
    BY <1>1, Counting
<1>4. ASSUME NEW g \in busy
      PROVE  Cardinality(live2 \ {held2[g]}) + Cardinality(owing \ {g}) <= u
  <2>1. Cardinality(live \ {held[g]}) + Cardinality(owing \ {g}) <= u
      BY DEF Account
  <2>2. /\ Cardinality(live2 \ {held2[g]}) \in Nat /\ Cardinality(live \ {held[g]}) \in Nat
        /\ Cardinality(live2 \ {held2[g]}) <= Cardinality(live \ {held[g]})
      BY <1>2
  <2>3. Cardinality(owing \ {g}) \in Nat
      BY <1>3
  <2> QED BY <2>1, <2>2, <2>3
<1>5. /\ busy # {} => Cardinality(live2 \ {cur2}) + Cardinality(owing) <= u + 1
      /\ busy = {} => Cardinality(live2 \ {cur2}) <= u
  <2>1. /\ Cardinality(live2 \ {cur2}) \in Nat /\ Cardinality(live \ {cur}) \in Nat
        /\ Cardinality(live2 \ {cur2}) <= Cardinality(live \ {cur})
      BY <1>2
  <2>2. /\ busy # {} => Cardinality(live \ {cur}) + Cardinality(owing) <= u + 1
        /\ busy = {} => Cardinality(live \ {cur}) <= u
      BY DEF Account
  <2> QED BY <1>3, <2>1, <2>2
<1> QED BY <1>1, <1>4, <1>5 DEF Account

\* A request that holds nothing that is live writes the lease it owes.
LEMMA AccountLease ==
    ASSUME NEW live, NEW cur, NEW busy, NEW owing, NEW held, NEW u \in Nat,
           Account(live, cur, busy, owing, held, u),
           NEW h \in owing, held[h] \notin live, NEW new, new # None,
           NEW held2, held2[h] = new, \A g \in busy \ {h} : held2[g] = held[g]
    PROVE  Account(live \cup {new}, cur, busy, owing \ {h}, held2, u)
<1>1. /\ IsFiniteSet(live) /\ IsFiniteSet(busy) /\ owing \subseteq busy /\ None \notin live
      /\ IsFiniteSet(owing) /\ IsFiniteSet(live \cup {new}) /\ IsFiniteSet(owing \ {h})
    BY FS_Subset, Counting DEF Account
<1>2. /\ Cardinality(owing) \in Nat /\ Cardinality(owing \ {h}) = Cardinality(owing) - 1
      /\ Cardinality(live) \in Nat
    BY <1>1, Counting
<1>3. Cardinality(live) + Cardinality(owing \ {h}) <= u
  <2>1. live \ {held[h]} = live
      OBVIOUS
  <2> QED BY <1>1, <2>1 DEF Account
<1>4. ASSUME NEW x
      PROVE  /\ Cardinality((live \cup {new}) \ {x}) \in Nat /\ Cardinality(live \ {x}) \in Nat
             /\ Cardinality((live \cup {new}) \ {x}) <= Cardinality(live \ {x}) + 1
  <2>1. (live \cup {new}) \ {x} \in SUBSET ((live \ {x}) \cup {new})
      OBVIOUS
  <2>2. IsFiniteSet(live \ {x}) /\ Cardinality(live \ {x}) \in Nat
      BY <1>1, Counting
  <2>3. /\ IsFiniteSet((live \ {x}) \cup {new})
        /\ Cardinality((live \ {x}) \cup {new}) \in Nat
        /\ Cardinality((live \ {x}) \cup {new}) <= Cardinality(live \ {x}) + 1
      BY <2>2, Counting
  <2>4. /\ Cardinality((live \cup {new}) \ {x}) \in Nat
        /\ Cardinality((live \cup {new}) \ {x}) <= Cardinality((live \ {x}) \cup {new})
      BY <2>1, <2>3, Fewer
  <2> QED BY <2>2, <2>3, <2>4
<1>5. Cardinality((live \cup {new}) \ {held2[h]}) + Cardinality((owing \ {h}) \ {h}) <= u
  <2>1. (live \cup {new}) \ {new} \in SUBSET live /\ (owing \ {h}) \ {h} = owing \ {h}
      OBVIOUS
  <2>2. /\ Cardinality((live \cup {new}) \ {new}) <= Cardinality(live)
        /\ Cardinality((live \cup {new}) \ {new}) \in Nat
      BY <1>1, <2>1, Fewer
  <2>3. Cardinality((live \cup {new}) \ {new}) + Cardinality(owing \ {h}) <= u
    <3>1. Cardinality(owing \ {h}) \in Nat /\ Cardinality(live) \in Nat
        BY <1>1, Counting
    <3> QED BY <1>3, <2>2, <3>1
  <2> QED BY <2>1, <2>3
<1>6. ASSUME NEW g \in busy \ {h}
      PROVE  Cardinality((live \cup {new}) \ {held2[g]}) + Cardinality((owing \ {h}) \ {g}) <= u
  <2>1. Cardinality(live \ {held[g]}) + Cardinality(owing \ {g}) <= u
      BY DEF Account
  <2>2. (owing \ {h}) \ {g} = (owing \ {g}) \ {h} /\ h \in owing \ {g}
      OBVIOUS
  <2>3. /\ IsFiniteSet(owing \ {g}) /\ Cardinality(owing \ {g}) \in Nat
        /\ Cardinality((owing \ {g}) \ {h}) = Cardinality(owing \ {g}) - 1
    <3>1. IsFiniteSet(owing \ {g}) /\ Cardinality(owing \ {g}) \in Nat
        BY <1>1, Counting
    <3> QED BY <2>2, <3>1, Counting
  <2>4. held2[g] = held[g]
      OBVIOUS
  <2>5. /\ Cardinality((live \cup {new}) \ {held[g]}) \in Nat
        /\ Cardinality(live \ {held[g]}) \in Nat
        /\ Cardinality((live \cup {new}) \ {held[g]}) <= Cardinality(live \ {held[g]}) + 1
      BY <1>4
  <2> QED BY <2>1, <2>2, <2>3, <2>4, <2>5
<1>7. Cardinality((live \cup {new}) \ {cur}) + Cardinality(owing \ {h}) <= u + 1
  <2>1. Cardinality(live \ {cur}) + Cardinality(owing) <= u + 1
      BY <1>1 DEF Account
  <2>2. /\ Cardinality((live \cup {new}) \ {cur}) \in Nat /\ Cardinality(live \ {cur}) \in Nat
        /\ Cardinality((live \cup {new}) \ {cur}) <= Cardinality(live \ {cur}) + 1
      BY <1>4
  <2> QED BY <1>2, <2>1, <2>2
<1> QED BY <1>1, <1>5, <1>6, <1>7 DEF Account

\* A request that owes nothing makes what it holds current.
LEMMA AccountCurrent ==
    ASSUME NEW live, NEW cur, NEW busy, NEW owing, NEW held, NEW u \in Nat,
           Account(live, cur, busy, owing, held, u),
           NEW h \in busy \ owing,
           NEW held2, \A g \in busy : held2[g] = held[g] \/ held2[g] = held[h]
    PROVE  Account(live, held[h], busy, owing, held2, u)
<1>1. /\ IsFiniteSet(live) /\ IsFiniteSet(busy) /\ owing \subseteq busy /\ None \notin live
      /\ IsFiniteSet(owing)
    BY FS_Subset DEF Account
<1>2. Cardinality(live \ {held[h]}) + Cardinality(owing) <= u
  <2>1. owing \ {h} = owing
      OBVIOUS
  <2> QED BY <2>1 DEF Account
<1>3. /\ Cardinality(live \ {held[h]}) \in Nat /\ Cardinality(owing) \in Nat
      /\ \A g : Cardinality(owing \ {g}) \in Nat /\ Cardinality(owing \ {g}) <= Cardinality(owing)
    BY <1>1, Counting
<1>4. ASSUME NEW g \in busy
      PROVE  Cardinality(live \ {held2[g]}) + Cardinality(owing \ {g}) <= u
  <2>1. CASE held2[g] = held[g]
      BY <2>1 DEF Account
  <2>2. CASE held2[g] = held[h]
    <3>1. Cardinality(owing \ {g}) \in Nat /\ Cardinality(owing \ {g}) <= Cardinality(owing)
        BY <1>3
    <3>2. Cardinality(live \ {held2[g]}) = Cardinality(live \ {held[h]})
        BY <2>2
    <3> QED BY <1>2, <1>3, <3>1, <3>2
  <2> QED BY <2>1, <2>2
<1> QED BY <1>1, <1>2, <1>3, <1>4 DEF Account

\* A deletion removes the key of the current token, and no longer owes that.
LEMMA AccountForget ==
    ASSUME NEW live, NEW cur, NEW busy, NEW owing, NEW held, NEW u \in Nat,
           Account(live, cur, busy, owing, held, u),
           NEW h \in owing, NEW held2, held2[h] = held[h],
           \A g \in busy \ {h} : held2[g] = held[g] \/ (held[g] = cur /\ held2[g] = None)
    PROVE  Account(live, None, busy, owing \ {h}, held2, u)
<1>1. /\ IsFiniteSet(live) /\ IsFiniteSet(busy) /\ owing \subseteq busy /\ None \notin live
      /\ IsFiniteSet(owing) /\ IsFiniteSet(owing \ {h})
    BY FS_Subset, Counting DEF Account
<1>2. /\ Cardinality(owing) \in Nat /\ Cardinality(owing \ {h}) = Cardinality(owing) - 1
      /\ Cardinality(live) \in Nat /\ live \ {None} = live
    BY <1>1, Counting
<1>3. /\ Cardinality(live \ {held[h]}) + Cardinality(owing \ {h}) <= u
      /\ Cardinality(live \ {held[h]}) \in Nat
      /\ Cardinality(live) <= Cardinality(live \ {held[h]}) + 1
    BY <1>1, Counting DEF Account
<1>4. Cardinality(live \ {held2[h]}) + Cardinality((owing \ {h}) \ {h}) <= u
  <2>1. (owing \ {h}) \ {h} = owing \ {h}
      OBVIOUS
  <2> QED BY <1>3, <2>1
<1>5. ASSUME NEW g \in busy \ {h}
      PROVE  Cardinality(live \ {held2[g]}) + Cardinality((owing \ {h}) \ {g}) <= u
  <2>1. /\ Cardinality(live \ {held[g]}) + Cardinality(owing \ {g}) <= u
        /\ Cardinality(live \ {held[g]}) \in Nat /\ Cardinality(owing \ {g}) \in Nat
        /\ Cardinality(live) <= Cardinality(live \ {held[g]}) + 1
        /\ IsFiniteSet(owing \ {g})
      BY <1>1, Counting DEF Account
  <2>2. /\ (owing \ {h}) \ {g} = (owing \ {g}) \ {h} /\ h \in owing \ {g}
        /\ Cardinality((owing \ {h}) \ {g}) = Cardinality(owing \ {g}) - 1
    <3>1. (owing \ {h}) \ {g} = (owing \ {g}) \ {h} /\ h \in owing \ {g}
        OBVIOUS
    <3> QED BY <2>1, <3>1, Counting
  <2>3. CASE held2[g] = held[g]
      BY <2>1, <2>2, <2>3
  <2>4. CASE held2[g] = None
    <3>1. Cardinality(live \ {held2[g]}) = Cardinality(live)
        BY <1>2, <2>4
    <3> QED BY <1>2, <2>1, <2>2, <3>1
  <2> QED BY <2>3, <2>4
<1>6. Cardinality(live \ {None}) + Cardinality(owing \ {h}) <= u + 1
  <2>1. Cardinality(live \ {None}) = Cardinality(live)
      BY <1>2
  <2> QED BY <1>2, <1>3, <2>1
<1> QED BY <1>1, <1>4, <1>5, <1>6 DEF Account

\* A request that owes nothing ends, with what is current, or nothing live, in hand.
LEMMA AccountEnd ==
    ASSUME NEW live, NEW cur, NEW busy, NEW owing, NEW held, NEW u \in Nat,
           Account(live, cur, busy, owing, held, u),
           NEW h \in busy \ owing, held[h] = cur \/ held[h] \notin live,
           NEW held2, \A g \in busy \ {h} : held2[g] = held[g]
    PROVE  Account(live, cur, busy \ {h}, owing, held2, u)
<1>1. /\ IsFiniteSet(live) /\ IsFiniteSet(busy) /\ owing \subseteq busy \ {h} /\ None \notin live
      /\ IsFiniteSet(busy \ {h})
    BY Counting DEF Account
<1>2. \A g \in busy \ {h} : Cardinality(live \ {held2[g]}) + Cardinality(owing \ {g}) <= u
    BY DEF Account
<1>3. busy \ {h} # {} => Cardinality(live \ {cur}) + Cardinality(owing) <= u + 1
    BY DEF Account
<1>4. ASSUME busy \ {h} = {} PROVE Cardinality(live \ {cur}) <= u
  <2>1. /\ Cardinality(live \ {held[h]}) + Cardinality(owing \ {h}) <= u
        /\ Cardinality(owing \ {h}) = 0
    <3>1. owing \ {h} = {}
        BY <1>1, <1>4
    <3> QED BY <3>1, FS_EmptySet DEF Account
  <2>2. /\ Cardinality(live \ {held[h]}) \in Nat /\ Cardinality(live \ {cur}) \in Nat
        /\ Cardinality(live \ {cur}) <= Cardinality(live)
        /\ held[h] \notin live => live \ {held[h]} = live
      BY <1>1, Counting
  <2> QED BY <2>1, <2>2
<1> QED BY <1>1, <1>2, <1>3, <1>4 DEF Account

\* A request is dropped, which upsets the node.
LEMMA AccountDrop ==
    ASSUME NEW live, NEW cur, NEW busy, NEW owing, NEW held, NEW u \in Nat,
           Account(live, cur, busy, owing, held, u),
           NEW h, NEW held2, \A g \in busy \ {h} : held2[g] = held[g]
    PROVE  Account(live, cur, busy \ {h}, owing \ {h}, held2, u + 1)
<1>1. /\ IsFiniteSet(live) /\ IsFiniteSet(busy) /\ owing \subseteq busy /\ None \notin live
      /\ IsFiniteSet(owing) /\ IsFiniteSet(busy \ {h}) /\ IsFiniteSet(owing \ {h})
    BY FS_Subset, Counting DEF Account
<1>2. /\ Cardinality(live \ {cur}) \in Nat /\ Cardinality(owing) \in Nat
      /\ Cardinality(owing \ {h}) \in Nat /\ Cardinality(owing \ {h}) <= Cardinality(owing)
    BY <1>1, Counting
<1>3. ASSUME NEW g \in busy \ {h}
      PROVE  Cardinality(live \ {held2[g]}) + Cardinality((owing \ {h}) \ {g}) <= u + 1
  <2>1. Cardinality(live \ {held[g]}) + Cardinality(owing \ {g}) <= u /\ held2[g] = held[g]
      BY DEF Account
  <2>2. (owing \ {h}) \ {g} \in SUBSET (owing \ {g})
      OBVIOUS
  <2>3. IsFiniteSet(owing \ {g}) /\ Cardinality(live \ {held[g]}) \in Nat
      BY <1>1, Counting
  <2>4. /\ Cardinality((owing \ {h}) \ {g}) <= Cardinality(owing \ {g})
        /\ Cardinality((owing \ {h}) \ {g}) \in Nat /\ Cardinality(owing \ {g}) \in Nat
      BY <2>2, <2>3, Fewer
  <2> QED BY <2>1, <2>3, <2>4
<1>4. Cardinality(live \ {cur}) + Cardinality(owing \ {h}) <= u + 1
  <2>1. CASE busy = {}
    <3>1. Cardinality(live \ {cur}) <= u /\ Cardinality(owing) = 0
        BY <1>1, <2>1, FS_EmptySet DEF Account
    <3> QED BY <1>2, <3>1
  <2>2. CASE busy # {}
      BY <1>2, <2>2 DEF Account
  <2> QED BY <2>1, <2>2
<1> QED BY <1>1, <1>2, <1>3, <1>4 DEF Account

\* MemoryTokenStore does several of these at once.
LEMMA AccountIssue ==
    ASSUME NEW live, NEW cur, NEW busy, NEW owing, NEW held, NEW u \in Nat,
           Account(live, cur, busy, owing, held, u),
           NEW h \in owing, held[h] = cur, NEW new, new # None,
           NEW held2, held2[h] = new,
           \A g \in busy \ {h} : \/ held[g] = cur /\ held2[g] = new
                                 \/ held[g] = None /\ held2[g] = None
    PROVE  Account((live \ {cur}) \cup {new}, new, busy, owing \ {h}, held2, u)
<1> DEFINE freed  == [g \in busy |-> None]
           leased == [g \in busy |-> IF g = h THEN new ELSE None]
<1>1. owing \subseteq busy /\ None \notin live
    BY DEF Account
<1>2. Account(live \ {cur}, cur, busy, owing, freed, u)
  <2>1. \A g \in busy : freed[g] = held[g] \/ held[g] \notin live \ {cur}
      OBVIOUS
  <2> HIDE DEF freed
  <2> QED BY <2>1, AccountRetire
<1>3. Account((live \ {cur}) \cup {new}, cur, busy, owing \ {h}, leased, u)
  <2>1. /\ freed[h] \notin live \ {cur} /\ leased[h] = new
        /\ \A g \in busy \ {h} : leased[g] = freed[g]
      BY <1>1
  <2> HIDE DEF freed, leased
  <2> QED BY <1>2, <2>1, AccountLease
<1>4. /\ h \in busy \ (owing \ {h}) /\ leased[h] = new
      /\ \A g \in busy : held2[g] = leased[g] \/ held2[g] = leased[h]
    BY <1>1
<1> HIDE DEF freed, leased
<1> QED BY <1>3, <1>4, AccountCurrent

LEMMA AccountRevoke ==
    ASSUME NEW live, NEW cur, NEW busy, NEW owing, NEW held, NEW u \in Nat,
           Account(live, cur, busy, owing, held, u),
           NEW h \in owing, held[h] = cur, NEW held2,
           \A g \in busy : held2[g] = held[g] \/ (held[g] = cur /\ held2[g] = None)
    PROVE  Account(live \ {cur}, None, busy, owing \ {h}, held2, u)
<1>1. Account(live \ {cur}, cur, busy, owing, held2, u)
  <2>1. \A g \in busy : held2[g] = held[g] \/ held[g] \notin live \ {cur}
      OBVIOUS
  <2> QED BY <2>1, AccountRetire
<1> QED BY <1>1, AccountForget

-----------------------------------------------------------------------------
(***************************************************************************)
(* The accounts of the store.  A handler owes what it has still to issue,  *)
(* or to delete, and holds the token it is to replace or has just issued.  *)
(***************************************************************************)
Owes(k, h) == h.at > 1 /\ h.at <= (IF Issuing(h) THEN Spots(k).lease ELSE Spots(k).gone)
Holds(k, h) ==
    IF h.at <= Spots(k).get THEN Current(k)
    ELSE IF ~Issuing(h) THEN Old(k, h)
    ELSE IF h.at > Spots(k).current THEN Current(k)
    ELSE IF h.at > Spots(k).lease THEN h.new ELSE Old(k, h)

Checked  == {i \in Handlers : handlers[i].at > 1}
Owing(k) == {i \in Handlers : Owes(k, handlers[i])}
Held(k)  == [i \in Handlers |-> Holds(k, handlers[i])]

AccountOf(k) == Account(Live(k), Current(k), Checked, Owing(k), Held(k), upsets)
Accounts     == \A k \in Kinds : AccountOf(k)

\* Requests that never overlapped, and a node that is deleted.
Alone == upsets = 0 =>
            /\ \A i, j \in Checked : i = j
            /\ row = "gone" => /\ access = {} /\ refresh = {}
                               /\ \A i \in Checked : ~Issuing(handlers[i])

-----------------------------------------------------------------------------
(***************************************************************************)
(* What one step does to a handler.                                        *)
(***************************************************************************)
Replaced(i, n) == n \in Handler /\ handlers' = [handlers EXCEPT ![i] = n]

\* The handler has done a command.
Advanced(i, n) ==
    /\ Replaced(i, n) /\ Active(i) /\ UNCHANGED backend
    /\ handlers[i].at < ReplyAt(handlers[i].op) /\ n.at = handlers[i].at + 1
    /\ n.op = handlers[i].op /\ n.token = handlers[i].token /\ n.waiting = handlers[i].waiting

\* What it has in hand.
Keeps(h, n) == n.oldAccess = h.oldAccess /\ n.oldRefresh = h.oldRefresh /\ n.new = h.new

LEMMA Advances ==
    ASSUME TypeInv, UNCHANGED backend, NEW i \in Handlers, Active(i),
           handlers[i].at < ReplyAt(handlers[i].op), NEW x \in Nat
    PROVE  LET h == handlers[i] IN
           /\ Proceed(i) => \E n \in Handler : Advanced(i, n) /\ Keeps(h, n)
           /\ Advance(i, [h EXCEPT !.oldAccess = x])
                => \E n \in Handler : /\ Advanced(i, n) /\ n.oldAccess = x
                                      /\ n.oldRefresh = h.oldRefresh /\ n.new = h.new
           /\ Advance(i, [h EXCEPT !.oldRefresh = x])
                => \E n \in Handler : /\ Advanced(i, n) /\ n.oldRefresh = x
                                      /\ n.oldAccess = h.oldAccess /\ n.new = h.new
           /\ Advance(i, [h EXCEPT !.new = x])
                => \E n \in Handler : /\ Advanced(i, n) /\ n.new = x
                                      /\ n.oldAccess = h.oldAccess /\ n.oldRefresh = h.oldRefresh
<1> DEFINE h == handlers[i]
<1>1. h \in Handler /\ h.at + 1 \in 1..11
  <2>1. h \in Handler /\ h.at \in 1..11
      BY DEF TypeInv, HandlerType, Handler
  <2>2. ReplyAt(h.op) \in 1..11
      BY <2>1 DEF ReplyAt, Active, Handler
  <2> QED BY <2>1, <2>2
<1>2. ASSUME Proceed(i) PROVE \E n \in Handler : Advanced(i, n) /\ Keeps(h, n)
  <2> DEFINE n == [h EXCEPT !.at = @ + 1]
  <2>1. handlers' = [handlers EXCEPT ![i] = n]
      BY <1>2 DEF Proceed, Advance
  <2>2. n \in Handler /\ n.at = h.at + 1 /\ n.op = h.op /\ n.token = h.token
        /\ n.waiting = h.waiting /\ n.oldAccess = h.oldAccess /\ n.oldRefresh = h.oldRefresh
        /\ n.new = h.new
      BY <1>1 DEF Handler
  <2> HIDE DEF n
  <2> QED BY <2>1, <2>2 DEF Advanced, Replaced, Keeps
<1>3. ASSUME Advance(i, [h EXCEPT !.oldAccess = x])
      PROVE  \E n \in Handler : /\ Advanced(i, n) /\ n.oldAccess = x
                                /\ n.oldRefresh = h.oldRefresh /\ n.new = h.new
  <2> DEFINE n == [[h EXCEPT !.oldAccess = x] EXCEPT !.at = @ + 1]
  <2>1. handlers' = [handlers EXCEPT ![i] = n]
      BY <1>3 DEF Advance
  <2>2. n \in Handler /\ n.at = h.at + 1 /\ n.op = h.op /\ n.token = h.token
        /\ n.waiting = h.waiting /\ n.oldAccess = x /\ n.oldRefresh = h.oldRefresh
        /\ n.new = h.new
      BY <1>1 DEF Handler
  <2> HIDE DEF n
  <2> QED BY <2>1, <2>2 DEF Advanced, Replaced
<1>4. ASSUME Advance(i, [h EXCEPT !.oldRefresh = x])
      PROVE  \E n \in Handler : /\ Advanced(i, n) /\ n.oldRefresh = x
                                /\ n.oldAccess = h.oldAccess /\ n.new = h.new
  <2> DEFINE n == [[h EXCEPT !.oldRefresh = x] EXCEPT !.at = @ + 1]
  <2>1. handlers' = [handlers EXCEPT ![i] = n]
      BY <1>4 DEF Advance
  <2>2. n \in Handler /\ n.at = h.at + 1 /\ n.op = h.op /\ n.token = h.token
        /\ n.waiting = h.waiting /\ n.oldRefresh = x /\ n.oldAccess = h.oldAccess
        /\ n.new = h.new
      BY <1>1 DEF Handler
  <2> HIDE DEF n
  <2> QED BY <2>1, <2>2 DEF Advanced, Replaced
<1>5. ASSUME Advance(i, [h EXCEPT !.new = x])
      PROVE  \E n \in Handler : /\ Advanced(i, n) /\ n.new = x
                                /\ n.oldAccess = h.oldAccess /\ n.oldRefresh = h.oldRefresh
  <2> DEFINE n == [[h EXCEPT !.new = x] EXCEPT !.at = @ + 1]
  <2>1. handlers' = [handlers EXCEPT ![i] = n]
      BY <1>5 DEF Advance
  <2>2. n \in Handler /\ n.at = h.at + 1 /\ n.op = h.op /\ n.token = h.token
        /\ n.waiting = h.waiting /\ n.new = x /\ n.oldAccess = h.oldAccess
        /\ n.oldRefresh = h.oldRefresh
      BY <1>1 DEF Handler
  <2> HIDE DEF n
  <2> QED BY <2>1, <2>2 DEF Advanced, Replaced
<1> QED BY <1>2, <1>3, <1>4, <1>5

LEMMA ReplacedType ==
    ASSUME TypeInv, UNCHANGED backend, issued' \in Nat, issued <= issued',
           NEW i \in Handlers, NEW n, Replaced(i, n), Sound(n)'
    PROVE  HandlerType'
<1>1. handlers' \in [Handlers -> Handler] /\ handlers'[i] = n
    BY DEF Replaced, TypeInv, HandlerType
<1>2. ASSUME NEW j \in Handlers PROVE Sound(handlers[j])'
  <2>1. CASE j = i
      BY <1>1, <2>1
  <2>2. CASE j # i
    <3>1. handlers'[j] = handlers[j] /\ Sound(handlers[j]) /\ issued \in Nat
        BY <2>2 DEF Replaced, TypeInv, HandlerType, LeaseType
    <3>2. PICK h : h = handlers[j]
        OBVIOUS
    <3>3. Sound(h) /\ h = handlers'[j] /\ h \in Handler
        BY <3>1, <3>2 DEF TypeInv, HandlerType
    <3>4. Sound(h)'
        BY <3>1, <3>3 DEF Sound, Holding, Spots, Old, Issuing, ReplyAt, Handler
    <3> QED BY <3>3, <3>4
  <2> QED BY <2>1, <2>2
<1> QED BY <1>1, <1>2 DEF HandlerType

LEMMA AdvancedType ==
    ASSUME TypeInv, issued' \in Nat, issued <= issued',
           NEW i \in Handlers, NEW n, Advanced(i, n),
           {n.oldAccess, n.oldRefresh, n.new} \subseteq 0..issued',
           \A k \in Kinds : Holding(k, n),
           Issuing(n) /\ n.at > Spots("access").lease => n.new \in 1..issued'
    PROVE  HandlerType'
<1>1. handlers[i] \in Handler /\ Sound(handlers[i]) /\ issued \in Nat /\ n \in Handler
    BY DEF TypeInv, HandlerType, LeaseType, Advanced, Replaced
<1>2. n.op # "none"
    BY DEF Advanced, Active
<1>3. n.at <= ReplyAt(n.op)
  <2>1. n.at \in Nat /\ handlers[i].at \in Nat /\ ReplyAt(handlers[i].op) \in Nat
      BY <1>1 DEF Handler, ReplyAt, Advanced, Active
  <2> QED BY <2>1 DEF Advanced
<1>4. /\ n.waiting => Issuing(n)
      /\ n.token \in 0..issued'
    BY <1>1 DEF Sound, Advanced, Issuing
<1>5. UNCHANGED backend
    BY DEF Advanced
<1>6. Sound(n)'
    BY <1>1, <1>2, <1>3, <1>4, <1>5 DEF Sound, Holding, Spots, ReplyAt
<1> QED BY <1>5, <1>6, ReplacedType DEF Advanced

\* Only tokens of kind k, and what the handler has read of them, are touched.
Others(k, h, n) ==
    \A q \in Kinds \ {k} : Live(q)' = Live(q) /\ Current(q)' = Current(q) /\ Old(q, n) = Old(q, h)

LEMMA GetStep ==
    ASSUME TypeInv, NEW i \in Handlers, GetCurrent(i)
    PROVE  \E k \in Kinds, n \in Handler :
              /\ Advanced(i, n) /\ Others(k, handlers[i], n)
              /\ backend = "redis" /\ handlers[i].at = Spots(k).get
              /\ Old(k, n) = Current(k) /\ n.new = handlers[i].new
              /\ Live(k)' = Live(k) /\ Current(k)' = Current(k)
<1> DEFINE h == handlers[i]
<1>1. /\ h.op \in {"register", "refresh", "delete"} /\ Active(i)
      /\ curAccess \in Nat /\ curRefresh \in Nat
    BY DEF TypeInv, LeaseType, HandlerType, Handler, GetCurrent, Doing, Active
<1>2. UNCHANGED <<backend, access, refresh, curAccess, curRefresh>>
    BY DEF GetCurrent, OutsideHub, storeVars
<1>3. CASE Doing(i, "get_access") /\ Advance(i, [h EXCEPT !.oldAccess = curAccess])
  <2>1. backend = "redis" /\ h.at = 2 /\ h.at < ReplyAt(h.op)
      BY <1>1, <1>3, CommandAt DEF Doing, ReplyAt
  <2>2. PICK n \in Handler : /\ Advanced(i, n) /\ n.oldAccess = curAccess
                             /\ n.oldRefresh = h.oldRefresh /\ n.new = h.new
      BY <1>1, <1>2, <1>3, <2>1, Advances
  <2> QED BY <1>2, <2>1, <2>2 DEF Others, Kinds, Live, Current, Old, Spots
<1>4. CASE Doing(i, "get_refresh") /\ Advance(i, [h EXCEPT !.oldRefresh = curRefresh])
  <2>1. backend = "redis" /\ h.at = 3 /\ h.at < ReplyAt(h.op)
      BY <1>1, <1>4, CommandAt DEF Doing, ReplyAt
  <2>2. PICK n \in Handler : /\ Advanced(i, n) /\ n.oldRefresh = curRefresh
                             /\ n.oldAccess = h.oldAccess /\ n.new = h.new
      BY <1>1, <1>2, <1>4, <2>1, Advances
  <2> QED BY <1>2, <2>1, <2>2 DEF Others, Kinds, Live, Current, Old, Spots
<1> QED BY <1>3, <1>4 DEF GetCurrent

LEMMA DelStep ==
    ASSUME TypeInv, NEW i \in Handlers, DelLease(i)
    PROVE  \E k \in Kinds, n \in Handler :
              /\ Advanced(i, n) /\ Others(k, handlers[i], n)
              /\ backend = "redis"
              /\ handlers[i].at = IF Issuing(handlers[i]) THEN Spots(k).free ELSE Spots(k).freed
              /\ Old(k, n) = None /\ n.new = handlers[i].new
              /\ Live(k)' = Live(k) \ {Old(k, handlers[i])} /\ Current(k)' = Current(k)
<1> DEFINE h == handlers[i]
<1>1. h.op \in {"register", "refresh", "delete"} /\ Active(i) /\ None \in Nat
    BY DEF TypeInv, HandlerType, Handler, DelLease, Doing, Active, None
<1>2. UNCHANGED <<backend, curAccess, curRefresh>>
    BY DEF DelLease, OutsideHub
<1>3. CASE /\ Doing(i, "del_access") /\ Advance(i, [h EXCEPT !.oldAccess = None])
           /\ access' = access \ {h.oldAccess} /\ UNCHANGED refresh
  <2>1. backend = "redis" /\ h.at = IF Issuing(h) THEN 4 ELSE 6
      BY <1>1, <1>3, CommandAt DEF Doing
  <2>2. h.at < ReplyAt(h.op)
      BY <1>1, <2>1 DEF ReplyAt, Issuing
  <2>3. PICK n \in Handler : /\ Advanced(i, n) /\ n.oldAccess = None
                             /\ n.oldRefresh = h.oldRefresh /\ n.new = h.new
      BY <1>1, <1>2, <1>3, <2>2, Advances
  <2> QED BY <1>2, <1>3, <2>1, <2>3 DEF Others, Kinds, Live, Current, Old, Spots
<1>4. CASE /\ Doing(i, "del_refresh") /\ Advance(i, [h EXCEPT !.oldRefresh = None])
           /\ refresh' = refresh \ {h.oldRefresh} /\ UNCHANGED access
  <2>1. backend = "redis" /\ h.at = IF Issuing(h) THEN 5 ELSE 7
      BY <1>1, <1>4, CommandAt DEF Doing
  <2>2. h.at < ReplyAt(h.op)
      BY <1>1, <2>1 DEF ReplyAt, Issuing
  <2>3. PICK n \in Handler : /\ Advanced(i, n) /\ n.oldRefresh = None
                             /\ n.oldAccess = h.oldAccess /\ n.new = h.new
      BY <1>1, <1>2, <1>4, <2>2, Advances
  <2> QED BY <1>2, <1>4, <2>1, <2>3 DEF Others, Kinds, Live, Current, Old, Spots
<1> QED BY <1>3, <1>4 DEF DelLease

LEMMA SetStep ==
    ASSUME TypeInv, NEW i \in Handlers, SetLease(i)
    PROVE  \E k \in Kinds, n \in Handler :
              /\ Advanced(i, n) /\ Others(k, handlers[i], n)
              /\ backend = "redis" /\ Issuing(handlers[i]) /\ handlers[i].at = Spots(k).lease
              /\ Old(k, n) = Old(k, handlers[i])
              /\ IF k = "access" THEN issued' = issued + 1 /\ n.new = issued'
                 ELSE issued' = issued /\ n.new = handlers[i].new
              /\ Live(k)' = Live(k) \cup {n.new} /\ Current(k)' = Current(k)
<1> DEFINE h == handlers[i]
<1>1. h.op \in {"register", "refresh", "delete"} /\ Active(i) /\ issued \in Nat
    BY DEF TypeInv, LeaseType, HandlerType, Handler, SetLease, Doing, Active
<1>2. UNCHANGED <<backend, curAccess, curRefresh>>
    BY DEF SetLease, OutsideHub
<1>3. CASE /\ Doing(i, "set_access") /\ issued' = issued + 1
           /\ access' = access \cup {issued'} /\ UNCHANGED refresh
           /\ Advance(i, [h EXCEPT !.new = issued'])
  <2>1. backend = "redis" /\ Issuing(h) /\ h.at = 6
      BY <1>1, <1>3, CommandAt DEF Doing
  <2>2. h.at < ReplyAt(h.op)
      BY <1>1, <2>1 DEF ReplyAt, Issuing
  <2>3. PICK n \in Handler : /\ Advanced(i, n) /\ n.new = issued'
                             /\ n.oldAccess = h.oldAccess /\ n.oldRefresh = h.oldRefresh
    <3>1. issued' \in Nat
        BY <1>1, <1>3
    <3> QED BY <1>1, <1>2, <1>3, <2>2, <3>1, Advances
  <2> QED BY <1>2, <1>3, <2>1, <2>3 DEF Others, Kinds, Live, Current, Old, Spots
<1>4. CASE /\ Doing(i, "set_refresh") /\ refresh' = refresh \cup {h.new}
           /\ UNCHANGED <<issued, access>> /\ Proceed(i)
  <2>1. backend = "redis" /\ Issuing(h) /\ h.at = 7
      BY <1>1, <1>4, CommandAt DEF Doing
  <2>2. h.at < ReplyAt(h.op)
      BY <1>1, <2>1 DEF ReplyAt, Issuing
  <2>3. PICK n \in Handler : Advanced(i, n) /\ Keeps(h, n)
      BY <1>1, <1>2, <1>4, <2>2, Advances
  <2> QED BY <1>2, <1>4, <2>1, <2>3 DEF Others, Kinds, Live, Current, Old, Spots, Keeps
<1> QED BY <1>3, <1>4 DEF SetLease

LEMMA CurrentStep ==
    ASSUME TypeInv, NEW i \in Handlers, SetCurrent(i)
    PROVE  \E k \in Kinds, n \in Handler :
              /\ Advanced(i, n) /\ Keeps(handlers[i], n) /\ Others(k, handlers[i], n)
              /\ backend = "redis" /\ Issuing(handlers[i]) /\ handlers[i].at = Spots(k).current
              /\ Live(k)' = Live(k) /\ Current(k)' = handlers[i].new
<1> DEFINE h == handlers[i]
<1>1. h.op \in {"register", "refresh", "delete"} /\ Active(i) /\ issued \in Nat
    BY DEF TypeInv, LeaseType, HandlerType, Handler, SetCurrent, Doing, Active
<1>2. UNCHANGED <<backend, access, refresh>> /\ Proceed(i)
    BY DEF SetCurrent, OutsideHub
<1>3. ASSUME h.at < ReplyAt(h.op) PROVE \E n \in Handler : Advanced(i, n) /\ Keeps(h, n)
    BY <1>1, <1>2, <1>3, Advances
<1>4. CASE Doing(i, "set_current_access") /\ curAccess' = h.new /\ UNCHANGED curRefresh
  <2>1. backend = "redis" /\ Issuing(h) /\ h.at = 8
      BY <1>1, <1>4, CommandAt DEF Doing
  <2>2. PICK n \in Handler : Advanced(i, n) /\ Keeps(h, n)
      BY <1>1, <1>3, <2>1 DEF ReplyAt, Issuing
  <2> QED BY <1>2, <1>4, <2>1, <2>2 DEF Others, Kinds, Live, Current, Old, Spots, Keeps
<1>5. CASE Doing(i, "set_current_refresh") /\ curRefresh' = h.new /\ UNCHANGED curAccess
  <2>1. backend = "redis" /\ Issuing(h) /\ h.at = 9
      BY <1>1, <1>5, CommandAt DEF Doing
  <2>2. PICK n \in Handler : Advanced(i, n) /\ Keeps(h, n)
      BY <1>1, <1>3, <2>1 DEF ReplyAt, Issuing
  <2> QED BY <1>2, <1>5, <2>1, <2>2 DEF Others, Kinds, Live, Current, Old, Spots, Keeps
<1> QED BY <1>4, <1>5 DEF SetCurrent

LEMMA ForgetStep ==
    ASSUME TypeInv, NEW i \in Handlers, DelCurrent(i)
    PROVE  \E k \in Kinds, n \in Handler :
              /\ Advanced(i, n) /\ Keeps(handlers[i], n) /\ Others(k, handlers[i], n)
              /\ backend = "redis" /\ ~Issuing(handlers[i]) /\ handlers[i].at = Spots(k).gone
              /\ Live(k)' = Live(k) /\ Current(k)' = None
<1> DEFINE h == handlers[i]
<1>1. h.op \in {"register", "refresh", "delete"} /\ Active(i) /\ issued \in Nat
    BY DEF TypeInv, LeaseType, HandlerType, Handler, DelCurrent, Doing, Active
<1>2. UNCHANGED <<backend, access, refresh>> /\ Proceed(i)
    BY DEF DelCurrent, OutsideHub
<1>3. ASSUME h.at < ReplyAt(h.op) PROVE \E n \in Handler : Advanced(i, n) /\ Keeps(h, n)
    BY <1>1, <1>2, <1>3, Advances
<1>4. CASE Doing(i, "del_current_access") /\ curAccess' = None /\ UNCHANGED curRefresh
  <2>1. backend = "redis" /\ ~Issuing(h) /\ h.at = 4
      BY <1>1, <1>4, CommandAt DEF Doing
  <2>2. PICK n \in Handler : Advanced(i, n) /\ Keeps(h, n)
      BY <1>1, <1>3, <2>1 DEF ReplyAt, Issuing
  <2> QED BY <1>2, <1>4, <2>1, <2>2 DEF Others, Kinds, Live, Current, Old, Spots, Keeps
<1>5. CASE Doing(i, "del_current_refresh") /\ curRefresh' = None /\ UNCHANGED curAccess
  <2>1. backend = "redis" /\ ~Issuing(h) /\ h.at = 5
      BY <1>1, <1>5, CommandAt DEF Doing
  <2>2. PICK n \in Handler : Advanced(i, n) /\ Keeps(h, n)
      BY <1>1, <1>3, <2>1 DEF ReplyAt, Issuing
  <2> QED BY <1>2, <1>5, <2>1, <2>2 DEF Others, Kinds, Live, Current, Old, Spots, Keeps
<1> QED BY <1>4, <1>5 DEF DelCurrent

LEMMA RowStep ==
    ASSUME TypeInv, NEW i \in Handlers, SaveNode(i) \/ DeleteRow(i)
    PROVE  /\ \E n \in Handler : Advanced(i, n) /\ Keeps(handlers[i], n)
           /\ handlers[i].at > (IF backend = "memory" THEN 2
                                ELSE IF Issuing(handlers[i]) THEN 9 ELSE 7)
           /\ DeleteRow(i) => ~Issuing(handlers[i])
<1> DEFINE h == handlers[i]
<1>1. /\ h.op \in {"register", "refresh", "delete"} /\ Active(i) /\ issued \in Nat
      /\ backend \in {"redis", "memory"}
    BY DEF TypeInv, BaseType, LeaseType, HandlerType, Handler, SaveNode, DeleteRow, Doing, Active
<1>2. UNCHANGED backend /\ Proceed(i)
    BY DEF SaveNode, DeleteRow, OutsideHub
<1>3. \/ h.op = "register" /\ h.at = (IF backend = "memory" THEN 3 ELSE 10)
      \/ h.op = "delete" /\ h.at = (IF backend = "memory" THEN 3 ELSE 8)
    BY <1>1, CommandAt DEF SaveNode, DeleteRow, Doing
<1>4. DeleteRow(i) => h.op = "delete"
    BY <1>1, CommandAt DEF DeleteRow, Doing
<1>5. h.at < ReplyAt(h.op)
    BY <1>1, <1>3 DEF ReplyAt
<1>6. \E n \in Handler : Advanced(i, n) /\ Keeps(h, n)
    BY <1>1, <1>2, <1>5, Advances
<1> QED BY <1>1, <1>3, <1>4, <1>6 DEF Issuing

LEMMA IssueStep ==
    ASSUME TypeInv, NEW i \in Handlers, MemoryIssue(i)
    PROVE  /\ \E n \in Handler : /\ Advanced(i, n) /\ n.new = issued'
                                 /\ \A k \in Kinds : Old(k, n) = Old(k, handlers[i])
           /\ backend = "memory" /\ Issuing(handlers[i]) /\ handlers[i].at = 2
           /\ issued' = issued + 1
           /\ \A k \in Kinds : /\ Live(k)' = (Live(k) \ {Current(k)}) \cup {issued'}
                               /\ Current(k)' = issued'
<1> DEFINE h == handlers[i]
<1>1. /\ h.op \in {"register", "refresh", "delete"} /\ Active(i) /\ issued \in Nat
      /\ issued' \in Nat
    BY DEF TypeInv, LeaseType, HandlerType, Handler, MemoryIssue, Doing, Active
<1>2. UNCHANGED backend /\ Advance(i, [h EXCEPT !.new = issued'])
    BY DEF MemoryIssue, OutsideHub
<1>3. backend = "memory" /\ Issuing(h) /\ h.at = 2
    BY <1>1, CommandAt DEF MemoryIssue, Doing
<1>4. h.at < ReplyAt(h.op)
    BY <1>1, <1>3 DEF ReplyAt
<1>5. \E n \in Handler : /\ Advanced(i, n) /\ n.new = issued'
                         /\ n.oldAccess = h.oldAccess /\ n.oldRefresh = h.oldRefresh
    BY <1>1, <1>2, <1>4, Advances
<1> QED BY <1>3, <1>5 DEF MemoryIssue, Kinds, Live, Current, Old

LEMMA RevokeStep ==
    ASSUME TypeInv, NEW i \in Handlers, MemoryRevoke(i)
    PROVE  /\ \E n \in Handler : Advanced(i, n) /\ Keeps(handlers[i], n)
           /\ backend = "memory" /\ ~Issuing(handlers[i]) /\ handlers[i].at = 2
           /\ \A k \in Kinds : Live(k)' = Live(k) \ {Current(k)} /\ Current(k)' = None
<1> DEFINE h == handlers[i]
<1>1. /\ h.op \in {"register", "refresh", "delete"} /\ Active(i) /\ issued \in Nat
    BY DEF TypeInv, LeaseType, HandlerType, Handler, MemoryRevoke, Doing, Active
<1>2. UNCHANGED backend /\ Proceed(i)
    BY DEF MemoryRevoke, OutsideHub
<1>3. backend = "memory" /\ ~Issuing(h) /\ h.at = 2
    BY <1>1, CommandAt DEF MemoryRevoke, Doing
<1>4. h.at < ReplyAt(h.op)
    BY <1>1, <1>3 DEF ReplyAt
<1>5. \E n \in Handler : Advanced(i, n) /\ Keeps(h, n)
    BY <1>1, <1>2, <1>4, Advances
<1> QED BY <1>3, <1>5 DEF MemoryRevoke, Kinds, Live, Current

LEMMA CheckStep ==
    ASSUME TypeInv, NEW i \in Handlers, Check(i)
    PROVE  /\ \E n \in Handler : Advanced(i, n) /\ Keeps(handlers[i], n)
           /\ handlers[i].at = 1
           /\ UNCHANGED storeVars
<1> DEFINE h == handlers[i]
<1>1. /\ h.op \in {"register", "refresh", "delete"} /\ Active(i) /\ issued \in Nat
    BY DEF TypeInv, LeaseType, HandlerType, Handler, Check, Active
<1>2. UNCHANGED <<backend, storeVars>> /\ Proceed(i)
    BY DEF Check
<1>3. h.at = 1
    BY <1>1, CommandAt DEF Check
<1>4. h.at < ReplyAt(h.op)
    BY <1>1, <1>3 DEF ReplyAt
<1>5. \E n \in Handler : Advanced(i, n) /\ Keeps(h, n)
    BY <1>1, <1>2, <1>4, Advances
<1> QED BY <1>2, <1>3, <1>5

LEMMA EndStep ==
    ASSUME TypeInv, UNCHANGED <<backend, issued>>, NEW i \in Handlers, End(i)
    PROVE  Replaced(i, NoHandler) /\ HandlerType'
<1>1. NoHandler \in Handler
    BY DEF NoHandler, Handler, None
<1>2. PICK n : n = NoHandler
    OBVIOUS
<1>3. Replaced(i, n)
    BY <1>1, <1>2 DEF Replaced, End
<1>4. Sound(n)'
    BY <1>2 DEF Sound, NoHandler, Holding, Old, Issuing, None, TypeInv, LeaseType, Kinds
<1>5. HandlerType'
    BY <1>3, <1>4, ReplacedType DEF TypeInv, LeaseType
<1> QED BY <1>2, <1>3, <1>5

\* A request arrives; the client of an administrator's is not modelled.
Arrived(i, op, token) ==
    \E w \in BOOLEAN : (w => op # "delete") /\ Accept(i, op, token, w)

LEMMA Arrives ==
    ASSUME NEW i \in Handlers, NEW op, NEW token
    PROVE  /\ Accept(i, op, token, FALSE) => Arrived(i, op, token)
           /\ Accept(i, op, token, TRUE) /\ op # "delete" => Arrived(i, op, token)
BY Zenon DEF Arrived

LEMMA AcceptStep ==
    ASSUME TypeInv, UNCHANGED <<backend, issued>>, NEW i \in Handlers,
           NEW op \in {"register", "refresh", "delete"}, NEW token \in 0..issued,
           Arrived(i, op, token)
    PROVE  HandlerType' /\ \E n \in Handler : Replaced(i, n) /\ n.at = 1 /\ n.op = op
<1>0. PICK waiting \in BOOLEAN : (waiting => op # "delete") /\ Accept(i, op, token, waiting)
    BY DEF Arrived
<1> DEFINE n == [NoHandler EXCEPT !.op = op, !.token = token, !.waiting = waiting]
<1>1. /\ n.op = op /\ n.at = 1 /\ n.token = token /\ n.waiting = waiting
      /\ n.oldAccess = None /\ n.oldRefresh = None /\ n.new = None
      /\ n \in Handler /\ issued \in Nat
  <2>1. issued \in Nat
      BY DEF TypeInv, LeaseType
  <2>2. NoHandler \in Handler
      BY DEF NoHandler, Handler, None
  <2>3. n \in Handler
    <3>1. token \in Nat /\ op \in {"none", "register", "refresh", "delete"}
        BY <2>1
    <3>2. CASE waiting = TRUE
        BY <2>2, <3>1, <3>2 DEF Handler
    <3>3. CASE waiting = FALSE
        BY <2>2, <3>1, <3>3 DEF Handler
    <3> QED BY <3>2, <3>3
  <2>4. NoHandler.at = 1 /\ NoHandler.oldAccess = None /\ NoHandler.oldRefresh = None
        /\ NoHandler.new = None
      BY DEF NoHandler
  <2>5. /\ n.op = op /\ n.at = NoHandler.at /\ n.token = token /\ n.waiting = waiting
        /\ n.oldAccess = NoHandler.oldAccess /\ n.oldRefresh = NoHandler.oldRefresh
        /\ n.new = NoHandler.new
      BY <2>2 DEF Handler
  <2> QED BY <2>1, <2>3, <2>4, <2>5
<1>2. handlers' = [handlers EXCEPT ![i] = n]
    BY <1>0 DEF Accept
<1> HIDE DEF n
<1>3. n \in Handler
    BY <1>1
<1>4. PICK m : m = n
    OBVIOUS
<1>5. Sound(m)'
  <2>1. /\ ReplyAt(op)' \in 3..11
    <3>1. backend' \in {"redis", "memory"}
        BY DEF TypeInv, BaseType
    <3> QED BY <3>1 DEF ReplyAt
  <2>2. m.at = 1 /\ m.op = op /\ m.waiting = waiting /\ m.token = token
        /\ m.oldAccess = 0 /\ m.oldRefresh = 0 /\ m.new = 0
      BY <1>1, <1>4 DEF None
  <2>3. 1 <= ReplyAt(m.op)'
      BY <2>1, <2>2
  <2>4. Spots("access").lease' >= 2
      BY DEF Spots
  <2>5. \A k \in Kinds : Holding(k, m)'
      BY <2>2 DEF Holding, Old, None
  <2>6. Issuing(m) /\ m.at > Spots("access").lease' => FALSE
      BY <2>2, <2>4 DEF Spots
  <2> QED BY <1>0, <1>1, <2>2, <2>3, <2>5, <2>6 DEF Sound, Issuing
<1>6. m \in Handler /\ Replaced(i, m) /\ m.at = 1 /\ m.op = op
    BY <1>1, <1>2, <1>3, <1>4 DEF Replaced
<1>7. HandlerType'
    BY <1>1, <1>5, <1>6, ReplacedType
<1> QED BY <1>6, <1>7

-----------------------------------------------------------------------------
(***************************************************************************)
(* Types are kept.                                                         *)
(***************************************************************************)
LEMMA KindTypes ==
    ASSUME LeaseType, NEW k \in Kinds
    PROVE  Live(k) \subseteq 1..issued /\ Current(k) \in 0..issued
BY DEF LeaseType, Live, Current

LEMMA TypesOfKinds ==
    ASSUME issued' \in Nat,
           \A k \in Kinds : Live(k)' \subseteq 1..issued' /\ Current(k)' \in 0..issued'
    PROVE  LeaseType'
<1>1. Live("access")' \subseteq 1..issued' /\ Current("access")' \in 0..issued'
    BY DEF Kinds
<1>2. Live("refresh")' \subseteq 1..issued' /\ Current("refresh")' \in 0..issued'
    BY DEF Kinds
<1> QED BY <1>1, <1>2 DEF LeaseType, Live, Current

LEMMA AgentTyped ==
    ASSUME AgentType, issued \in Nat, issued' \in Nat, issued <= issued', UNCHANGED agent
    PROVE  AgentType'
BY DEF AgentType

LEMMA HandlerFacts ==
    ASSUME TypeInv, NEW i \in Handlers
    PROVE  LET h == handlers[i] IN
           /\ h \in Handler /\ h.at \in 1..11 /\ issued \in Nat
           /\ h.oldAccess \in 0..issued /\ h.oldRefresh \in 0..issued /\ h.new \in 0..issued
           /\ h.token \in 0..issued
           /\ Issuing(h) /\ h.at > Spots("access").lease => h.new \in 1..issued
           /\ \A k \in Kinds : Holding(k, h)
           /\ backend \in {"redis", "memory"}
BY DEF TypeInv, BaseType, LeaseType, HandlerType, Handler, Sound

LEMMA CheckTyped ==
    ASSUME TypeInv, NEW i \in Handlers, Check(i)
    PROVE  TypeInv'
<1> DEFINE h == handlers[i]
<1>1. PICK n \in Handler : Advanced(i, n) /\ Keeps(h, n)
    BY CheckStep
<1>2. h.at = 1 /\ UNCHANGED <<backend, row, issued, access, refresh, curAccess, curRefresh, agent, lost>>
    BY CheckStep DEF Check, storeVars
<1>3. n.at = 2 /\ \A k \in Kinds : Old(k, n) = None /\ Spots(k).lease >= 2
    BY <1>1, <1>2, HandlerFacts DEF Holding, Advanced, Keeps, Old, Spots, Kinds
<1>4. \A k \in Kinds : Holding(k, n)
    BY <1>3 DEF Holding
<1>5. HandlerType'
  <2>1. {n.oldAccess, n.oldRefresh, n.new} \subseteq 0..issued' /\ issued \in Nat
      BY <1>1, <1>2, HandlerFacts DEF Keeps
  <2>2. ~(n.at > Spots("access").lease)
      BY <1>3 DEF Kinds, Spots
  <2> QED BY <1>1, <1>2, <1>4, <2>1, <2>2, AdvancedType
<1>6. upsets' \in Nat
    BY DEF Check, TypeInv, BaseType
<1> QED BY <1>2, <1>5, <1>6 DEF TypeInv, BaseType, LeaseType, AgentType

LEMMA IssueTyped ==
    ASSUME TypeInv, NEW i \in Handlers, MemoryIssue(i)
    PROVE  TypeInv'
<1> DEFINE h == handlers[i]
<1>1. PICK n \in Handler : /\ Advanced(i, n) /\ n.new = issued'
                           /\ \A k \in Kinds : Old(k, n) = Old(k, h)
    BY IssueStep
<1>2. /\ backend = "memory" /\ issued' = issued + 1 /\ issued \in Nat
      /\ UNCHANGED <<backend, row, agent, lost, upsets>>
    BY IssueStep, HandlerFacts DEF MemoryIssue, OutsideHub
<1>3. \A k \in Kinds : Old(k, h) = None
    BY <1>2, HandlerFacts DEF Holding
<1>4. \A k \in Kinds : Holding(k, n) /\ Old(k, n) = None
    BY <1>1, <1>3 DEF Holding
<1>5. n.oldAccess = 0 /\ n.oldRefresh = 0
    BY <1>4 DEF Kinds, Old, None
<1>6. HandlerType'
  <2>1. {n.oldAccess, n.oldRefresh, n.new} \subseteq 0..issued' /\ n.new \in 1..issued'
      BY <1>1, <1>2, <1>5
  <2> QED BY <1>1, <1>2, <1>4, <2>1, AdvancedType
<1>7. LeaseType'
    BY <1>2, IssueStep, KindTypes, TypesOfKinds DEF TypeInv
<1>8. AgentType'
    BY <1>2, AgentTyped DEF TypeInv
<1> QED BY <1>2, <1>6, <1>7, <1>8 DEF TypeInv, BaseType

LEMMA RevokeTyped ==
    ASSUME TypeInv, NEW i \in Handlers, MemoryRevoke(i)
    PROVE  TypeInv'
<1> DEFINE h == handlers[i]
<1>1. PICK n \in Handler : Advanced(i, n) /\ Keeps(h, n)
    BY RevokeStep
<1>2. /\ backend = "memory" /\ issued \in Nat /\ ~Issuing(h)
      /\ UNCHANGED <<backend, row, issued, agent, lost, upsets>>
    BY RevokeStep, HandlerFacts DEF MemoryRevoke, OutsideHub
<1>3. \A k \in Kinds : Old(k, h) = None
    BY <1>2, HandlerFacts DEF Holding
<1>4. \A k \in Kinds : Holding(k, n)
    BY <1>1, <1>3 DEF Holding, Keeps, Old
<1>5. HandlerType'
  <2>1. {n.oldAccess, n.oldRefresh, n.new} \subseteq 0..issued'
      BY <1>1, <1>2, HandlerFacts DEF Keeps
  <2>2. ~Issuing(n)
      BY <1>1, <1>2 DEF Issuing, Advanced
  <2> QED BY <1>1, <1>2, <1>4, <2>1, <2>2, AdvancedType
<1>6. LeaseType'
  <2>1. None \in 0..issued
      BY <1>2 DEF None
  <2> QED BY <1>2, <2>1, RevokeStep, KindTypes, TypesOfKinds DEF TypeInv
<1>7. AgentType'
    BY <1>2, AgentTyped DEF TypeInv
<1> QED BY <1>2, <1>5, <1>6, <1>7 DEF TypeInv, BaseType

LEMMA GetTyped ==
    ASSUME TypeInv, NEW i \in Handlers, GetCurrent(i)
    PROVE  TypeInv'
<1> DEFINE h == handlers[i]
<1>1. PICK k \in Kinds, n \in Handler :
              /\ Advanced(i, n) /\ Others(k, h, n)
              /\ backend = "redis" /\ h.at = Spots(k).get
              /\ Old(k, n) = Current(k) /\ n.new = h.new
    BY GetStep
<1>2. UNCHANGED <<backend, row, issued, access, refresh, curAccess, curRefresh, agent, lost, upsets>>
    BY DEF GetCurrent, OutsideHub, storeVars
<1>3. n.at = h.at + 1 /\ h.at \in 1..11 /\ n.op = h.op /\ issued \in Nat
    BY <1>1, HandlerFacts DEF Advanced
<1>4. /\ Spots(k).get < Spots(k).free /\ Spots(k).get < Spots(k).freed
      /\ Spots(k).get \in Nat /\ Spots(k).free \in Nat /\ Spots(k).freed \in Nat
      /\ Spots("access").lease > Spots(k).get + 1
    BY <1>1 DEF Spots, Kinds
<1>5. ASSUME NEW q \in Kinds PROVE Holding(q, n)
  <2>1. CASE q = k
      BY <1>1, <1>3, <1>4, <2>1 DEF Holding
  <2>2. CASE q # k
    <3>1. Old(q, n) = Old(q, h) /\ Holding(q, h)
        BY <1>1, <2>2, HandlerFacts DEF Others
    <3> QED BY <1>1, <1>3, <2>2, <3>1 DEF Holding, Spots, Kinds, Issuing
  <2> QED BY <2>1, <2>2
<1>6. {n.oldAccess, n.oldRefresh, n.new} \subseteq 0..issued'
  <2>1. Old(k, n) \in 0..issued /\ n.new \in 0..issued
      BY <1>1, KindTypes, HandlerFacts DEF TypeInv
  <2>2. \A q \in Kinds \ {k} : Old(q, n) \in 0..issued
      BY <1>1, HandlerFacts DEF Others, Old
  <2> QED BY <1>2, <2>1, <2>2 DEF Old, Kinds
<1>7. HandlerType'
  <2>1. ~(n.at > Spots("access").lease)
      BY <1>1, <1>3, <1>4 DEF Spots
  <2> QED BY <1>1, <1>2, <1>3, <1>5, <1>6, <2>1, AdvancedType
<1> QED BY <1>2, <1>7 DEF TypeInv, BaseType, LeaseType, AgentType

LEMMA DelTyped ==
    ASSUME TypeInv, NEW i \in Handlers, DelLease(i)
    PROVE  TypeInv'
<1> DEFINE h == handlers[i]
<1>1. PICK k \in Kinds, n \in Handler :
              /\ Advanced(i, n) /\ Others(k, h, n) /\ backend = "redis"
              /\ h.at = IF Issuing(h) THEN Spots(k).free ELSE Spots(k).freed
              /\ Old(k, n) = None /\ n.new = h.new
              /\ Live(k)' = Live(k) \ {Old(k, h)} /\ Current(k)' = Current(k)
    BY DelStep
<1>2. UNCHANGED <<backend, row, issued, agent, lost, upsets>>
    BY DEF DelLease, OutsideHub
<1>3. n.at = h.at + 1 /\ h.at \in 1..11 /\ n.op = h.op /\ issued \in Nat
    BY <1>1, HandlerFacts DEF Advanced
<1>4. ASSUME NEW q \in Kinds PROVE Holding(q, n)
  <2>1. CASE q = k
      BY <1>1, <2>1 DEF Holding
  <2>2. CASE q # k
    <3>1. Old(q, n) = Old(q, h) /\ Holding(q, h)
        BY <1>1, <2>2, HandlerFacts DEF Others
    <3> QED BY <1>1, <1>3, <2>2, <3>1 DEF Holding, Spots, Kinds, Issuing
  <2> QED BY <2>1, <2>2
<1>5. {n.oldAccess, n.oldRefresh, n.new} \subseteq 0..issued'
  <2>1. Old(k, n) \in 0..issued /\ n.new \in 0..issued
      BY <1>1, <1>3, HandlerFacts DEF None
  <2>2. \A q \in Kinds \ {k} : Old(q, n) \in 0..issued
      BY <1>1, HandlerFacts DEF Others, Old
  <2> QED BY <1>2, <2>1, <2>2 DEF Old, Kinds
<1>6. HandlerType'
  <2>1. Issuing(n) => ~(n.at > Spots("access").lease)
      BY <1>1, <1>3 DEF Spots, Kinds, Issuing
  <2> QED BY <1>1, <1>2, <1>3, <1>4, <1>5, <2>1, AdvancedType
<1>7. LeaseType'
  <2>1. \A q \in Kinds : Live(q)' \subseteq Live(q) /\ Current(q)' = Current(q)
      BY <1>1 DEF Others
  <2> QED BY <1>2, <1>3, <2>1, KindTypes, TypesOfKinds DEF TypeInv
<1> QED BY <1>2, <1>6, <1>7 DEF TypeInv, BaseType, AgentType

LEMMA SetTyped ==
    ASSUME TypeInv, NEW i \in Handlers, SetLease(i)
    PROVE  TypeInv'
<1> DEFINE h == handlers[i]
<1>1. PICK k \in Kinds, n \in Handler :
              /\ Advanced(i, n) /\ Others(k, h, n)
              /\ backend = "redis" /\ Issuing(h) /\ h.at = Spots(k).lease
              /\ Old(k, n) = Old(k, h)
              /\ IF k = "access" THEN issued' = issued + 1 /\ n.new = issued'
                 ELSE issued' = issued /\ n.new = h.new
              /\ Live(k)' = Live(k) \cup {n.new} /\ Current(k)' = Current(k)
    BY SetStep
<1>2. UNCHANGED <<backend, row, agent, lost, upsets>>
    BY DEF SetLease, OutsideHub
<1>3. n.at = h.at + 1 /\ h.at \in 1..11 /\ n.op = h.op /\ issued \in Nat
    BY <1>1, HandlerFacts DEF Advanced
<1>4. issued' \in Nat /\ issued <= issued' /\ n.new \in 1..issued'
  <2>1. CASE k = "access"
      BY <1>1, <1>3, <2>1
  <2>2. CASE k = "refresh"
    <3>1. h.at > Spots("access").lease /\ issued' = issued /\ n.new = h.new
        BY <1>1, <2>2 DEF Spots
    <3> QED BY <1>1, <1>3, <3>1, HandlerFacts
  <2> QED BY <2>1, <2>2 DEF Kinds
<1>5. ASSUME NEW q \in Kinds PROVE Holding(q, n) /\ Old(q, n) = Old(q, h)
  <2>1. Old(q, n) = Old(q, h) /\ Holding(q, h)
      BY <1>1, HandlerFacts DEF Others
  <2> QED BY <1>1, <1>3, <2>1 DEF Holding, Spots, Kinds, Issuing
<1>6. {n.oldAccess, n.oldRefresh, n.new} \subseteq 0..issued'
  <2>1. n.oldAccess = h.oldAccess /\ n.oldRefresh = h.oldRefresh
      BY <1>5 DEF Kinds, Old
  <2> QED BY <1>4, <1>3, <2>1, HandlerFacts
<1>7. HandlerType'
    BY <1>1, <1>4, <1>5, <1>6, AdvancedType
<1>8. LeaseType'
  <2>1. ASSUME NEW q \in Kinds
        PROVE  Live(q)' \subseteq Live(q) \cup {n.new} /\ Current(q)' = Current(q)
      BY <1>1 DEF Others
  <2>2. ASSUME NEW q \in Kinds
        PROVE  Live(q)' \subseteq 1..issued' /\ Current(q)' \in 0..issued'
    <3>1. Live(q) \subseteq 1..issued /\ Current(q) \in 0..issued
        BY KindTypes DEF TypeInv
    <3> QED BY <1>3, <1>4, <2>1, <3>1
  <2> QED BY <1>4, <2>2, TypesOfKinds
<1>9. AgentType'
    BY <1>2, <1>3, <1>4, AgentTyped DEF TypeInv
<1> QED BY <1>2, <1>7, <1>8, <1>9 DEF TypeInv, BaseType

LEMMA CurrentTyped ==
    ASSUME TypeInv, NEW i \in Handlers, SetCurrent(i) \/ DelCurrent(i)
    PROVE  TypeInv'
<1> DEFINE h == handlers[i]
<1>1. PICK k \in Kinds, n \in Handler :
              /\ Advanced(i, n) /\ Keeps(h, n) /\ Others(k, h, n) /\ backend = "redis"
              /\ \/ Issuing(h) /\ h.at = Spots(k).current /\ Current(k)' = h.new
                 \/ ~Issuing(h) /\ h.at = Spots(k).gone /\ Current(k)' = None
              /\ Live(k)' = Live(k)
    BY CurrentStep, ForgetStep
<1>2. UNCHANGED <<backend, row, issued, agent, lost, upsets>>
    BY DEF SetCurrent, DelCurrent, OutsideHub
<1>3. n.at = h.at + 1 /\ h.at \in 1..11 /\ n.op = h.op /\ issued \in Nat
    BY <1>1, HandlerFacts DEF Advanced
<1>4. ASSUME NEW q \in Kinds PROVE Holding(q, n)
  <2>1. Old(q, n) = Old(q, h) /\ Holding(q, h)
      BY <1>1, HandlerFacts DEF Keeps, Old
  <2> QED BY <1>1, <1>3, <2>1 DEF Holding, Spots, Kinds, Issuing
<1>5. HandlerType'
  <2>1. {n.oldAccess, n.oldRefresh, n.new} \subseteq 0..issued'
      BY <1>1, <1>2, HandlerFacts DEF Keeps
  <2>2. Issuing(n) => Issuing(h) /\ h.at > Spots("access").lease
      BY <1>1, <1>3 DEF Spots, Kinds, Issuing
  <2>3. Issuing(n) => n.new \in 1..issued'
      BY <1>1, <1>2, <2>2, HandlerFacts DEF Keeps
  <2> QED BY <1>1, <1>2, <1>3, <1>4, <2>1, <2>3, AdvancedType
<1>6. LeaseType'
  <2>1. h.new \in 0..issued /\ None \in 0..issued
      BY <1>3, HandlerFacts DEF None
  <2>2. \A q \in Kinds : Live(q)' = Live(q) /\ (Current(q)' = Current(q) \/ Current(q)' \in 0..issued)
      BY <1>1, <2>1 DEF Others
  <2> QED BY <1>2, <1>3, <2>2, KindTypes, TypesOfKinds DEF TypeInv
<1> QED BY <1>2, <1>5, <1>6 DEF TypeInv, BaseType, AgentType

LEMMA RowTyped ==
    ASSUME TypeInv, NEW i \in Handlers, SaveNode(i) \/ DeleteRow(i)
    PROVE  TypeInv'
<1> DEFINE h == handlers[i]
<1>1. PICK n \in Handler : Advanced(i, n) /\ Keeps(h, n)
    BY RowStep
<1>2. /\ UNCHANGED <<backend, issued, access, refresh, curAccess, curRefresh, agent, lost, upsets>>
      /\ row' \in {"registered", "gone"}
    BY DEF SaveNode, DeleteRow, OutsideHub, storeVars
<1>3. n.at = h.at + 1 /\ h.at \in 1..11 /\ n.op = h.op /\ issued \in Nat
      /\ backend \in {"redis", "memory"}
    BY <1>1, HandlerFacts DEF Advanced
<1>4. h.at > (IF backend = "memory" THEN 2 ELSE IF Issuing(h) THEN 9 ELSE 7)
    BY RowStep
<1>5. ASSUME NEW q \in Kinds PROVE Holding(q, n)
  <2>1. Old(q, n) = Old(q, h) /\ Holding(q, h)
      BY <1>1, HandlerFacts DEF Keeps, Old
  <2> QED BY <1>3, <1>4, <2>1 DEF Holding, Spots, Kinds, Issuing
<1>6. HandlerType'
  <2>1. {n.oldAccess, n.oldRefresh, n.new} \subseteq 0..issued'
      BY <1>1, <1>2, HandlerFacts DEF Keeps
  <2>2. Issuing(n) => Issuing(h) /\ h.at > Spots("access").lease
      BY <1>3, <1>4 DEF Spots, Kinds, Issuing
  <2>3. Issuing(n) => n.new \in 1..issued'
      BY <1>1, <1>2, <2>2, HandlerFacts DEF Keeps
  <2> QED BY <1>1, <1>2, <1>3, <1>5, <2>1, <2>3, AdvancedType
<1> QED BY <1>2, <1>6 DEF TypeInv, BaseType, LeaseType, AgentType

LEMMA HubTyped ==
    ASSUME TypeInv, NEW i \in Handlers, HubStep(i)
    PROVE  TypeInv'
<1>1. CASE EndUnheard(i)
  <2>1. /\ UNCHANGED <<backend, row, issued, access, refresh, curAccess, curRefresh, agent, lost, upsets>>
        /\ End(i)
      BY <1>1 DEF EndUnheard, OutsideHub, storeVars
  <2>2. HandlerType'
      BY <2>1, EndStep
  <2> QED BY <2>1, <2>2 DEF TypeInv, BaseType, LeaseType, AgentType
<1> QED BY <1>1, CheckTyped, IssueTyped, RevokeTyped, GetTyped, DelTyped, SetTyped, CurrentTyped,
           RowTyped DEF HubStep

LEMMA RequestTyped ==
    ASSUME TypeInv, NEW i \in Handlers,
           \/ DeleteNode(i) \/ Register(i) \/ Start(i) \/ RenewSession(i) \/ Rejected(i)
    PROVE  TypeInv'
<1>1. /\ UNCHANGED <<backend, row, issued, access, refresh, curAccess, curRefresh, upsets>>
      /\ lost' \in BOOLEAN
    BY DEF DeleteNode, Register, Start, RenewSession, Rejected, SendRefresh, OutsideAgent, storeVars,
           TypeInv, BaseType
<1>2. agent \in [pc: {"uninstalled", "registering", "down", "refreshing", "persist", "work"},
                 token: 0..issued, disk: 0..issued, access: 0..issued] /\ issued \in Nat
    BY DEF TypeInv, AgentType, LeaseType
<1>3. CASE DeleteNode(i)
  <2>1. Arrived(i, "delete", 0) /\ UNCHANGED agent
      BY <1>3, Arrives, Zenon DEF DeleteNode, None
  <2>2. HandlerType'
      BY <1>1, <1>2, <2>1, AcceptStep
  <2> QED BY <1>1, <2>1, <2>2 DEF TypeInv, BaseType, LeaseType, AgentType
<1>4. CASE Register(i)
  <2>1. Arrived(i, "register", 0) /\ agent' = [agent EXCEPT !.pc = "registering"]
      BY <1>4, Arrives, Zenon DEF Register, None
  <2>2. HandlerType'
      BY <1>1, <1>2, <2>1, AcceptStep
  <2>3. AgentType'
      BY <1>1, <1>2, <2>1 DEF AgentType
  <2> QED BY <1>1, <2>2, <2>3 DEF TypeInv, BaseType, LeaseType
<1>5. ASSUME NEW token \in 0..issued, SendRefresh(i, token)
      PROVE  TypeInv'
  <2>1. /\ Arrived(i, "refresh", token)
        /\ agent' = [agent EXCEPT !.pc = "refreshing", !.token = token, !.access = 0]
    <3>1. Accept(i, "refresh", token, TRUE) => Arrived(i, "refresh", token)
      <4>1. "refresh" # "delete"
          OBVIOUS
      <4> QED BY <4>1, Arrives, Zenon
    <3> QED BY <1>5, <3>1 DEF SendRefresh, None
  <2>2. HandlerType'
      BY <1>1, <1>2, <2>1, AcceptStep
  <2>3. AgentType'
    <3>1. agent' = [agent EXCEPT !.pc = "refreshing", !.token = token, !.access = 0]
        BY <2>1
    <3>2. issued' = issued /\ 0 \in 0..issued
        BY <1>1, <1>2
    <3> QED BY <1>2, <1>5, <3>1, <3>2 DEF AgentType
  <2> QED BY <1>1, <2>2, <2>3 DEF TypeInv, BaseType, LeaseType
<1>6. agent.disk \in 0..issued /\ agent.token \in 0..issued
    BY <1>2
<1> QED BY <1>3, <1>4, <1>5, <1>6 DEF Start, RenewSession, Rejected

LEMMA AnswerTyped ==
    ASSUME TypeInv, NEW i \in Handlers, RegisterAnswer(i) \/ RefreshAnswer(i)
    PROVE  TypeInv'
<1>1. /\ UNCHANGED <<backend, row, issued, access, refresh, curAccess, curRefresh, lost, upsets>>
      /\ End(i)
    BY DEF RegisterAnswer, RefreshAnswer, OutsideAgent, storeVars
<1>2. HandlerType'
    BY <1>1, EndStep
<1>3. /\ agent \in [pc: {"uninstalled", "registering", "down", "refreshing", "persist", "work"},
                    token: 0..issued, disk: 0..issued, access: 0..issued]
      /\ handlers[i].new \in 0..issued
    BY HandlerFacts DEF TypeInv, AgentType
<1>4. AgentType'
    BY <1>1, <1>3 DEF AgentType, RegisterAnswer, RefreshAnswer
<1> QED BY <1>1, <1>2, <1>4 DEF TypeInv, BaseType, LeaseType

LEMMA WaitStep ==
    ASSUME TypeInv, UNCHANGED <<backend, issued>>, NEW i \in Handlers, handlers[i].waiting,
           handlers' = [handlers EXCEPT ![i].waiting = FALSE]
    PROVE  /\ HandlerType'
           /\ \E n \in Handler : Replaced(i, n) /\ n.op = handlers[i].op /\ n.at = handlers[i].at
                     /\ Keeps(handlers[i], n)
<1> DEFINE h == handlers[i]
           m == [h EXCEPT !.waiting = FALSE]
<1>1. h \in Handler /\ Sound(h) /\ issued \in Nat
    BY DEF TypeInv, HandlerType, LeaseType
<1>2. /\ m \in Handler /\ m.op = h.op /\ m.at = h.at /\ m.token = h.token
      /\ m.oldAccess = h.oldAccess /\ m.oldRefresh = h.oldRefresh /\ m.new = h.new
      /\ m.waiting = FALSE
    BY <1>1 DEF Handler
<1>3. handlers' = [handlers EXCEPT ![i] = m]
    BY DEF TypeInv, HandlerType
<1> HIDE DEF m
<1>4. PICK n : n = m
    OBVIOUS
<1>5. n.op # "none"
    BY <1>1, <1>2, <1>4 DEF Sound, Issuing
<1>6. Sound(n)'
    BY <1>1, <1>2, <1>4, <1>5 DEF Sound, Holding, Old, Issuing, Spots, ReplyAt
<1>7. Replaced(i, n)
    BY <1>2, <1>3, <1>4 DEF Replaced
<1>8. HandlerType'
    BY <1>1, <1>6, <1>7, ReplacedType
<1> QED BY <1>2, <1>4, <1>7, <1>8 DEF Keeps

LEMMA HandlersStay ==
    ASSUME HandlerType, UNCHANGED <<backend, issued, handlers>>
    PROVE  HandlerType'
<1>1. ASSUME NEW h PROVE Sound(h)' <=> Sound(h)
    BY DEF Sound, Holding, Spots, ReplyAt
<1> QED BY <1>1 DEF HandlerType

\* What a fault does to requests: the agent's is given up or dropped, or one that
\* nobody waits for ends half way.
Broken == Interrupt \/ \E i \in Handlers : Abandon(i)

LEMMA OtherTyped ==
    ASSUME TypeInv, NodeMissing \/ Persist \/ Broken
    PROVE  TypeInv'
<1>1. UNCHANGED <<backend, row, issued, access, refresh, curAccess, curRefresh>>
    BY DEF NodeMissing, Persist, Broken, Interrupt, Abandon, OutsideAgent, storeVars
<1>2. agent \in [pc: {"uninstalled", "registering", "down", "refreshing", "persist", "work"},
                 token: 0..issued, disk: 0..issued, access: 0..issued]
    BY DEF TypeInv, AgentType
<1>3. AgentType'
    BY <1>1, <1>2 DEF AgentType, NodeMissing, Persist, Broken, Interrupt, Abandon
<1>4. lost' \in BOOLEAN
    BY DEF NodeMissing, Persist, Broken, Interrupt, Abandon, TypeInv, BaseType
<1>5. upsets' \in Nat
    BY DEF NodeMissing, Persist, Broken, Interrupt, Abandon, TypeInv, BaseType
<1>6. HandlerType'
  <2>1. CASE UNCHANGED handlers
      BY <1>1, <2>1, HandlersStay DEF TypeInv
  <2>2. CASE \E i \in Handlers : End(i)
      BY <1>1, <2>2, EndStep
  <2>3. CASE \E i \in Handlers : /\ handlers[i].waiting
                                 /\ handlers' = [handlers EXCEPT ![i].waiting = FALSE]
      BY <1>1, <2>3, WaitStep
  <2> QED BY <2>1, <2>2, <2>3 DEF NodeMissing, Persist, Broken, Interrupt, Abandon
<1> QED BY <1>1, <1>3, <1>4, <1>5, <1>6 DEF TypeInv, BaseType, LeaseType

LEMMA RestartTyped ==
    ASSUME TypeInv, HubRestart
    PROVE  TypeInv' /\ \A i \in Handlers : handlers'[i] = NoHandler
<1>1. UNCHANGED <<backend, row, issued, upsets>> /\ lost' \in BOOLEAN
    BY DEF HubRestart, TypeInv, BaseType
<1>2. LeaseType'
    BY <1>1 DEF HubRestart, TypeInv, LeaseType, None
<1>3. AgentType'
    BY <1>1 DEF HubRestart, TypeInv, AgentType
<1>4. \A i \in Handlers : handlers'[i] = NoHandler
    BY DEF HubRestart
<1>5. HandlerType'
  <2>1. NoHandler \in Handler
      BY DEF NoHandler, Handler, None
  <2>2. Sound(NoHandler)'
      BY <1>2 DEF Sound, NoHandler, Holding, Old, Issuing, None, LeaseType
  <2>3. handlers' \in [Handlers -> Handler]
      BY <2>1 DEF HubRestart
  <2> QED BY <1>4, <2>2, <2>3 DEF HandlerType
<1> QED BY <1>1, <1>2, <1>3, <1>4, <1>5 DEF TypeInv, BaseType

LEMMA ExpireTyped ==
    ASSUME TypeInv, NEW p, Expire(p)
    PROVE  TypeInv'
<1>1. UNCHANGED <<backend, row, issued, handlers, agent, upsets>> /\ lost' \in BOOLEAN
    BY DEF Expire, TypeInv, BaseType
<1>2. LeaseType'
  <2>1. /\ issued \in Nat /\ access \subseteq 1..issued /\ refresh \subseteq 1..issued
        /\ curAccess \in 0..issued /\ curRefresh \in 0..issued
      BY DEF TypeInv, LeaseType
  <2>2. access' \subseteq access /\ refresh' \subseteq refresh
      BY DEF Expire
  <2>3. curAccess' \in {0, curAccess} /\ curRefresh' \in {0, curRefresh}
      BY DEF Expire, None
  <2> QED BY <1>1, <2>1, <2>2, <2>3 DEF LeaseType
<1>3. HandlerType'
    BY <1>1, HandlersStay DEF TypeInv
<1> QED BY <1>1, <1>2, <1>3 DEF TypeInv, BaseType, AgentType

LEMMA InitTyped == Init => TypeInv
<1> SUFFICES ASSUME Init PROVE TypeInv
    OBVIOUS
<1>1. BaseType /\ LeaseType /\ AgentType
  <2>1. BaseType
      BY DEF Init, BaseType
  <2>2. LeaseType
      BY DEF Init, LeaseType, None
  <2>3. AgentType
      BY DEF Init, AgentType, None
  <2> QED BY <2>1, <2>2, <2>3
<1>2. HandlerType
  <2>1. NoHandler \in Handler /\ \A i \in Handlers : handlers[i] = NoHandler
      BY DEF Init, NoHandler, Handler, None
  <2>2. Sound(NoHandler)
      BY <1>1 DEF Sound, NoHandler, Holding, Old, Issuing, None, LeaseType
  <2>3. handlers \in [Handlers -> Handler]
      BY <2>1 DEF Init
  <2> QED BY <2>1, <2>2, <2>3 DEF HandlerType
<1> QED BY <1>1, <1>2 DEF TypeInv

LEMMA StepTyped == TypeInv /\ [Next]_vars => TypeInv'
<1> SUFFICES ASSUME TypeInv, [Next]_vars PROVE TypeInv'
    OBVIOUS
<1>1. CASE UNCHANGED vars
  <2>1. HandlerType'
      BY <1>1, HandlersStay DEF vars, storeVars, TypeInv
  <2> QED BY <1>1, <2>1 DEF vars, storeVars, TypeInv, BaseType, LeaseType, AgentType
<1>2. CASE Next
    BY <1>1, <1>2, HubTyped, RequestTyped, AnswerTyped, OtherTyped, RestartTyped,
       ExpireTyped DEF Next, AgentStep, StartFails, Broken
<1> QED BY <1>1, <1>2

LEMMA TypeInvTypeOK == TypeInv => TypeOK
BY DEF TypeInv, BaseType, LeaseType, HandlerType, AgentType, TypeOK

\* TypeCorrect: the tokens, the keys and the files only ever hold pairs that
\* were issued, whatever the handlers of token_store.rs and service.rs interleave to.
THEOREM TypeCorrect == Spec => []TypeOK
<1>1. Init => TypeInv
    BY InitTyped
<1>2. TypeInv /\ [Next]_vars => TypeInv'
    BY StepTyped
<1>3. TypeInv => TypeOK
    BY TypeInvTypeOK
<1> QED BY <1>1, <1>2, <1>3, PTL DEF Spec

-----------------------------------------------------------------------------
(***************************************************************************)
(* The accounts are kept.                                                  *)
(***************************************************************************)
LEMMA ReplacedAccounts ==
    ASSUME TypeInv, UNCHANGED backend, NEW i \in Handlers, NEW n, Replaced(i, n), NEW k \in Kinds
    PROVE  /\ Checked' = IF n.at > 1 THEN Checked \cup {i} ELSE Checked \ {i}
           /\ Owing(k)' = IF Owes(k, n) THEN Owing(k) \cup {i} ELSE Owing(k) \ {i}
           /\ Held(k)'[i] = Holds(k, n)' /\ Held(k)[i] = Holds(k, handlers[i])
           /\ \A g \in Handlers \ {i} :
                 Held(k)'[g] = Held(k)[g] \/ (Held(k)[g] = Current(k) /\ Held(k)'[g] = Current(k)')
           /\ Current(k)' = Current(k) => \A g \in Handlers \ {i} : Held(k)'[g] = Held(k)[g]
<1>1. /\ handlers'[i] = n /\ handlers' \in [Handlers -> Handler]
      /\ \A g \in Handlers \ {i} : handlers'[g] = handlers[g]
    BY DEF Replaced, TypeInv, HandlerType
<1>2. Spots(k)' = Spots(k)
    BY DEF Spots
<1>3. Checked' = IF n.at > 1 THEN Checked \cup {i} ELSE Checked \ {i}
    BY <1>1 DEF Checked
<1>5. Owing(k)' = {g \in Handlers : Owes(k, handlers'[g])}
    BY <1>2 DEF Owing, Owes
<1>6. Owing(k)' = IF Owes(k, n) THEN Owing(k) \cup {i} ELSE Owing(k) \ {i}
  <2>1. \A g \in Handlers : g \in Owing(k)' <=> (IF g = i THEN Owes(k, n) ELSE g \in Owing(k))
      BY <1>1, <1>5 DEF Owing
  <2>2. Owing(k)' \subseteq Handlers /\ Owing(k) \subseteq Handlers
      BY <1>5 DEF Owing
  <2> QED BY <2>1, <2>2
<1>7. Held(k)'[i] = Holds(k, n)' /\ Held(k)[i] = Holds(k, handlers[i])
    BY <1>1 DEF Held
<1>8. ASSUME NEW g \in Handlers \ {i}
      PROVE  /\ \/ Held(k)'[g] = Held(k)[g]
                \/ Held(k)[g] = Current(k) /\ Held(k)'[g] = Current(k)'
             /\ Current(k)' = Current(k) => Held(k)'[g] = Held(k)[g]
  <2>1. PICK h : h = handlers[g]
      OBVIOUS
  <2>2. Held(k)'[g] = Holds(k, h)' /\ Held(k)[g] = Holds(k, h)
      BY <1>1, <2>1 DEF Held
  <2> QED BY <1>2, <2>2 DEF Holds
<1> QED BY <1>3, <1>6, <1>7, <1>8

\* A handler that has passed its check does a command.
LEMMA AdvancedAccounts ==
    ASSUME TypeInv, NEW i \in Handlers, NEW n, Advanced(i, n), handlers[i].at > 1, NEW k \in Kinds,
           AccountOf(k)
    PROVE  /\ Checked' = Checked /\ i \in Checked
           /\ Owing(k)' = IF Owes(k, n) THEN Owing(k) ELSE Owing(k) \ {i}
           /\ Owes(k, n) => Owes(k, handlers[i])
           /\ i \in Owing(k) <=> Owes(k, handlers[i])
<1>1. /\ handlers[i].at \in Nat /\ n.at = handlers[i].at + 1 /\ n.op = handlers[i].op
      /\ Replaced(i, n) /\ UNCHANGED backend
    BY HandlerFacts DEF Advanced
<1>2. Owes(k, n) => Owes(k, handlers[i])
  <2>1. Issuing(n) <=> Issuing(handlers[i])
      BY <1>1 DEF Issuing
  <2>2. Spots(k).lease \in Nat /\ Spots(k).gone \in Nat
      BY DEF Spots
  <2> QED BY <1>1, <2>1, <2>2 DEF Owes
<1>3. i \in Checked /\ n.at > 1
    BY <1>1 DEF Checked
<1>4. i \in Owing(k) <=> Owes(k, handlers[i])
    BY DEF Owing
<1>5. /\ Checked' = Checked \cup {i}
      /\ Owing(k)' = IF Owes(k, n) THEN Owing(k) \cup {i} ELSE Owing(k) \ {i}
    BY <1>1, <1>3, ReplacedAccounts
<1>6. Checked \cup {i} = Checked /\ (Owes(k, n) => Owing(k) \cup {i} = Owing(k))
    BY <1>2, <1>3, <1>4
<1> QED BY <1>2, <1>3, <1>4, <1>5, <1>6

\* A command that is not about tokens of this kind.
LEMMA PassAccount ==
    ASSUME TypeInv, NEW i \in Handlers, NEW n, Advanced(i, n), handlers[i].at > 1, NEW k \in Kinds,
           AccountOf(k), UNCHANGED upsets, Live(k)' = Live(k), Current(k)' = Current(k),
           Owes(k, handlers[i]) => Owes(k, n), Holds(k, n)' = Holds(k, handlers[i])
    PROVE  AccountOf(k)'
<1>1. /\ Checked' = Checked /\ Owing(k)' = IF Owes(k, n) THEN Owing(k) ELSE Owing(k) \ {i}
      /\ i \in Owing(k) <=> Owes(k, handlers[i])
    BY AdvancedAccounts
<1>2. Owing(k)' = Owing(k)
    BY <1>1
<1>3. \A g \in Handlers : Held(k)'[g] = Held(k)[g]
    BY ReplacedAccounts DEF Advanced
<1>4. Checked \subseteq Handlers /\ upsets \in Nat
    BY DEF Checked, TypeInv, BaseType
<1> DEFINE live == Live(k)  cur == Current(k)  busy == Checked  owing == Owing(k)
           held == Held(k)  held2 == Held(k)'
<1>5. /\ Account(live, cur, busy, owing, held, upsets)
      /\ live \in SUBSET live /\ \A g \in busy : held2[g] = held[g]
    BY <1>3, <1>4 DEF AccountOf
<1>6. Account(live, cur, busy, owing, held2, upsets)
  <2> HIDE DEF live, cur, busy, owing, held, held2
  <2> QED BY <1>4, <1>5, AccountRetire
<1> QED BY <1>1, <1>2, <1>6 DEF AccountOf

\* The commands of RedisTokenStore are about tokens of one kind.
LEMMA OtherKind ==
    ASSUME TypeInv, Accounts, NEW i \in Handlers, NEW n, Advanced(i, n), backend = "redis",
           UNCHANGED upsets, NEW k \in Kinds, Others(k, handlers[i], n),
           n.new = handlers[i].new \/ (k = "access" /\ handlers[i].at = 6),
           handlers[i].at \in {Spots(k).get, IF Issuing(handlers[i]) THEN Spots(k).free ELSE Spots(k).freed,
                               IF Issuing(handlers[i]) THEN Spots(k).lease ELSE Spots(k).gone,
                               IF Issuing(handlers[i]) THEN Spots(k).current ELSE Spots(k).gone},
           NEW q \in Kinds \ {k}
    PROVE  AccountOf(q)'
<1> DEFINE h == handlers[i]
<1>1. /\ n.op = h.op /\ n.at = h.at + 1 /\ h.at \in 1..11 /\ UNCHANGED backend
      /\ Old(q, n) = Old(q, h) /\ Live(q)' = Live(q) /\ Current(q)' = Current(q) /\ AccountOf(q)
    BY HandlerFacts DEF Advanced, Others, Accounts
<1>2. h.at > 1
    BY DEF Spots
<1>3. Spots(q)' = Spots(q) /\ (Issuing(n) <=> Issuing(h))
    BY <1>1 DEF Spots, Issuing
<1>4. Owes(q, h) => Owes(q, n)
    BY <1>1, <1>3 DEF Owes, Spots, Kinds
<1>5. Holds(q, n)' = Holds(q, h)
  <2>1. Holds(q, n)' = IF n.at <= Spots(q).get THEN Current(q)
                       ELSE IF ~Issuing(h) THEN Old(q, h)
                       ELSE IF n.at > Spots(q).current THEN Current(q)
                       ELSE IF n.at > Spots(q).lease THEN n.new ELSE Old(q, h)
      BY <1>1, <1>3 DEF Holds, Old
  <2> QED BY <1>1, <2>1 DEF Holds, Spots, Kinds
<1> QED BY <1>1, <1>2, <1>4, <1>5, PassAccount

LEMMA GetAccounts ==
    ASSUME TypeInv, Accounts, NEW i \in Handlers, GetCurrent(i)
    PROVE  Accounts'
<1> DEFINE h == handlers[i]
<1>1. PICK k \in Kinds, n \in Handler :
              /\ Advanced(i, n) /\ Others(k, h, n)
              /\ backend = "redis" /\ h.at = Spots(k).get
              /\ Old(k, n) = Current(k) /\ n.new = h.new
              /\ Live(k)' = Live(k) /\ Current(k)' = Current(k)
    BY GetStep
<1>2. UNCHANGED <<backend, upsets>>
    BY DEF GetCurrent, OutsideHub
<1>3. AccountOf(k)'
  <2>1. n.op = h.op /\ n.at = h.at + 1 /\ h.at > 1 /\ AccountOf(k)
      BY <1>1 DEF Advanced, Spots, Accounts
  <2>2. Spots(k)' = Spots(k) /\ (Issuing(n) <=> Issuing(h))
      BY <1>2, <2>1 DEF Spots, Issuing
  <2>3. Owes(k, n)
      BY <1>1, <2>1 DEF Owes, Spots
  <2>4. Holds(k, n)' = Current(k)
    <3>1. Holds(k, n)' = IF n.at <= Spots(k).get THEN Current(k)
                         ELSE IF ~Issuing(h) THEN Old(k, n)
                         ELSE IF n.at > Spots(k).current THEN Current(k)
                         ELSE IF n.at > Spots(k).lease THEN n.new ELSE Old(k, n)
        BY <1>1, <2>2 DEF Holds, Old
    <3> QED BY <1>1, <2>1, <3>1 DEF Spots
  <2>5. Holds(k, h) = Current(k)
      BY <1>1 DEF Holds, Spots
  <2> QED BY <1>1, <1>2, <2>1, <2>3, <2>4, <2>5, PassAccount
<1>4. ASSUME NEW q \in Kinds \ {k} PROVE AccountOf(q)'
    BY <1>1, <1>2, OtherKind
<1> QED BY <1>3, <1>4 DEF Accounts

LEMMA DelAccounts ==
    ASSUME TypeInv, Accounts, NEW i \in Handlers, DelLease(i)
    PROVE  Accounts'
<1> DEFINE h == handlers[i]
<1>1. PICK k \in Kinds, n \in Handler :
              /\ Advanced(i, n) /\ Others(k, h, n) /\ backend = "redis"
              /\ h.at = IF Issuing(h) THEN Spots(k).free ELSE Spots(k).freed
              /\ Old(k, n) = None /\ n.new = h.new
              /\ Live(k)' = Live(k) \ {Old(k, h)} /\ Current(k)' = Current(k)
    BY DelStep
<1>2. UNCHANGED <<backend, upsets>> /\ upsets \in Nat
    BY DEF DelLease, OutsideHub, TypeInv, BaseType
<1>3. AccountOf(k)'
  <2>1. n.op = h.op /\ n.at = h.at + 1 /\ h.at > 1 /\ AccountOf(k)
      BY <1>1 DEF Advanced, Spots, Accounts
  <2>2. Owes(k, h) => Owes(k, n)
      BY <1>1, <2>1 DEF Owes, Spots, Issuing
  <2>3. Holds(k, h) = Old(k, h)
      BY <1>1 DEF Holds, Spots
  <2>4. /\ Checked' = Checked /\ Owing(k)' = IF Owes(k, n) THEN Owing(k) ELSE Owing(k) \ {i}
        /\ i \in Owing(k) <=> Owes(k, h)
      BY <1>1, <2>1, AdvancedAccounts
  <2>5. Owing(k)' = Owing(k)
      BY <2>2, <2>4
  <2>6. \A g \in Handlers \ {i} : Held(k)'[g] = Held(k)[g]
      BY <1>1, <1>2, ReplacedAccounts DEF Advanced
  <2>7. Held(k)[i] = Old(k, h)
      BY <2>3 DEF Held
  <2> DEFINE live == Live(k)  cur == Current(k)  busy == Checked  owing == Owing(k)
             held == Held(k)  live2 == Live(k)'  held2 == Held(k)'
  <2>8. /\ Account(live, cur, busy, owing, held, upsets)
        /\ live2 \in SUBSET live /\ \A g \in busy : held2[g] = held[g] \/ held[g] \notin live2
      BY <1>1, <2>1, <2>6, <2>7 DEF AccountOf, Checked
  <2>9. Account(live2, cur, busy, owing, held2, upsets)
    <3> HIDE DEF live, cur, busy, owing, held, live2, held2
    <3> QED BY <1>2, <2>8, AccountRetire
  <2> QED BY <1>1, <1>2, <2>4, <2>5, <2>9 DEF AccountOf
<1>4. ASSUME NEW q \in Kinds \ {k} PROVE AccountOf(q)'
    BY <1>1, <1>2, OtherKind
<1> QED BY <1>3, <1>4 DEF Accounts

LEMMA SetAccounts ==
    ASSUME TypeInv, Accounts, NEW i \in Handlers, SetLease(i)
    PROVE  Accounts'
<1> DEFINE h == handlers[i]
<1>1. PICK k \in Kinds, n \in Handler :
              /\ Advanced(i, n) /\ Others(k, h, n)
              /\ backend = "redis" /\ Issuing(h) /\ h.at = Spots(k).lease
              /\ Old(k, n) = Old(k, h)
              /\ IF k = "access" THEN issued' = issued + 1 /\ n.new = issued'
                 ELSE issued' = issued /\ n.new = h.new
              /\ Live(k)' = Live(k) \cup {n.new} /\ Current(k)' = Current(k)
    BY SetStep
<1>2. UNCHANGED <<backend, upsets>> /\ upsets \in Nat /\ issued \in Nat
    BY DEF SetLease, OutsideHub, TypeInv, BaseType, LeaseType
<1>3. n.new # None
  <2>1. CASE k = "access"
      BY <1>1, <1>2, <2>1 DEF None
  <2>2. CASE k = "refresh"
    <3>1. h.at > Spots("access").lease /\ n.new = h.new
        BY <1>1, <2>2 DEF Spots
    <3> QED BY <1>1, <1>2, <3>1, HandlerFacts DEF None
  <2> QED BY <2>1, <2>2 DEF Kinds
<1>4. AccountOf(k)'
  <2>1. n.op = h.op /\ n.at = h.at + 1 /\ h.at > 1 /\ AccountOf(k)
      BY <1>1 DEF Advanced, Spots, Accounts
  <2>2. Owes(k, h) /\ ~Owes(k, n)
      BY <1>1, <2>1 DEF Owes, Spots, Issuing
  <2>3. Holds(k, h) = None
    <3>1. Holds(k, h) = Old(k, h)
        BY <1>1 DEF Holds, Spots
    <3>2. Holding(k, h)
        BY HandlerFacts
    <3> QED BY <1>1, <3>1, <3>2 DEF Holding, Spots
  <2>4. Holds(k, n)' = n.new
      BY <1>1, <1>2, <2>1 DEF Holds, Spots, Issuing
  <2>5. Checked' = Checked /\ Owing(k)' = Owing(k) \ {i} /\ i \in Owing(k)
      BY <1>1, <2>1, <2>2, AdvancedAccounts
  <2>6. /\ \A g \in Handlers \ {i} : Held(k)'[g] = Held(k)[g]
        /\ Held(k)'[i] = n.new /\ Held(k)[i] = None
      BY <1>1, <1>2, <2>3, <2>4, ReplacedAccounts DEF Advanced
  <2> DEFINE live == Live(k)  cur == Current(k)  busy == Checked  owing == Owing(k)
             held == Held(k)  held2 == Held(k)'  new == n.new
  <2>7. /\ Account(live, cur, busy, owing, held, upsets)
        /\ i \in owing /\ held[i] \notin live /\ held2[i] = new /\ new # None
        /\ \A g \in busy \ {i} : held2[g] = held[g]
      BY <1>3, <2>1, <2>5, <2>6 DEF AccountOf, Account, Checked
  <2>8. Account(live \cup {new}, cur, busy, owing \ {i}, held2, upsets)
    <3> HIDE DEF live, cur, busy, owing, held, held2, new
    <3> QED BY <1>2, <2>7, AccountLease
  <2> QED BY <1>1, <1>2, <2>5, <2>8 DEF AccountOf
<1>5. ASSUME NEW q \in Kinds \ {k} PROVE AccountOf(q)'
  <2>1. n.new = h.new \/ (k = "access" /\ h.at = 6)
      BY <1>1 DEF Spots, Kinds
  <2> QED BY <1>1, <1>2, <2>1, OtherKind
<1> QED BY <1>4, <1>5 DEF Accounts

LEMMA SetCurrentAccounts ==
    ASSUME TypeInv, Accounts, NEW i \in Handlers, SetCurrent(i)
    PROVE  Accounts'
<1> DEFINE h == handlers[i]
<1>1. PICK k \in Kinds, n \in Handler :
              /\ Advanced(i, n) /\ Keeps(h, n) /\ Others(k, h, n)
              /\ backend = "redis" /\ Issuing(h) /\ h.at = Spots(k).current
              /\ Live(k)' = Live(k) /\ Current(k)' = h.new
    BY CurrentStep
<1>2. UNCHANGED <<backend, upsets>> /\ upsets \in Nat
    BY DEF SetCurrent, OutsideHub, TypeInv, BaseType
<1>3. AccountOf(k)'
  <2>1. n.op = h.op /\ n.at = h.at + 1 /\ h.at > 1 /\ AccountOf(k)
      BY <1>1 DEF Advanced, Spots, Accounts
  <2>2. ~Owes(k, h) /\ ~Owes(k, n)
      BY <1>1, <2>1 DEF Owes, Spots, Issuing
  <2>3. Holds(k, h) = h.new
      BY <1>1 DEF Holds, Spots
  <2>4. Holds(k, n)' = h.new
      BY <1>1, <1>2, <2>1 DEF Holds, Spots, Issuing
  <2>5. /\ Checked' = Checked /\ i \in Checked /\ Owing(k)' = Owing(k) \ {i} /\ i \notin Owing(k)
      BY <1>1, <2>1, <2>2, AdvancedAccounts
  <2>6. /\ \A g \in Handlers \ {i} : Held(k)'[g] = Held(k)[g] \/ Held(k)'[g] = h.new
        /\ Held(k)'[i] = h.new /\ Held(k)[i] = h.new
      BY <1>1, <1>2, <2>3, <2>4, ReplacedAccounts DEF Advanced
  <2> DEFINE live == Live(k)  cur == Current(k)  busy == Checked  owing == Owing(k)
             held == Held(k)  held2 == Held(k)'
  <2>7. /\ Account(live, cur, busy, owing, held, upsets)
        /\ i \in busy \ owing /\ \A g \in busy : held2[g] = held[g] \/ held2[g] = held[i]
      BY <2>1, <2>5, <2>6 DEF AccountOf, Checked
  <2>8. Account(live, held[i], busy, owing, held2, upsets)
    <3> HIDE DEF live, cur, busy, owing, held, held2
    <3> QED BY <1>2, <2>7, AccountCurrent
  <2>9. Owing(k)' = Owing(k) /\ held[i] = Current(k)'
      BY <1>1, <2>5, <2>6
  <2> QED BY <1>1, <1>2, <2>5, <2>8, <2>9 DEF AccountOf
<1>4. ASSUME NEW q \in Kinds \ {k} PROVE AccountOf(q)'
    BY <1>1, <1>2, OtherKind DEF Keeps
<1> QED BY <1>3, <1>4 DEF Accounts

LEMMA ForgetAccounts ==
    ASSUME TypeInv, Accounts, NEW i \in Handlers, DelCurrent(i)
    PROVE  Accounts'
<1> DEFINE h == handlers[i]
<1>1. PICK k \in Kinds, n \in Handler :
              /\ Advanced(i, n) /\ Keeps(h, n) /\ Others(k, h, n)
              /\ backend = "redis" /\ ~Issuing(h) /\ h.at = Spots(k).gone
              /\ Live(k)' = Live(k) /\ Current(k)' = None
    BY ForgetStep
<1>2. UNCHANGED <<backend, upsets>> /\ upsets \in Nat
    BY DEF DelCurrent, OutsideHub, TypeInv, BaseType
<1>3. AccountOf(k)'
  <2>1. n.op = h.op /\ n.at = h.at + 1 /\ h.at > 1 /\ AccountOf(k)
      BY <1>1 DEF Advanced, Spots, Accounts
  <2>2. Owes(k, h) /\ ~Owes(k, n)
      BY <1>1, <2>1 DEF Owes, Spots, Issuing
  <2>3. Holds(k, n)' = Holds(k, h)
      BY <1>1, <1>2, <2>1 DEF Holds, Spots, Issuing, Old, Keeps
  <2>4. /\ Checked' = Checked /\ Owing(k)' = Owing(k) \ {i} /\ i \in Owing(k)
      BY <1>1, <2>1, <2>2, AdvancedAccounts
  <2>5. /\ \A g \in Handlers \ {i} : \/ Held(k)'[g] = Held(k)[g]
                                     \/ Held(k)[g] = Current(k) /\ Held(k)'[g] = None
        /\ Held(k)'[i] = Held(k)[i]
      BY <1>1, <1>2, <2>3, ReplacedAccounts DEF Advanced
  <2> DEFINE live == Live(k)  cur == Current(k)  busy == Checked  owing == Owing(k)
             held == Held(k)  held2 == Held(k)'
  <2>6. /\ Account(live, cur, busy, owing, held, upsets)
        /\ i \in owing /\ held2[i] = held[i]
        /\ \A g \in busy \ {i} : held2[g] = held[g] \/ (held[g] = cur /\ held2[g] = None)
      BY <2>1, <2>4, <2>5 DEF AccountOf, Checked
  <2>7. Account(live, None, busy, owing \ {i}, held2, upsets)
    <3> HIDE DEF live, cur, busy, owing, held, held2
    <3> QED BY <1>2, <2>6, AccountForget
  <2> QED BY <1>1, <1>2, <2>4, <2>7 DEF AccountOf
<1>4. ASSUME NEW q \in Kinds \ {k} PROVE AccountOf(q)'
    BY <1>1, <1>2, OtherKind DEF Keeps
<1> QED BY <1>3, <1>4 DEF Accounts

LEMMA RowAccounts ==
    ASSUME TypeInv, Accounts, NEW i \in Handlers, SaveNode(i) \/ DeleteRow(i)
    PROVE  Accounts'
<1> DEFINE h == handlers[i]
<1>1. PICK n \in Handler : Advanced(i, n) /\ Keeps(h, n)
    BY RowStep
<1>2. UNCHANGED <<backend, access, refresh, curAccess, curRefresh, upsets>>
    BY DEF SaveNode, DeleteRow, OutsideHub, storeVars
<1>3. h.at > (IF backend = "memory" THEN 2 ELSE IF Issuing(h) THEN 9 ELSE 7)
    BY RowStep
<1>4. n.op = h.op /\ n.at = h.at + 1 /\ h.at \in 1..11 /\ backend \in {"redis", "memory"}
    BY <1>1, HandlerFacts DEF Advanced
<1>5. ASSUME NEW k \in Kinds PROVE AccountOf(k)'
  <2>1. Live(k)' = Live(k) /\ Current(k)' = Current(k) /\ AccountOf(k) /\ Spots(k)' = Spots(k)
      BY <1>2 DEF Live, Current, Accounts, Spots
  <2>2. ~Owes(k, h)
      BY <1>3, <1>4 DEF Owes, Spots
  <2>3. Holds(k, n)' = Holds(k, h)
    <3>1. Holds(k, h) = IF Issuing(h) THEN Current(k) ELSE Old(k, h)
        BY <1>3, <1>4 DEF Holds, Spots
    <3>2. Holds(k, n)' = IF Issuing(h) THEN Current(k) ELSE Old(k, n)
        BY <1>3, <1>4, <2>1 DEF Holds, Spots, Issuing, Old
    <3> QED BY <1>1, <3>1, <3>2 DEF Keeps, Old
  <2>4. h.at > 1
      BY <1>3, <1>4
  <2> QED BY <1>1, <1>2, <2>1, <2>2, <2>3, <2>4, PassAccount
<1> QED BY <1>5 DEF Accounts

LEMMA IssueAccounts ==
    ASSUME TypeInv, Accounts, NEW i \in Handlers, MemoryIssue(i)
    PROVE  Accounts'
<1> DEFINE h == handlers[i]
<1>1. PICK n \in Handler : Advanced(i, n) /\ n.new = issued'
    BY IssueStep
<1>2. /\ backend = "memory" /\ Issuing(h) /\ h.at = 2 /\ issued' = issued + 1
      /\ \A k \in Kinds : /\ Live(k)' = (Live(k) \ {Current(k)}) \cup {issued'}
                          /\ Current(k)' = issued'
    BY IssueStep
<1>3. UNCHANGED <<backend, upsets>> /\ upsets \in Nat /\ issued \in Nat
    BY DEF MemoryIssue, OutsideHub, TypeInv, BaseType, LeaseType
<1>4. n.op = h.op /\ n.at = 3 /\ Replaced(i, n)
    BY <1>1, <1>2 DEF Advanced
<1>5. ASSUME NEW k \in Kinds PROVE AccountOf(k)'
  <2>1. AccountOf(k) /\ Owes(k, h) /\ ~Owes(k, n)
      BY <1>2, <1>4 DEF Accounts, Owes, Spots, Issuing
  <2>2. Holds(k, h) = Current(k)
      BY <1>2 DEF Holds, Spots
  <2>3. Holds(k, n)' = issued'
      BY <1>2, <1>3, <1>4 DEF Holds, Spots, Issuing
  <2>4. Checked' = Checked /\ Owing(k)' = Owing(k) \ {i} /\ i \in Owing(k)
      BY <1>1, <1>2, <2>1, AdvancedAccounts
  <2>5. Held(k)'[i] = issued' /\ Held(k)[i] = Current(k)
      BY <1>3, <1>4, <2>2, <2>3, ReplacedAccounts
  <2>6. ASSUME NEW g \in Handlers \ {i}
        PROVE  \/ Held(k)[g] = Current(k) /\ Held(k)'[g] = issued'
               \/ Held(k)[g] = None /\ Held(k)'[g] = None
    <3>1. PICK f : f = handlers[g] /\ f = handlers'[g]
        BY <1>4 DEF Replaced, TypeInv, HandlerType
    <3>2. Old(k, f) = None
        BY <1>2, <3>1, HandlerFacts DEF Holding
    <3>3. Held(k)[g] = Holds(k, f) /\ Held(k)'[g] = Holds(k, f)'
        BY <3>1 DEF Held
    <3>4. Spots(k)' = Spots(k) /\ Spots(k).current = Spots(k).lease /\ Spots(k).lease = 2
          /\ Spots(k).get = 2
        BY <1>2, <1>3 DEF Spots
    <3>5. f.at \in Nat
      <4>1. handlers[g].at \in 1..11
          BY HandlerFacts
      <4> QED BY <3>1, <4>1
    <3>6. CASE f.at <= 2 \/ Issuing(f)
      <4>1. Holds(k, f) = Current(k)
          BY <3>4, <3>5, <3>6 DEF Holds
      <4>2. Holds(k, f)' = Current(k)'
          BY <3>4, <3>5, <3>6 DEF Holds
      <4> QED BY <1>2, <3>3, <4>1, <4>2
    <3>7. CASE f.at > 2 /\ ~Issuing(f)
      <4>1. Holds(k, f) = Old(k, f) /\ Holds(k, f)' = Old(k, f)
          BY <3>4, <3>5, <3>7 DEF Holds, Old
      <4> QED BY <3>2, <3>3, <4>1
    <3> QED BY <3>5, <3>6, <3>7
  <2> DEFINE live == Live(k)  cur == Current(k)  busy == Checked  owing == Owing(k)
             held == Held(k)  held2 == Held(k)'  new == issued'
  <2>7. /\ Account(live, cur, busy, owing, held, upsets)
        /\ i \in owing /\ held[i] = cur /\ held2[i] = new /\ new # None
        /\ \A g \in busy \ {i} : \/ held[g] = cur /\ held2[g] = new
                                 \/ held[g] = None /\ held2[g] = None
      BY <1>2, <1>3, <2>1, <2>4, <2>5, <2>6 DEF AccountOf, Checked, None
  <2>8. Account((live \ {cur}) \cup {new}, new, busy, owing \ {i}, held2, upsets)
    <3> HIDE DEF live, cur, busy, owing, held, held2, new
    <3> QED BY <1>3, <2>7, AccountIssue
  <2> QED BY <1>2, <1>3, <2>4, <2>8 DEF AccountOf
<1> QED BY <1>5 DEF Accounts

LEMMA RevokeAccounts ==
    ASSUME TypeInv, Accounts, NEW i \in Handlers, MemoryRevoke(i)
    PROVE  Accounts'
<1> DEFINE h == handlers[i]
<1>1. PICK n \in Handler : Advanced(i, n) /\ Keeps(h, n)
    BY RevokeStep
<1>2. /\ backend = "memory" /\ ~Issuing(h) /\ h.at = 2
      /\ \A k \in Kinds : Live(k)' = Live(k) \ {Current(k)} /\ Current(k)' = None
    BY RevokeStep
<1>3. UNCHANGED <<backend, upsets>> /\ upsets \in Nat
    BY DEF MemoryRevoke, OutsideHub, TypeInv, BaseType
<1>4. n.op = h.op /\ n.at = 3 /\ Replaced(i, n)
    BY <1>1, <1>2 DEF Advanced
<1>5. ASSUME NEW k \in Kinds PROVE AccountOf(k)'
  <2>1. AccountOf(k) /\ Owes(k, h) /\ ~Owes(k, n)
      BY <1>2, <1>4 DEF Accounts, Owes, Spots, Issuing
  <2>2. Holds(k, h) = Current(k)
      BY <1>2 DEF Holds, Spots
  <2>3. Holds(k, n)' = None
    <3>1. Old(k, n) = None
        BY <1>1, <1>2, HandlerFacts DEF Holding, Keeps, Old
    <3>2. Holds(k, n)' = Old(k, n)
        BY <1>2, <1>3, <1>4 DEF Holds, Spots, Issuing, Old
    <3> QED BY <3>1, <3>2
  <2>4. Checked' = Checked /\ Owing(k)' = Owing(k) \ {i} /\ i \in Owing(k)
      BY <1>1, <1>2, <2>1, AdvancedAccounts
  <2>5. /\ Held(k)'[i] = None /\ Held(k)[i] = Current(k)
        /\ \A g \in Handlers \ {i} : \/ Held(k)'[g] = Held(k)[g]
                                     \/ Held(k)[g] = Current(k) /\ Held(k)'[g] = None
      BY <1>2, <1>3, <1>4, <2>2, <2>3, ReplacedAccounts
  <2> DEFINE live == Live(k)  cur == Current(k)  busy == Checked  owing == Owing(k)
             held == Held(k)  held2 == Held(k)'
  <2>6. /\ Account(live, cur, busy, owing, held, upsets)
        /\ i \in owing /\ held[i] = cur
        /\ \A g \in busy : held2[g] = held[g] \/ (held[g] = cur /\ held2[g] = None)
      BY <2>1, <2>4, <2>5 DEF AccountOf, Checked
  <2>7. Account(live \ {cur}, None, busy, owing \ {i}, held2, upsets)
    <3> HIDE DEF live, cur, busy, owing, held, held2
    <3> QED BY <1>3, <2>6, AccountRevoke
  <2> QED BY <1>2, <1>3, <2>4, <2>7 DEF AccountOf
<1> QED BY <1>5 DEF Accounts

LEMMA CheckAccounts ==
    ASSUME TypeInv, Accounts, NEW i \in Handlers, Check(i)
    PROVE  Accounts'
<1> DEFINE h == handlers[i]
<1>1. PICK n \in Handler : Advanced(i, n) /\ Keeps(h, n)
    BY CheckStep
<1>2. h.at = 1 /\ UNCHANGED <<backend, access, refresh, curAccess, curRefresh>> /\ upsets \in Nat
    BY CheckStep DEF Check, storeVars, TypeInv, BaseType
<1>3. n.op = h.op /\ n.at = 2 /\ Replaced(i, n)
    BY <1>1, <1>2 DEF Advanced
<1>4. i \notin Checked
    BY <1>2 DEF Checked
<1>5. upsets' = IF Checked = {} THEN upsets ELSE upsets + 1
  <2>1. (\E j \in Handlers \ {i} : handlers[j].at > 1) <=> Checked # {}
      BY <1>4 DEF Checked
  <2> QED BY <2>1 DEF Check
<1>6. ASSUME NEW k \in Kinds PROVE AccountOf(k)'
  <2>1. Live(k)' = Live(k) /\ Current(k)' = Current(k) /\ AccountOf(k)
      BY <1>2 DEF Live, Current, Accounts
  <2>2. Owes(k, n) /\ Holds(k, n)' = Current(k)
      BY <1>3, <2>1 DEF Owes, Holds, Spots
  <2>3. /\ Checked' = Checked \cup {i} /\ Owing(k)' = Owing(k) \cup {i}
        /\ Held(k)'[i] = Current(k) /\ \A g \in Handlers \ {i} : Held(k)'[g] = Held(k)[g]
      BY <1>2, <1>3, <2>1, <2>2, ReplacedAccounts
  <2> DEFINE live == Live(k)  cur == Current(k)  busy == Checked  owing == Owing(k)
             held == Held(k)  held2 == Held(k)'
  <2>4. /\ Account(live, cur, busy, owing, held, upsets)
        /\ i \notin busy /\ held2[i] = cur /\ \A g \in busy : held2[g] = held[g]
      BY <1>4, <2>1, <2>3 DEF AccountOf, Checked
  <2>5. Account(live, cur, busy \cup {i}, owing \cup {i}, held2,
                IF busy = {} THEN upsets ELSE upsets + 1)
    <3> HIDE DEF live, cur, busy, owing, held, held2
    <3> QED BY <1>2, <2>4, AccountJoin
  <2> QED BY <1>5, <2>1, <2>3, <2>5 DEF AccountOf
<1> QED BY <1>6 DEF Accounts

\* A handler that has not passed its check, or has not moved, counts for nothing new.
LEMMA SameAccounts ==
    ASSUME TypeInv, Accounts, UNCHANGED <<backend, access, refresh, curAccess, curRefresh, upsets>>,
           \/ UNCHANGED handlers
           \/ \E i \in Handlers, n \in Handler :
                 /\ Replaced(i, n)
                 /\ \/ handlers[i].at = 1 /\ n.at = 1
                    \/ n.op = handlers[i].op /\ n.at = handlers[i].at /\ Keeps(handlers[i], n)
    PROVE  Accounts'
<1>1. ASSUME NEW k \in Kinds PROVE AccountOf(k)'
  <2>1. /\ Live(k)' = Live(k) /\ Current(k)' = Current(k) /\ AccountOf(k) /\ Spots(k)' = Spots(k)
        /\ upsets' = upsets /\ upsets \in Nat
      BY DEF Live, Current, Accounts, Spots, TypeInv, BaseType
  <2>2. CASE UNCHANGED handlers
    <3>1. Checked' = Checked /\ Owing(k)' = Owing(k) /\ Held(k)' = Held(k)
        BY <2>1, <2>2 DEF Checked, Owing, Held, Owes, Holds
    <3> QED BY <2>1, <3>1 DEF AccountOf
  <2>3. ASSUME NEW i \in Handlers, NEW n, Replaced(i, n),
               \/ handlers[i].at = 1 /\ n.at = 1
               \/ n.op = handlers[i].op /\ n.at = handlers[i].at /\ Keeps(handlers[i], n)
        PROVE  AccountOf(k)'
    <3> DEFINE h == handlers[i]
    <3>1. (n.at > 1 <=> h.at > 1) /\ (Owes(k, n) <=> Owes(k, h)) /\ h.at \in Nat
        BY <2>3, HandlerFacts DEF Owes, Issuing
    <3>2. Holds(k, n)' = Holds(k, h)
      <4>1. CASE h.at = 1 /\ n.at = 1
          BY <2>1, <4>1 DEF Holds, Spots
      <4>2. CASE n.op = h.op /\ n.at = h.at /\ Keeps(h, n)
          BY <2>1, <4>2 DEF Holds, Issuing, Keeps, Old
      <4> QED BY <2>3, <4>1, <4>2
    <3>3. (i \in Checked <=> h.at > 1) /\ (i \in Owing(k) <=> Owes(k, h))
        BY DEF Checked, Owing
    <3>4. /\ Checked' = Checked /\ Owing(k)' = Owing(k)
          /\ \A g \in Handlers : Held(k)'[g] = Held(k)[g]
      <4>1. /\ Checked' = IF n.at > 1 THEN Checked \cup {i} ELSE Checked \ {i}
            /\ Owing(k)' = IF Owes(k, n) THEN Owing(k) \cup {i} ELSE Owing(k) \ {i}
            /\ Held(k)'[i] = Holds(k, n)' /\ Held(k)[i] = Holds(k, h)
            /\ \A g \in Handlers \ {i} : Held(k)'[g] = Held(k)[g]
          BY <2>1, <2>3, ReplacedAccounts
      <4> QED BY <3>1, <3>2, <3>3, <4>1
    <3>5. Held(k)' = Held(k)
        BY <3>4 DEF Held
    <3> QED BY <2>1, <3>4, <3>5 DEF AccountOf
  <2> QED BY <2>2, <2>3
<1> QED BY <1>1 DEF Accounts

\* A handler comes to its end, or is refused.
LEMMA EndAccounts ==
    ASSUME TypeInv, Accounts, UNCHANGED <<backend, access, refresh, curAccess, curRefresh, upsets>>,
           UNCHANGED issued, NEW i \in Handlers, Active(i), End(i),
           Command(i) \in {"reply", "check_node", "check_lease", "find_node"}
    PROVE  Accounts'
<1> DEFINE h == handlers[i]
<1>1. Replaced(i, NoHandler) /\ NoHandler.at = 1 /\ NoHandler.op = "none" /\ NoHandler \in Handler
    BY EndStep DEF NoHandler, Replaced
<1>2. CASE Command(i) # "reply"
    BY <1>1, <1>2, CommandAt, SameAccounts
<1>3. CASE Command(i) = "reply"
  <2>1. /\ h.at = ReplyAt(h.op) /\ h.op \in {"register", "refresh", "delete"}
        /\ backend \in {"redis", "memory"} /\ upsets \in Nat
      BY <1>3, CommandAt, HandlerFacts DEF Active, Handler, TypeInv, BaseType
  <2>2. PICK n : n = NoHandler
      OBVIOUS
  <2>3. ASSUME NEW k \in Kinds PROVE AccountOf(k)'
    <3>1. Live(k)' = Live(k) /\ Current(k)' = Current(k) /\ AccountOf(k)
        BY DEF Live, Current, Accounts
    <3>2. ~Owes(k, h) /\ h.at > 1
        BY <2>1 DEF Owes, ReplyAt, Spots, Issuing
    <3>3. Holds(k, h) = Current(k) \/ Holds(k, h) = None
      <4>1. CASE Issuing(h)
          BY <2>1, <4>1 DEF Holds, ReplyAt, Spots, Issuing
      <4>2. CASE ~Issuing(h)
        <5>1. Holds(k, h) = Old(k, h)
            BY <2>1, <4>2 DEF Holds, ReplyAt, Spots, Issuing
        <5>2. Holding(k, h)
            BY HandlerFacts
        <5>3. Old(k, h) = None
            BY <2>1, <4>2, <5>2 DEF Holding, ReplyAt, Spots, Issuing
        <5> QED BY <5>1, <5>3
      <4> QED BY <4>1, <4>2
    <3>4. i \in Checked /\ i \notin Owing(k) /\ Held(k)[i] = Holds(k, h)
        BY <3>2 DEF Checked, Owing, Held
    <3>5. ~Owes(k, n) /\ ~(n.at > 1)
        BY <1>1, <2>2 DEF Owes
    <3>6. /\ Checked' = Checked \ {i} /\ Owing(k)' = Owing(k) \ {i}
          /\ \A g \in Handlers \ {i} : Held(k)'[g] = Held(k)[g]
        BY <1>1, <2>2, <3>1, <3>5, ReplacedAccounts
    <3> DEFINE live == Live(k)  cur == Current(k)  busy == Checked  owing == Owing(k)
               held == Held(k)  held2 == Held(k)'
    <3>7. /\ Account(live, cur, busy, owing, held, upsets)
          /\ i \in busy \ owing /\ (held[i] = cur \/ held[i] \notin live)
          /\ \A g \in busy \ {i} : held2[g] = held[g]
        BY <3>1, <3>3, <3>4, <3>6 DEF AccountOf, Account, Checked
    <3>8. Account(live, cur, busy \ {i}, owing, held2, upsets)
      <4> HIDE DEF live, cur, busy, owing, held, held2
      <4> QED BY <2>1, <3>7, AccountEnd
    <3>9. Owing(k)' = Owing(k)
        BY <3>4, <3>6
    <3> QED BY <3>1, <3>6, <3>8, <3>9 DEF AccountOf
  <2> QED BY <2>3 DEF Accounts
<1> QED BY <1>2, <1>3

\* A handler is dropped where it is.
LEMMA DropAccounts ==
    ASSUME TypeInv, Accounts, UNCHANGED <<backend, access, refresh, curAccess, curRefresh, issued>>,
           upsets' = upsets + 1, NEW i \in Handlers, End(i)
    PROVE  Accounts'
<1>1. Replaced(i, NoHandler) /\ NoHandler.at = 1 /\ NoHandler.op = "none"
    BY EndStep DEF NoHandler
<1>2. PICK n : n = NoHandler
    OBVIOUS
<1>3. upsets \in Nat
    BY DEF TypeInv, BaseType
<1>4. ASSUME NEW k \in Kinds PROVE AccountOf(k)'
  <2>1. Live(k)' = Live(k) /\ Current(k)' = Current(k) /\ AccountOf(k)
      BY DEF Live, Current, Accounts
  <2>2. ~Owes(k, n) /\ ~(n.at > 1)
      BY <1>1, <1>2 DEF Owes
  <2>3. /\ Checked' = Checked \ {i} /\ Owing(k)' = Owing(k) \ {i}
        /\ \A g \in Handlers \ {i} : Held(k)'[g] = Held(k)[g]
      BY <1>1, <1>2, <2>1, <2>2, ReplacedAccounts
  <2> DEFINE live == Live(k)  cur == Current(k)  busy == Checked  owing == Owing(k)
             held == Held(k)  held2 == Held(k)'
  <2>4. /\ Account(live, cur, busy, owing, held, upsets)
        /\ \A g \in busy \ {i} : held2[g] = held[g]
      BY <2>1, <2>3 DEF AccountOf, Checked
  <2>5. Account(live, cur, busy \ {i}, owing \ {i}, held2, upsets + 1)
    <3> HIDE DEF live, cur, busy, owing, held, held2
    <3> QED BY <1>3, <2>4, AccountDrop
  <2> QED BY <2>1, <2>3, <2>5 DEF AccountOf
<1> QED BY <1>4 DEF Accounts

LEMMA ExpireAccounts ==
    ASSUME TypeInv, Accounts, NEW p, Expire(p)
    PROVE  Accounts'
<1>1. UNCHANGED <<backend, handlers, upsets>> /\ upsets \in Nat
    BY DEF Expire, TypeInv, BaseType
<1>2. ASSUME NEW k \in Kinds PROVE AccountOf(k)'
  <2>1. /\ Live(k)' = Live(k) \ {p} /\ AccountOf(k)
        /\ Current(k)' = IF Current(k) = p THEN None ELSE Current(k)
      BY DEF Live, Current, Accounts, Expire
  <2>2. Checked' = Checked /\ Owing(k)' = Owing(k) /\ Spots(k)' = Spots(k)
      BY <1>1 DEF Checked, Owing, Owes, Spots
  <2>3. ASSUME NEW g \in Handlers PROVE Held(k)'[g] = Held(k)[g] \/ Held(k)[g] = p
    <3>1. PICK h : h = handlers[g] /\ h = handlers'[g]
        BY <1>1
    <3>2. Held(k)'[g] = Holds(k, h)' /\ Held(k)[g] = Holds(k, h)
        BY <3>1 DEF Held
    <3> QED BY <2>1, <2>2, <3>2 DEF Holds, Old
  <2> DEFINE live == Live(k)  cur == Current(k)  busy == Checked  owing == Owing(k)
             held == Held(k)  live2 == Live(k)'  cur2 == Current(k)'  held2 == Held(k)'
  <2>4. /\ Account(live, cur, busy, owing, held, upsets)
        /\ live2 \in SUBSET live /\ (cur2 = cur \/ cur \notin live2)
        /\ \A g \in busy : held2[g] = held[g] \/ held[g] \notin live2
      BY <2>1, <2>3 DEF AccountOf, Checked
  <2>5. Account(live2, cur2, busy, owing, held2, upsets)
    <3> HIDE DEF live, cur, busy, owing, held, live2, cur2, held2
    <3> QED BY <1>1, <2>4, AccountRetire
  <2> QED BY <1>1, <2>2, <2>5 DEF AccountOf
<1> QED BY <1>2 DEF Accounts

\* An empty store owes nobody anything.
LEMMA EmptyAccounts ==
    ASSUME TypeInv, HubRestart
    PROVE  Accounts'
<1> SUFFICES ASSUME NEW k \in Kinds PROVE AccountOf(k)'
    BY DEF Accounts
<1>1. Live(k)' = {} /\ Current(k)' = 0 /\ upsets' \in Nat
    BY DEF HubRestart, Live, Current, None, TypeInv, BaseType
<1>2. \A i \in Handlers : handlers'[i].at = 1
    BY RestartTyped DEF NoHandler
<1>3. Checked' = {} /\ Owing(k)' = {}
    BY <1>2 DEF Checked, Owing, Owes
<1>4. Cardinality({}) = 0 /\ IsFiniteSet({}) /\ {} \ {0} = {}
    BY FS_EmptySet
<1> QED BY <1>1, <1>3, <1>4 DEF AccountOf, Account

LEMMA RequestStep ==
    ASSUME TypeInv, NEW i \in Handlers,
           \/ DeleteNode(i) \/ Register(i) \/ Start(i) \/ RenewSession(i) \/ Rejected(i)
    PROVE  /\ UNCHANGED <<backend, row, issued, access, refresh, curAccess, curRefresh, upsets>>
           /\ handlers[i].at = 1 /\ \E n \in Handler : Replaced(i, n) /\ n.at = 1
<1>1. UNCHANGED <<backend, row, issued, access, refresh, curAccess, curRefresh, upsets>>
    BY DEF DeleteNode, Register, Start, RenewSession, Rejected, SendRefresh, OutsideAgent, storeVars
<1>2. /\ issued \in Nat /\ agent.disk \in 0..issued /\ agent.token \in 0..issued
      /\ "refresh" # "delete" /\ "register" # "delete"
    BY DEF TypeInv, AgentType, LeaseType
<1>3. \E op \in {"register", "refresh", "delete"}, token \in 0..issued : Arrived(i, op, token)
  <2>1. CASE DeleteNode(i)
    <3>1. Arrived(i, "delete", 0)
        BY <2>1, Arrives, Zenon DEF DeleteNode, None
    <3> QED BY <1>2, <3>1
  <2>2. CASE Register(i)
    <3>1. Arrived(i, "register", 0)
        BY <1>2, <2>2, Arrives, Zenon DEF Register, None
    <3> QED BY <1>2, <3>1
  <2>3. ASSUME NEW token \in 0..issued, SendRefresh(i, token)
        PROVE  Arrived(i, "refresh", token)
      BY <1>2, <2>3, Arrives, Zenon DEF SendRefresh
  <2> QED BY <1>2, <2>1, <2>2, <2>3 DEF Start, RenewSession, Rejected
<1>4. PICK op \in {"register", "refresh", "delete"}, token \in 0..issued : Arrived(i, op, token)
    BY <1>3
<1>5. \E n \in Handler : Replaced(i, n) /\ n.at = 1
    BY <1>1, <1>4, AcceptStep
<1>6. ~Active(i)
    BY <1>4 DEF Arrived, Accept
<1>7. handlers[i].at = 1
    BY <1>6 DEF Active, TypeInv, HandlerType, Sound, NoHandler
<1> QED BY <1>1, <1>5, <1>7

LEMMA BrokenStep ==
    ASSUME TypeInv, Broken
    PROVE  /\ UNCHANGED <<backend, row, issued, access, refresh, curAccess, curRefresh>>
           /\ \/ UNCHANGED <<handlers, upsets>>
              \/ upsets' = upsets + 1 /\ \E i \in Handlers : End(i)
              \/ /\ UNCHANGED upsets
                 /\ \E i \in Handlers, n \in Handler : /\ Replaced(i, n) /\ n.op = handlers[i].op
                                                       /\ n.at = handlers[i].at /\ Keeps(handlers[i], n)
<1>1. UNCHANGED <<backend, row, issued, access, refresh, curAccess, curRefresh>>
    BY DEF Broken, Interrupt, Abandon, OutsideAgent, storeVars
<1>2. CASE UNCHANGED <<handlers, upsets>>
    BY <1>1, <1>2
<1>3. CASE upsets' = upsets + 1 /\ \E i \in Handlers : End(i)
    BY <1>1, <1>3
<1>4. ASSUME NEW i \in Handlers, handlers[i].waiting, UNCHANGED upsets,
             handlers' = [handlers EXCEPT ![i].waiting = FALSE]
      PROVE  \E n \in Handler : /\ Replaced(i, n) /\ n.op = handlers[i].op
                                /\ n.at = handlers[i].at /\ Keeps(handlers[i], n)
    BY <1>1, <1>4, WaitStep
<1> QED BY <1>1, <1>2, <1>3, <1>4 DEF Broken, Interrupt, Abandon

LEMMA AnswerStep ==
    ASSUME NEW i \in Handlers, EndUnheard(i) \/ RegisterAnswer(i) \/ RefreshAnswer(i)
    PROVE  /\ UNCHANGED <<backend, row, issued, access, refresh, curAccess, curRefresh, upsets>>
           /\ Active(i) /\ End(i)
           /\ Command(i) \in {"reply", "check_node", "check_lease", "find_node"}
BY DEF EndUnheard, RegisterAnswer, RefreshAnswer, OutsideHub, OutsideAgent, storeVars, Heard, Refused

LEMMA InitAccounts == Init => Accounts
<1> SUFFICES ASSUME Init, NEW k \in Kinds PROVE AccountOf(k)
    BY DEF Accounts
<1>1. Live(k) = {} /\ Current(k) = 0 /\ upsets = 0
    BY DEF Init, Live, Current, None
<1>2. \A i \in Handlers : handlers[i].at = 1
    BY DEF Init, NoHandler
<1>3. Checked = {} /\ Owing(k) = {}
    BY <1>2 DEF Checked, Owing, Owes
<1>4. Cardinality({}) = 0 /\ IsFiniteSet({}) /\ {} \ {0} = {}
    BY FS_EmptySet
<1> QED BY <1>1, <1>3, <1>4 DEF AccountOf, Account

LEMMA StepAccounts == TypeInv /\ Accounts /\ [Next]_vars => Accounts'
<1> SUFFICES ASSUME TypeInv, Accounts, [Next]_vars PROVE Accounts'
    OBVIOUS
<1>1. CASE UNCHANGED vars \/ NodeMissing \/ Persist
  <2>1. UNCHANGED <<backend, access, refresh, curAccess, curRefresh, upsets, handlers>>
      BY <1>1 DEF vars, storeVars, NodeMissing, Persist, OutsideAgent
  <2> QED BY <2>1, SameAccounts
<1>2. ASSUME NEW i \in Handlers, HubStep(i) PROVE Accounts'
  <2>1. CASE EndUnheard(i)
      BY <2>1, AnswerStep, EndAccounts
  <2> QED BY <1>2, <2>1, CheckAccounts, IssueAccounts, RevokeAccounts, GetAccounts, DelAccounts,
             SetAccounts, SetCurrentAccounts, ForgetAccounts, RowAccounts DEF HubStep
<1>3. ASSUME NEW i \in Handlers,
             \/ DeleteNode(i) \/ Register(i) \/ Start(i) \/ RenewSession(i) \/ Rejected(i)
      PROVE  Accounts'
    BY <1>3, RequestStep, SameAccounts
<1>4. ASSUME NEW i \in Handlers, RegisterAnswer(i) \/ RefreshAnswer(i)
      PROVE  Accounts'
    BY <1>4, AnswerStep, EndAccounts
<1>5. CASE Broken
    BY <1>5, BrokenStep, SameAccounts, DropAccounts
<1>6. ASSUME NEW p, Expire(p) PROVE Accounts'
    BY <1>6, ExpireAccounts
<1>7. CASE HubRestart
    BY <1>7, EmptyAccounts
<1> QED BY <1>1, <1>2, <1>3, <1>4, <1>5, <1>6, <1>7 DEF Next, AgentStep, StartFails, Broken

-----------------------------------------------------------------------------
(***************************************************************************)
(* What is owed.                                                           *)
(***************************************************************************)
\* No handler comes to owe a refresh token.
NoGrant == \A j \in Handlers :
              Granting(handlers'[j]) => Granting(handlers[j]) /\ handlers'[j].new = handlers[j].new

LEMMA ReplacedGrant ==
    ASSUME TypeInv, NEW i \in Handlers, NEW n, Replaced(i, n),
           Granting(n) => Granting(handlers[i]) /\ n.new = handlers[i].new
    PROVE  NoGrant
BY DEF Replaced, NoGrant, TypeInv, HandlerType

LEMMA KeepGrant ==
    ASSUME TypeInv, UNCHANGED handlers
    PROVE  NoGrant
BY DEF NoGrant

LEMMA EndGrant ==
    ASSUME TypeInv, UNCHANGED <<backend, issued>>, NEW i \in Handlers, End(i)
    PROVE  NoGrant
<1>1. Replaced(i, NoHandler)
    BY EndStep
<1>2. ~Granting(NoHandler)
    BY DEF Granting, Issuing, NoHandler
<1> QED BY <1>1, <1>2, ReplacedGrant

\* Only the command that writes the access lease makes a handler owe one.
LEMMA AdvancedGrant ==
    ASSUME TypeInv, NEW i \in Handlers, NEW n, Advanced(i, n),
           ~(backend = "redis" /\ Issuing(handlers[i]) /\ handlers[i].at = 6)
    PROVE  NoGrant
<1>1. n.at = handlers[i].at + 1 /\ handlers[i].at \in Nat /\ n.op = handlers[i].op
    BY HandlerFacts DEF Advanced
<1>2. ~Granting(n)
    BY <1>1 DEF Granting, Spots, Issuing
<1> QED BY <1>2, ReplacedGrant DEF Advanced

LEMMA HubGrant ==
    ASSUME TypeInv, NEW i \in Handlers, HubStep(i), ~SetLease(i)
    PROVE  NoGrant
<1>1. CASE Check(i)
  <2>1. handlers[i].at = 1 /\ \E n \in Handler : Advanced(i, n)
      BY <1>1, CheckStep
  <2> QED BY <2>1, AdvancedGrant
<1>2. CASE MemoryIssue(i)
  <2>1. backend = "memory" /\ \E n \in Handler : Advanced(i, n)
      BY <1>2, IssueStep
  <2> QED BY <2>1, AdvancedGrant
<1>3. CASE MemoryRevoke(i)
  <2>1. backend = "memory" /\ \E n \in Handler : Advanced(i, n)
      BY <1>3, RevokeStep
  <2> QED BY <2>1, AdvancedGrant
<1>4. CASE GetCurrent(i)
  <2>1. PICK k \in Kinds, n \in Handler : /\ Advanced(i, n) /\ backend = "redis"
                                          /\ handlers[i].at = Spots(k).get
      BY <1>4, GetStep
  <2>2. handlers[i].at # 6
      BY <2>1 DEF Spots
  <2> QED BY <2>1, <2>2, AdvancedGrant
<1>5. CASE DelLease(i)
  <2>1. PICK k \in Kinds, n \in Handler :
            /\ Advanced(i, n) /\ backend = "redis"
            /\ handlers[i].at = IF Issuing(handlers[i]) THEN Spots(k).free ELSE Spots(k).freed
      BY <1>5, DelStep
  <2>2. Issuing(handlers[i]) => handlers[i].at # 6
      BY <2>1 DEF Spots
  <2> QED BY <2>1, <2>2, AdvancedGrant
<1>6. CASE SetCurrent(i)
  <2>1. PICK k \in Kinds, n \in Handler : /\ Advanced(i, n) /\ backend = "redis"
                                          /\ handlers[i].at = Spots(k).current
      BY <1>6, CurrentStep
  <2>2. handlers[i].at # 6
      BY <2>1 DEF Spots
  <2> QED BY <2>1, <2>2, AdvancedGrant
<1>7. CASE DelCurrent(i)
  <2>1. ~Issuing(handlers[i]) /\ \E n \in Handler : Advanced(i, n)
      BY <1>7, ForgetStep
  <2> QED BY <2>1, AdvancedGrant
<1>8. CASE SaveNode(i) \/ DeleteRow(i)
  <2>1. /\ handlers[i].at > (IF backend = "memory" THEN 2 ELSE IF Issuing(handlers[i]) THEN 9 ELSE 7)
        /\ handlers[i].at \in Nat
        /\ \E n \in Handler : Advanced(i, n)
      BY <1>8, RowStep, HandlerFacts
  <2>2. ~(backend = "redis" /\ Issuing(handlers[i]) /\ handlers[i].at = 6)
      BY <2>1
  <2> QED BY <2>1, <2>2, AdvancedGrant
<1>9. CASE EndUnheard(i)
    BY <1>9, AnswerStep, EndGrant
<1> QED BY <1>1, <1>2, <1>3, <1>4, <1>5, <1>6, <1>7, <1>8, <1>9 DEF HubStep

\* What a step can do to the leases.
Retiring == /\ access' \subseteq access /\ refresh' \subseteq refresh
            /\ NoGrant /\ UNCHANGED <<issued, upsets>>
Disturbing == upsets' = upsets + 1 /\ NoGrant /\ UNCHANGED <<issued, access, refresh>>
Leasing == \E i \in Handlers : (MemoryIssue(i) /\ NoGrant) \/ SetLease(i)

LEMMA HubKinds ==
    ASSUME TypeInv, NEW i \in Handlers, HubStep(i)
    PROVE  UNCHANGED backend /\ (Retiring \/ Disturbing \/ Leasing)
<1>1. UNCHANGED backend
    BY DEF HubStep, Check, MemoryIssue, MemoryRevoke, GetCurrent, DelLease, SetLease, SetCurrent,
           DelCurrent, SaveNode, DeleteRow, EndUnheard, OutsideHub
<1>2. CASE SetLease(i)
    BY <1>1, <1>2 DEF Leasing
<1>3. CASE ~SetLease(i)
  <2>1. NoGrant
      BY <1>3, HubGrant
  <2>2. CASE MemoryIssue(i)
      BY <1>1, <2>1, <2>2 DEF Leasing
  <2>3. CASE Check(i)
      BY <1>1, <2>1, <2>3 DEF Check, storeVars, Retiring, Disturbing
  <2>4. CASE ~MemoryIssue(i) /\ ~Check(i)
    <3>1. /\ UNCHANGED <<issued, upsets>> /\ access' \subseteq access /\ refresh' \subseteq refresh
        BY <1>3, <2>4 DEF HubStep, MemoryRevoke, GetCurrent, DelLease, SetCurrent,
                          DelCurrent, SaveNode, DeleteRow, EndUnheard, OutsideHub, storeVars
    <3> QED BY <1>1, <2>1, <3>1 DEF Retiring
  <2> QED BY <2>2, <2>3, <2>4
<1> QED BY <1>2, <1>3

LEMMA StepKinds ==
    ASSUME TypeInv, [Next]_vars
    PROVE  UNCHANGED backend /\ (Retiring \/ Disturbing \/ Leasing)
<1>1. CASE UNCHANGED vars \/ NodeMissing \/ Persist
  <2>1. UNCHANGED <<backend, issued, access, refresh, upsets, handlers>>
      BY <1>1 DEF vars, storeVars, NodeMissing, Persist, OutsideAgent
  <2> QED BY <2>1, KeepGrant DEF Retiring
<1>2. ASSUME NEW i \in Handlers,
             \/ DeleteNode(i) \/ Register(i) \/ Start(i) \/ RenewSession(i) \/ Rejected(i)
      PROVE  UNCHANGED backend /\ Retiring
  <2>1. PICK n \in Handler : Replaced(i, n) /\ n.at = 1
      BY <1>2, RequestStep
  <2>2. NoGrant
      BY <2>1, ReplacedGrant DEF Granting, Spots
  <2> QED BY <1>2, <2>2, RequestStep DEF Retiring
<1>3. ASSUME NEW i \in Handlers, RegisterAnswer(i) \/ RefreshAnswer(i)
      PROVE  UNCHANGED backend /\ Retiring
  <2>1. NoGrant
      BY <1>3, AnswerStep, EndGrant
  <2> QED BY <1>3, <2>1, AnswerStep DEF Retiring
<1>4. CASE Broken
  <2>1. UNCHANGED <<backend, issued, access, refresh>>
      BY <1>4, BrokenStep
  <2>2. CASE UNCHANGED <<handlers, upsets>>
      BY <2>1, <2>2, KeepGrant DEF Retiring
  <2>3. CASE upsets' = upsets + 1 /\ \E i \in Handlers : End(i)
      BY <2>1, <2>3, EndGrant DEF Disturbing
  <2>4. ASSUME UNCHANGED upsets, NEW i \in Handlers, NEW n, Replaced(i, n), n.op = handlers[i].op,
               n.at = handlers[i].at, Keeps(handlers[i], n)
        PROVE  Retiring
    <3>1. NoGrant
        BY <2>4, ReplacedGrant DEF Granting, Issuing, Keeps
    <3> QED BY <2>1, <2>4, <3>1 DEF Retiring
  <2> QED BY <1>4, <2>1, <2>2, <2>3, <2>4, BrokenStep
<1>5. ASSUME NEW p, Expire(p) PROVE UNCHANGED backend /\ Retiring
  <2>1. UNCHANGED <<backend, issued, upsets, handlers>> /\ access' \subseteq access
        /\ refresh' \subseteq refresh
      BY <1>5 DEF Expire
  <2> QED BY <2>1, KeepGrant DEF Retiring
<1>6. CASE HubRestart
  <2>1. NoGrant
      BY <1>6, RestartTyped DEF NoGrant, Granting, Issuing, NoHandler
  <2> QED BY <1>6, <2>1 DEF HubRestart, Retiring
<1> QED BY <1>1, <1>2, <1>3, <1>4, <1>5, <1>6, HubKinds DEF Next, AgentStep, StartFails, Broken

LEMMA StepDistinct == TypeInv /\ Distinct /\ [Next]_vars => Distinct'
<1> SUFFICES ASSUME TypeInv, Distinct, [Next]_vars PROVE Distinct'
    OBVIOUS
<1>1. UNCHANGED backend
    BY StepKinds
<1>2. ASSUME NEW j \in Handlers PROVE Granting(handlers[j])' <=> Granting(handlers'[j])
    BY <1>1 DEF Granting, Spots
<1>3. CASE NoGrant
    BY <1>2, <1>3 DEF NoGrant, Distinct
<1>4. CASE \E i \in Handlers : SetLease(i)
  <2>1. PICK i \in Handlers : SetLease(i)
      BY <1>4
  <2>2. PICK k \in Kinds, n \in Handler :
              /\ Advanced(i, n)
              /\ backend = "redis" /\ handlers[i].at = Spots(k).lease
              /\ IF k = "access" THEN issued' = issued + 1 /\ n.new = issued'
                 ELSE issued' = issued /\ n.new = handlers[i].new
      BY <2>1, SetStep
  <2>3. CASE k = "access"
    <3>1. \A j \in Handlers : handlers[j].new # n.new
        BY <2>2, <2>3, HandlerFacts
    <3>2. handlers'[i] = n /\ \A j \in Handlers \ {i} : handlers'[j] = handlers[j]
        BY <2>2 DEF Advanced, Replaced, TypeInv, HandlerType
    <3> QED BY <1>2, <3>1, <3>2 DEF Distinct
  <2>4. CASE k = "refresh"
    <3>1. handlers[i].at # 6
        BY <2>2, <2>4 DEF Spots
    <3>2. NoGrant
        BY <2>2, <3>1, AdvancedGrant
    <3> QED BY <1>3, <3>2
  <2> QED BY <2>3, <2>4 DEF Kinds
<1> QED BY <1>3, <1>4, StepKinds DEF Retiring, Disturbing, Leasing

-----------------------------------------------------------------------------
(***************************************************************************)
(* A node without overlapping or dropped requests.                         *)
(***************************************************************************)
LEMMA AloneKept ==
    ASSUME TypeInv, Alone, UNCHANGED upsets, Checked' \subseteq Checked,
           \A j \in Checked' : handlers'[j].op = handlers[j].op,
           row' = "gone" /\ upsets = 0 =>
              row = "gone" /\ access' \subseteq access /\ refresh' \subseteq refresh
    PROVE  Alone'
<1> SUFFICES ASSUME upsets = 0
             PROVE  /\ \A i, j \in Checked' : i = j
                    /\ row' = "gone" => /\ access' = {} /\ refresh' = {}
                                        /\ \A i \in Checked' : ~Issuing(handlers'[i])
    BY DEF Alone
<1>1. \A i, j \in Checked' : i = j
    BY DEF Alone
<1>2. ASSUME row' = "gone"
      PROVE  /\ access' = {} /\ refresh' = {}
             /\ \A i \in Checked' : ~Issuing(handlers'[i])
    BY <1>2 DEF Alone, Issuing
<1> QED BY <1>1, <1>2

LEMMA AdvancedAlone ==
    ASSUME TypeInv, Alone, UNCHANGED upsets, NEW i \in Handlers, NEW n, Advanced(i, n),
           handlers[i].at > 1,
           row' = "gone" /\ upsets = 0 =>
              row = "gone" /\ access' \subseteq access /\ refresh' \subseteq refresh
    PROVE  Alone'
<1>1. /\ handlers'[i] = n /\ n.op = handlers[i].op
      /\ \A j \in Handlers \ {i} : handlers'[j] = handlers[j]
    BY DEF Advanced, Replaced, TypeInv, HandlerType
<1>2. Checked' \subseteq Checked
    BY <1>1 DEF Checked
<1>3. \A j \in Checked' : handlers'[j].op = handlers[j].op
    BY <1>1 DEF Checked
<1> QED BY <1>2, <1>3, AloneKept

LEMMA CheckAlone ==
    ASSUME TypeInv, Alone, NEW i \in Handlers, Check(i)
    PROVE  Alone'
<1>1. PICK n \in Handler : Advanced(i, n)
    BY CheckStep
<1>2. /\ handlers[i].at = 1 /\ UNCHANGED <<row, access, refresh>> /\ upsets \in Nat
    BY CheckStep DEF Check, storeVars, TypeInv, BaseType
<1> SUFFICES ASSUME upsets' = 0
             PROVE  /\ \A j, g \in Checked' : j = g
                    /\ row' # "gone"
    BY DEF Alone
<1>3. upsets = 0 /\ ~\E j \in Handlers \ {i} : handlers[j].at > 1
    BY <1>2 DEF Check
<1>4. Checked' \subseteq {i}
    BY <1>1, <1>3 DEF Checked, Advanced, Replaced, TypeInv, HandlerType
<1>5. row # "gone"
    BY <1>3 DEF Alone, Check, CheckPasses
<1> QED BY <1>2, <1>4, <1>5

\* The row is deleted after the node's tokens.
LEMMA DeleteAlone ==
    ASSUME TypeInv, Accounts, Alone, NEW i \in Handlers, DeleteRow(i)
    PROVE  Alone'
<1> DEFINE h == handlers[i]
<1>1. PICK n \in Handler : Advanced(i, n)
    BY RowStep
<1>2. /\ ~Issuing(h) /\ h.at > (IF backend = "memory" THEN 2 ELSE 7) /\ h.at \in Nat
      /\ backend \in {"redis", "memory"}
    BY RowStep, HandlerFacts
<1>3. UNCHANGED <<access, refresh, upsets>>
    BY DEF DeleteRow, OutsideHub, storeVars
<1> SUFFICES ASSUME upsets = 0
             PROVE  /\ \A j, g \in Checked' : j = g
                    /\ access = {} /\ refresh = {}
                    /\ \A j \in Checked' : ~Issuing(handlers'[j])
    BY <1>3 DEF Alone
<1>4. i \in Checked /\ Checked = {i}
    BY <1>2 DEF Checked, Alone
<1>5. Checked' \subseteq {i} /\ handlers'[i].op = h.op
    BY <1>1, <1>4 DEF Checked, Advanced, Replaced, TypeInv, HandlerType
<1>6. ASSUME NEW k \in Kinds PROVE Live(k) = {}
  <2>1. Held(k)[i] = None
    <3>1. Held(k)[i] = Holds(k, h) /\ Holding(k, h)
        BY HandlerFacts DEF Held
    <3>2. Holds(k, h) = Old(k, h)
        BY <1>2 DEF Holds, Spots
    <3>3. Old(k, h) = None
        BY <1>2, <3>1 DEF Holding, Spots
    <3> QED BY <3>1, <3>2, <3>3
  <2>2. /\ IsFiniteSet(Live(k)) /\ IsFiniteSet(Checked) /\ Owing(k) \subseteq Checked
        /\ None \notin Live(k)
        /\ Cardinality(Live(k) \ {Held(k)[i]}) + Cardinality(Owing(k) \ {i}) <= 0
      BY <1>4 DEF Accounts, AccountOf, Account
  <2>3. Live(k) \ {Held(k)[i]} = Live(k) /\ Owing(k) \ {i} = {}
      BY <1>4, <2>1, <2>2
  <2>4. Cardinality(Live(k)) \in Nat /\ Cardinality({}) = 0
      BY <2>2, FS_CardinalityType, FS_EmptySet
  <2>5. Cardinality(Live(k)) = 0
    <3>1. Cardinality(Live(k)) + 0 <= 0
        BY <2>2, <2>3, <2>4
    <3> QED BY <2>4, <3>1
  <2> QED BY <2>2, <2>5, FS_EmptySet
<1>7. access = {} /\ refresh = {}
  <2>1. Live("access") = {} /\ Live("refresh") = {}
      BY <1>6 DEF Kinds
  <2> QED BY <2>1 DEF Live
<1> QED BY <1>2, <1>5, <1>7 DEF Issuing

LEMMA HubAlone ==
    ASSUME TypeInv, Accounts, Alone, NEW i \in Handlers, HubStep(i)
    PROVE  Alone'
<1>1. CASE EndUnheard(i)
  <2>1. UNCHANGED <<backend, row, issued, access, refresh, upsets>> /\ End(i)
      BY <1>1, AnswerStep
  <2>2. Checked' \subseteq Checked /\ \A j \in Checked' : handlers'[j] = handlers[j]
      BY <2>1 DEF End, Checked, NoHandler, TypeInv, HandlerType
  <2> QED BY <2>1, <2>2, AloneKept
<1>2. ASSUME NEW n, Advanced(i, n), handlers[i].at > 1, UNCHANGED upsets,
             UNCHANGED row \/ SaveNode(i),
             Issuing(handlers[i]) \/ (access' \subseteq access /\ refresh' \subseteq refresh)
      PROVE  Alone'
  <2>1. row' = "gone" => row = "gone"
      BY <1>2 DEF SaveNode
  <2>2. row = "gone" /\ upsets = 0 => ~Issuing(handlers[i])
      BY <1>2 DEF Alone, Checked
  <2> QED BY <1>2, <2>1, <2>2, AdvancedAlone
<1>3. CASE MemoryIssue(i)
  <2>1. PICK n \in Handler : Advanced(i, n)
      BY <1>3, IssueStep
  <2> QED BY <1>2, <1>3, <2>1, IssueStep DEF MemoryIssue, OutsideHub
<1>4. CASE MemoryRevoke(i)
  <2>1. PICK n \in Handler : Advanced(i, n)
      BY <1>4, RevokeStep
  <2>2. access' \subseteq access /\ refresh' \subseteq refresh /\ UNCHANGED <<row, upsets>>
      BY <1>4 DEF MemoryRevoke, OutsideHub
  <2> QED BY <1>2, <1>4, <2>1, <2>2, RevokeStep
<1>5. CASE GetCurrent(i)
  <2>1. PICK k \in Kinds, n \in Handler : Advanced(i, n) /\ handlers[i].at = Spots(k).get
      BY <1>5, GetStep
  <2>2. handlers[i].at > 1
      BY <2>1 DEF Spots
  <2>3. UNCHANGED <<row, upsets, access, refresh>>
      BY <1>5 DEF GetCurrent, OutsideHub, storeVars
  <2> QED BY <1>2, <2>1, <2>2, <2>3
<1>6. CASE DelLease(i)
  <2>1. PICK k \in Kinds, n \in Handler :
            /\ Advanced(i, n)
            /\ handlers[i].at = IF Issuing(handlers[i]) THEN Spots(k).free ELSE Spots(k).freed
      BY <1>6, DelStep
  <2>2. handlers[i].at > 1
      BY <2>1 DEF Spots
  <2>3. UNCHANGED <<row, upsets>> /\ access' \subseteq access /\ refresh' \subseteq refresh
      BY <1>6 DEF DelLease, OutsideHub
  <2> QED BY <1>2, <2>1, <2>2, <2>3
<1>7. CASE SetLease(i)
  <2>1. PICK k \in Kinds, n \in Handler : /\ Advanced(i, n) /\ Issuing(handlers[i])
                                          /\ handlers[i].at = Spots(k).lease
      BY <1>7, SetStep
  <2>2. handlers[i].at > 1
      BY <2>1 DEF Spots
  <2>3. UNCHANGED <<row, upsets>>
      BY <1>7 DEF SetLease, OutsideHub
  <2> QED BY <1>2, <2>1, <2>2, <2>3
<1>8. CASE SetCurrent(i)
  <2>1. PICK k \in Kinds, n \in Handler : Advanced(i, n) /\ handlers[i].at = Spots(k).current
      BY <1>8, CurrentStep
  <2>2. handlers[i].at > 1
      BY <2>1 DEF Spots
  <2>3. UNCHANGED <<row, upsets, access, refresh>>
      BY <1>8 DEF SetCurrent, OutsideHub
  <2> QED BY <1>2, <2>1, <2>2, <2>3
<1>9. CASE DelCurrent(i)
  <2>1. PICK k \in Kinds, n \in Handler : Advanced(i, n) /\ handlers[i].at = Spots(k).gone
      BY <1>9, ForgetStep
  <2>2. handlers[i].at > 1
      BY <2>1 DEF Spots
  <2>3. UNCHANGED <<row, upsets, access, refresh>>
      BY <1>9 DEF DelCurrent, OutsideHub
  <2> QED BY <1>2, <2>1, <2>2, <2>3
<1>10. CASE SaveNode(i)
  <2>1. PICK n \in Handler : Advanced(i, n)
      BY <1>10, RowStep
  <2>2. handlers[i].at > 1
    <3>1. /\ handlers[i].at > (IF backend = "memory" THEN 2
                               ELSE IF Issuing(handlers[i]) THEN 9 ELSE 7)
          /\ handlers[i].at \in Nat
        BY <1>10, RowStep, HandlerFacts
    <3> QED BY <3>1
  <2>3. UNCHANGED <<upsets, access, refresh>>
      BY <1>10 DEF SaveNode, OutsideHub, storeVars
  <2> QED BY <1>2, <1>10, <2>1, <2>2, <2>3
<1> QED BY <1>1, <1>3, <1>4, <1>5, <1>6, <1>7, <1>8, <1>9, <1>10, CheckAlone, DeleteAlone DEF HubStep

LEMMA StepAlone == TypeInv /\ Accounts /\ Alone /\ [Next]_vars => Alone'
<1> SUFFICES ASSUME TypeInv, Accounts, Alone, [Next]_vars PROVE Alone'
    OBVIOUS
<1>1. CASE UNCHANGED vars \/ NodeMissing \/ Persist
  <2>1. UNCHANGED <<row, access, refresh, upsets, handlers>>
      BY <1>1 DEF vars, storeVars, NodeMissing, Persist, OutsideAgent
  <2> QED BY <2>1, AloneKept DEF Checked
<1>2. ASSUME NEW i \in Handlers, NEW n, Replaced(i, n), UNCHANGED <<row, access, refresh, upsets>>,
             \/ n.at = 1
             \/ n.at = handlers[i].at /\ n.op = handlers[i].op
      PROVE  Alone'
  <2>1. handlers'[i] = n /\ \A j \in Handlers \ {i} : handlers'[j] = handlers[j]
      BY <1>2 DEF Replaced, TypeInv, HandlerType
  <2>2. Checked' \subseteq Checked /\ \A j \in Checked' : handlers'[j].op = handlers[j].op
      BY <1>2, <2>1 DEF Checked
  <2> QED BY <1>2, <2>2, AloneKept
<1>3. ASSUME NEW i \in Handlers,
             \/ DeleteNode(i) \/ Register(i) \/ Start(i) \/ RenewSession(i) \/ Rejected(i)
      PROVE  Alone'
    BY <1>2, <1>3, RequestStep
<1>4. ASSUME NEW i \in Handlers, RegisterAnswer(i) \/ RefreshAnswer(i)
      PROVE  Alone'
  <2>1. /\ UNCHANGED <<backend, issued, row, access, refresh, upsets>> /\ End(i)
      BY <1>4, AnswerStep
  <2>2. Replaced(i, NoHandler) /\ NoHandler.at = 1
      BY <2>1, EndStep DEF NoHandler
  <2> QED BY <1>2, <2>1, <2>2
<1>5. CASE Broken
  <2>1. UNCHANGED <<backend, row, issued, access, refresh>> /\ upsets \in Nat
      BY <1>5, BrokenStep DEF TypeInv, BaseType
  <2>2. CASE UNCHANGED <<handlers, upsets>>
      BY <2>1, <2>2, AloneKept DEF Checked
  <2>3. CASE upsets' = upsets + 1
      BY <2>1, <2>3 DEF Alone
  <2> QED BY <1>2, <1>5, <2>1, <2>2, <2>3, BrokenStep
<1>6. ASSUME NEW p, Expire(p) PROVE Alone'
  <2>1. /\ UNCHANGED <<row, upsets, handlers>> /\ access' \subseteq access
        /\ refresh' \subseteq refresh
      BY <1>6 DEF Expire
  <2> QED BY <2>1, AloneKept DEF Checked
<1>7. CASE HubRestart
  <2>1. /\ UNCHANGED <<row, upsets>> /\ access' \subseteq access /\ refresh' \subseteq refresh
      BY <1>7 DEF HubRestart
  <2>2. Checked' = {}
      BY <1>7, RestartTyped DEF Checked, NoHandler
  <2> QED BY <2>1, <2>2, AloneKept
<1> QED BY <1>1, <1>3, <1>4, <1>5, <1>6, <1>7, HubAlone DEF Next, AgentStep, StartFails, Broken

-----------------------------------------------------------------------------
(***************************************************************************)
(* The store keeps what it promises.                                       *)
(***************************************************************************)
Inv == TypeInv /\ Accounts /\ Distinct /\ Alone

LEMMA InitInv == Init => Inv
<1> SUFFICES ASSUME Init PROVE Inv
    OBVIOUS
<1>1. TypeInv /\ Accounts
    BY InitTyped, InitAccounts
<1>2. \A i \in Handlers : handlers[i] = NoHandler
    BY DEF Init
<1>3. Distinct
    BY <1>2 DEF Distinct, Granting, Issuing, NoHandler
<1>4. Alone
    BY <1>2 DEF Alone, Checked, NoHandler, Init
<1> QED BY <1>1, <1>3, <1>4 DEF Inv

LEMMA StepInv == Inv /\ [Next]_vars => Inv'
BY StepTyped, StepAccounts, StepDistinct, StepAlone DEF Inv

\* DeletedLeaves: of a deleted node whose requests never overlapped and were
\* never dropped no token is left, with either store, for any number of handlers.
THEOREM DeletedLeaves == Spec => []DeletedLeavesNothing
<1>1. Inv => DeletedLeavesNothing
    BY DEF Inv, Alone, DeletedLeavesNothing
<1> QED BY <1>1, InitInv, StepInv, PTL DEF Spec

Owed == {handlers[i].new : i \in {j \in Handlers : Doing(j, "set_refresh")}}

LEMMA OwedGranting ==
    TypeInv => Owed = {handlers[i].new : i \in {j \in Handlers : Granting(handlers[j])}}
<1> SUFFICES ASSUME TypeInv
             PROVE  Owed = {handlers[i].new : i \in {j \in Handlers : Granting(handlers[j])}}
    OBVIOUS
<1>1. ASSUME NEW j \in Handlers PROVE Doing(j, "set_refresh") <=> Granting(handlers[j])
  <2>1. CASE Active(j)
      BY <2>1, CommandAt DEF Doing, Granting, Spots
  <2>2. CASE ~Active(j)
      BY <2>2 DEF Doing, Granting, Issuing, Active
  <2> QED BY <2>1, <2>2
<1> QED BY <1>1 DEF Owed

LEMMA OwedNext ==
    ASSUME TypeInv', UNCHANGED backend
    PROVE  Owed' = {handlers'[i].new : i \in {j \in Handlers : Granting(handlers'[j])}}
<1>1. (Owed = {handlers[i].new : i \in {j \in Handlers : Granting(handlers[j])}})'
    BY OwedGranting, PTL
<1>2. \A j \in Handlers : Granting(handlers[j])' <=> Granting(handlers'[j])
    BY DEF Granting, Spots
<1> QED BY <1>1, <1>2

LEMMA OwedKept ==
    ASSUME TypeInv, TypeInv', UNCHANGED backend, NoGrant
    PROVE  Owed' \subseteq Owed
BY OwedNext, OwedGranting DEF NoGrant

\* The instance counts like this module.
LEMMA SameCardinality ==
    ASSUME NEW S
    PROVE  Leases!Cardinality(S) = Cardinality(S)
BY DEF Leases!Cardinality, Cardinality

\* Both kinds stay within the account.
LEMMA FewLive ==
    Inv => Cardinality(access) <= 1 + upsets /\ Cardinality(refresh) <= 1 + upsets
<1> SUFFICES ASSUME TypeInv, Accounts
             PROVE  Cardinality(access) <= 1 + upsets /\ Cardinality(refresh) <= 1 + upsets
    BY DEF Inv
<1>1. ASSUME NEW k \in Kinds PROVE Cardinality(Live(k)) <= 1 + upsets
  <2>1. Account(Live(k), Current(k), Checked, Owing(k), Held(k), upsets) /\ upsets \in Nat
      BY DEF Accounts, AccountOf, TypeInv, BaseType
  <2> QED BY <2>1, AccountFew
<1>2. Cardinality(Live("access")) <= 1 + upsets /\ Cardinality(Live("refresh")) <= 1 + upsets
    BY <1>1 DEF Kinds
<1> QED BY <1>2 DEF Live

LEMMA LeasingImplements ==
    ASSUME Inv, Inv', UNCHANGED backend, Leasing
    PROVE  Leases!Next
<1>1. /\ Cardinality(access') <= 1 + upsets' /\ Cardinality(refresh') <= 1 + upsets'
      /\ TypeInv /\ TypeInv' /\ Distinct
  <2>1. (Cardinality(access) <= 1 + upsets /\ Cardinality(refresh) <= 1 + upsets)'
      BY FewLive, PTL
  <2> QED BY <2>1 DEF Inv
<1>2. PICK i \in Handlers : (MemoryIssue(i) /\ NoGrant) \/ SetLease(i)
    BY DEF Leasing
<1>3. UNCHANGED upsets
    BY <1>2 DEF MemoryIssue, SetLease, OutsideHub
<1>4. CASE MemoryIssue(i) /\ NoGrant
  <2>1. /\ issued' = issued + 1
        /\ access' \subseteq access \cup {issued'} /\ refresh' \subseteq refresh \cup {issued'}
      BY <1>4 DEF MemoryIssue
  <2>2. Owed' \subseteq Owed \cup {issued'}
      BY <1>1, <1>4, OwedKept
  <2>3. Leases!Issue
      BY <1>1, <1>3, <2>1, <2>2, SameCardinality DEF Leases!Issue, Leases!Few, Owed
  <2> QED BY <2>3 DEF Leases!Next
<1>5. CASE SetLease(i)
  <2>1. PICK k \in Kinds, n \in Handler :
              /\ Advanced(i, n)
              /\ backend = "redis" /\ Issuing(handlers[i]) /\ handlers[i].at = Spots(k).lease
              /\ IF k = "access" THEN issued' = issued + 1 /\ n.new = issued'
                 ELSE issued' = issued /\ n.new = handlers[i].new
              /\ Live(k)' = Live(k) \cup {n.new}
              /\ \A q \in Kinds \ {k} : Live(q)' = Live(q)
      BY <1>1, <1>5, SetStep DEF Others
  <2>2. /\ handlers'[i] = n /\ n.at = handlers[i].at + 1
        /\ \A j \in Handlers \ {i} : handlers'[j] = handlers[j]
      BY <1>1, <2>1 DEF Advanced, Replaced, TypeInv, HandlerType
  <2>3. /\ Owed = {handlers[j].new : j \in {g \in Handlers : Granting(handlers[g])}}
        /\ Owed' = {handlers'[j].new : j \in {g \in Handlers : Granting(handlers'[g])}}
      BY <1>1, OwedNext, OwedGranting
  <2>4. CASE k = "access"
    <3>1. issued' = issued + 1 /\ access' = access \cup {issued'} /\ refresh' = refresh
        BY <2>1, <2>4 DEF Kinds, Live
    <3>2. Owed' \subseteq Owed \cup {issued'}
        BY <2>1, <2>2, <2>3, <2>4
    <3>3. Leases!Issue
        BY <1>1, <1>3, <3>1, <3>2, SameCardinality DEF Leases!Issue, Leases!Few, Owed
    <3> QED BY <3>3 DEF Leases!Next
  <2>5. CASE k = "refresh"
    <3>1. /\ issued' = issued /\ access' = access /\ refresh' = refresh \cup {handlers[i].new}
        BY <2>1, <2>5 DEF Kinds, Live
    <3>2. Granting(handlers[i]) /\ ~Granting(n)
      <4>1. handlers[i].at = 7 /\ n.at = 8 /\ Spots("refresh").lease = 7
          BY <2>1, <2>2, <2>5 DEF Spots
      <4> QED BY <2>1, <4>1 DEF Granting
    <3>3. handlers[i].new \in Owed
        BY <2>3, <3>2
    <3>4. Owed' = Owed \ {handlers[i].new}
      <4>1. ASSUME NEW x \in Owed' PROVE x \in Owed \ {handlers[i].new}
        <5>1. PICK g \in Handlers : Granting(handlers'[g]) /\ x = handlers'[g].new
            BY <2>3
        <5>2. g # i /\ handlers'[g] = handlers[g]
            BY <2>2, <3>2, <5>1
        <5>3. handlers[g].new # handlers[i].new
            BY <1>1, <3>2, <5>1, <5>2 DEF Distinct
        <5> QED BY <2>3, <5>1, <5>2, <5>3
      <4>2. ASSUME NEW x \in Owed \ {handlers[i].new} PROVE x \in Owed'
        <5>1. PICK g \in Handlers : Granting(handlers[g]) /\ x = handlers[g].new
            BY <2>3
        <5>2. g # i /\ handlers'[g] = handlers[g]
            BY <2>2, <5>1
        <5> QED BY <2>3, <5>1, <5>2
      <4> QED BY <4>1, <4>2
    <3>5. Leases!GrantRefresh
        BY <1>1, <1>3, <3>1, <3>3, <3>4, SameCardinality DEF Leases!GrantRefresh, Leases!Few, Owed
    <3> QED BY <3>5 DEF Leases!Next
  <2> QED BY <2>4, <2>5 DEF Kinds
<1> QED BY <1>2, <1>4, <1>5

LEMMA StepImplements ==
    ASSUME Inv, Inv', [Next]_vars
    PROVE  Leases!Next
<1>1. UNCHANGED backend /\ (Retiring \/ Disturbing \/ Leasing) /\ TypeInv /\ TypeInv'
    BY StepKinds DEF Inv
<1>2. CASE Retiring
  <2>1. Owed' \subseteq Owed
      BY <1>1, <1>2, OwedKept DEF Retiring
  <2>2. Leases!Retire
      BY <1>2, <2>1 DEF Leases!Retire, Retiring, Owed
  <2> QED BY <2>2 DEF Leases!Next
<1>3. CASE Disturbing
  <2>1. Owed' \subseteq Owed
      BY <1>1, <1>3, OwedKept DEF Disturbing
  <2>2. Leases!Disturb
      BY <1>3, <2>1 DEF Leases!Disturb, Disturbing, Owed
  <2> QED BY <2>2 DEF Leases!Next
<1>4. CASE Leasing
    BY <1>1, <1>4, LeasingImplements
<1> QED BY <1>1, <1>2, <1>3, <1>4

LEMMA InitImplements == Init => Leases!Init
<1> SUFFICES ASSUME Init PROVE Leases!Init
    OBVIOUS
<1>1. \A i \in Handlers : ~Doing(i, "set_refresh")
    BY DEF Init, Doing, Active, NoHandler
<1>2. Owed = {}
    BY <1>1 DEF Owed
<1> QED BY <1>2 DEF Leases!Init, Init, Owed

\* StoresImplementLeases: RedisTokenStore and MemoryTokenStore do what a store of
\* node tokens promises, however the handlers of one node interleave, for any
\* number of handlers: a token that died is never written back, and at most one
\* token of each kind is live, plus one for each overlap and dropped handler.
THEOREM StoresImplementLeases == Spec => KeepsPromise
<1>1. Inv /\ Inv' /\ [Next]_vars => [Leases!Next]_(Leases!leaseVars)
    BY StepImplements
<1> QED BY <1>1, InitInv, StepInv, InitImplements, PTL DEF Spec, KeepsPromise, Leases!Spec

=============================================================================
