--------------------- MODULE CertificateIssuanceProofs ---------------------
(***************************************************************************)
(* What the dns-workers promise about certificate orders, proved for every *)
(* number of workers, administrators and sites, every batch size and every *)
(* bound: each order has one worker and is issued once, a TXT record stays *)
(* until it was looked up, the record of the attempt that is issued is     *)
(* gone by then, no version is stored twice, and sites are bound to the    *)
(* newest version.                                                         *)
(***************************************************************************)
EXTENDS CertificateOrdersProofs

-----------------------------------------------------------------------------
(***************************************************************************)
(* What a step can do, by what becomes of the rows and of the batches.     *)
(***************************************************************************)

\* Rows outside S keep what the workers go by; new rows are pending; nothing is
\* issued; only worker w takes a step.
Steady(S)    == \A o \in DOMAIN orders \ S : /\ orders'[o].status = orders[o].status
                                             /\ orders'[o].payload = orders[o].payload
                                             /\ orders'[o].warned = orders[o].warned
Fresh        == \A o \in DOMAIN orders' \ DOMAIN orders :
                  orders'[o].status = "pending_dns_challenge" /\ orders'[o].payload = NoAcme
SameVersions == /\ \A c \in DOMAIN certs : Versions(c)' = Versions(c)
                /\ \A c \in DOMAIN certs' \ DOMAIN certs : Versions(c)' = <<>>
Others(w)    == \A v \in Workers \ {w} : worker'[v] = worker[v]

\* Requests, but for the requeue, the ACME server's answer, a certificate that
\* comes due, and no step at all.
Aside ==
    /\ Steady({}) /\ Fresh /\ SameVersions
    /\ UNCHANGED <<bound, raced, worker>>
    /\ UNCHANGED extVars \/ \E a \in AcmeIds : Validate(a)

\* A worker that holds nothing afterwards: between its batches, or restarted.
Vacant(w) ==
    /\ Steady({}) /\ Fresh /\ SameVersions
    /\ UNCHANGED <<bound, raced, extVars>> /\ Others(w)
    /\ worker'[w].jobs = <<>>
    /\ \A c \in worker'[w].due : c \in worker[w].due \/ (c \in DOMAIN certs /\ certs[c].active)

\* A worker that goes on with its job.
Onward(w) ==
    /\ UNCHANGED <<orders, certs, bound, raced>> /\ Others(w)
    /\ worker'[w].jobs = worker[w].jobs /\ worker'[w].due = worker[w].due
    /\ \/ worker[w].pc \in Challenge /\ worker'[w].pc \in Challenge
       \/ worker[w].pc \in Issuance /\ worker'[w].pc \in Issuance
    /\ Prepare(w) \/ Present(w) \/ Acknowledge(w) \/ Finalize(w) \/ Cleanup(w) \/ ReadVersion(w)

Saved(w) ==
    /\ UNCHANGED <<certs, bound, raced, extVars>> /\ Others(w)
    /\ worker'[w].jobs = worker[w].jobs /\ worker'[w].due = worker[w].due
    /\ worker[w].pc = "payload" /\ worker'[w].pc = "presented"
    /\ TheJob(w).order \in DOMAIN orders /\ Only(TheJob(w).order)
    /\ orders'[TheJob(w).order].status = orders[TheJob(w).order].status
    /\ orders'[TheJob(w).order].payload = worker[w].acme

\* A worker that ends its job: the challenge, a failed issuance, an issued order.
Ended(w) ==
    /\ UNCHANGED <<raced, extVars>> /\ Others(w)
    /\ worker'[w].jobs = Tail(worker[w].jobs) /\ worker'[w].due = {}
    /\ TheJob(w).order \in DOMAIN orders /\ Only(TheJob(w).order)
    /\ orders'[TheJob(w).order].payload = orders[TheJob(w).order].payload
    /\ \/ /\ worker[w].pc \in Challenge /\ worker'[w].pc \in {"prepare", "ready"}
          /\ UNCHANGED <<certs, bound>>
          /\ \/ /\ orders'[TheJob(w).order].status = "dns_challenge_presented"
                /\ TheOrder(w).kind = "renew" => ~RenewalActive(TheOrder(w).cert, TheJob(w).order)
             \/ orders'[TheJob(w).order].status = "dns_challenge_failed"
       \/ /\ worker[w].pc = "issue_failed" /\ worker'[w].pc \in {"finalize", "select"}
          /\ UNCHANGED <<certs, bound>>
          /\ orders'[TheJob(w).order].status = "issue_failed"
       \/ /\ worker[w].pc = "commit" /\ worker'[w].pc \in {"finalize", "select"}
          /\ Len(Versions(TheOrder(w).cert)) < worker[w].version
          /\ Stored(w, TheJob(w).order, TheOrder(w).cert, worker[w].version)

\* A worker that claims a batch.
Took(w) ==
    /\ UNCHANGED <<certs, bound, raced, extVars>>
    /\ worker[w].pc \notin Challenge \cup Issuance
    /\ \E jobs \in Seq(Job) :
         \/ Claimed(w, "pending_dns_challenge", "dns_challenge_presenting", "prepare", "ready", jobs)
         \/ Claimed(w, "dns_challenge_presented", "issuing", "finalize", "select", jobs)

Requeued(o) ==
    /\ UNCHANGED <<certs, bound, worker, extVars>>
    /\ o \in DOMAIN orders /\ Only(o)
    /\ orders'[o].status = "pending_dns_challenge" /\ orders'[o].payload = NoAcme
    /\ orders[o].kind = "renew" => ~RenewalActive(orders[o].cert, o)
    /\ raced \subseteq raced' /\ raced' \subseteq raced \cup {o}
    /\ o \notin raced' => /\ \A w \in Workers : o \notin Mine(w)
                          /\ orders[o].status # "issued"

Acts(w) == Vacant(w) \/ Onward(w) \/ Saved(w) \/ Ended(w) \/ Took(w)

\* Rows and certificates that stay as they are.
LEMMA Still ==
    /\ UNCHANGED orders => Steady({}) /\ Fresh
    /\ UNCHANGED certs => SameVersions
  BY DEF Steady, Fresh, SameVersions, Versions

LEMMA RequestActs ==
    ASSUME TypeInv, NEW a \in Admins, Request(a)
    PROVE  Aside \/ \E o \in DOMAIN orders : Requeued(o)
  <1>1. ASSUME UNCHANGED <<orders, certs, bound, raced>>, OutsideHub PROVE Aside
    BY <1>1, Still DEF Aside, OutsideHub
  <1>2. ASSUME IssueOrder(a) PROVE Aside
    <2>1. /\ UNCHANGED <<bound, raced>> /\ OutsideHub
      BY <1>2 DEF IssueOrder
    <2>2. PICK c \in DOMAIN certs' :
            /\ CertsKept /\ \A d \in DOMAIN certs : certs'[d] = certs[d]
            /\ \A d \in DOMAIN certs' \ DOMAIN certs : certs'[d].versions = <<>> /\ ~certs'[d].active
            /\ \/ UNCHANGED orders
               \/ /\ Len(orders) < MaxOrders
                  /\ NewOrder(req[a].op, req[a].site, c, req[a].zone) \in Order
                  /\ orders' = Append(orders, NewOrder(req[a].op, req[a].site, c, req[a].zone))
      BY <1>2, IssueFacts
    <2>3. SameVersions
      BY <2>2 DEF SameVersions, Versions
    <2>4. Steady({}) /\ Fresh
      <3>1. CASE UNCHANGED orders
        BY <3>1, Still
      <3>2. CASE ~UNCHANGED orders
        <4>1. PICK n : n = NewOrder(req[a].op, req[a].site, c, req[a].zone)
          OBVIOUS
        <4>2. n.status = "pending_dns_challenge" /\ n.payload = NoAcme
          BY <4>1 DEF NewOrder
        <4>3. /\ DOMAIN orders' = DOMAIN orders \cup {Len(orders) + 1}
              /\ orders'[Len(orders) + 1] = n /\ \A i \in DOMAIN orders : orders'[i] = orders[i]
          BY <2>2, <3>2, <4>1, RowInserted
        <4> QED BY <4>2, <4>3 DEF Steady, Fresh
      <3> QED BY <3>1, <3>2
    <2> QED BY <2>1, <2>3, <2>4 DEF Aside, OutsideHub
  <1>3. ASSUME DeleteZone(a) \/ DeleteProvider(a) PROVE Aside
    <2>1. /\ UNCHANGED <<certs, bound, raced>> /\ OutsideHub
          /\ \E there \in BOOLEAN : DropZone(there)
      BY <1>3 DEF DeleteZone, DeleteProvider
    <2>2. /\ DOMAIN orders' = DOMAIN orders
          /\ \A o \in DOMAIN orders : /\ orders'[o].status = orders[o].status
                                      /\ orders'[o].payload = orders[o].payload
                                      /\ orders'[o].warned = orders[o].warned
      BY <2>1, DropFacts
    <2>3. Steady({}) /\ Fresh
      BY <2>2 DEF Steady, Fresh
    <2> QED BY <2>1, <2>3, Still DEF Aside, OutsideHub
  <1>4. ASSUME RequeueOrder(a) PROVE Aside \/ \E o \in DOMAIN orders : Requeued(o)
    <2>1. UNCHANGED <<certs, bound, worker, extVars>>
      BY <1>4 DEF RequeueOrder
    <2>2. PICK o : o = req[a].order
      OBVIOUS
    <2>3. /\ o \in DOMAIN orders /\ Only(o)
          /\ \/ UNCHANGED <<orders, stranded, raced>>
             \/ /\ orders'[o].status = "pending_dns_challenge" /\ orders'[o].payload = NoAcme
                /\ orders[o].kind = "renew" => ~RenewalActive(orders[o].cert, o)
                /\ raced \subseteq raced' /\ raced' \subseteq raced \cup {o}
                /\ o \notin raced' => /\ \A w \in Workers : o \notin Mine(w)
                                      /\ orders[o].status # "issued"
      BY <1>4, <2>2, RequeueFacts
    <2>4. CASE UNCHANGED <<orders, stranded, raced>>
      BY <2>1, <2>4, Still DEF Aside
    <2>5. CASE ~UNCHANGED <<orders, stranded, raced>>
      BY <2>1, <2>3, <2>5 DEF Requeued
    <2> QED BY <2>4, <2>5
  <1>5. CASE \/ \E s \in Sites \cup {NoSite} : CreateOrder(a, s)
             \/ \E s \in Sites : RenewSite(a, s)
             \/ CheckRenewal(a)
    BY <1>1, <1>5 DEF CreateOrder, RenewSite, CheckRenewal, dbVars
  <1>6. CASE \/ \E o \in OrderIds : RetryOrder(a, o) \/ ResetOrder(a, o)
             \/ \E usable \in BOOLEAN : SaveProvider(a, usable)
             \/ SyncZone(a) \/ SaveZone(a)
    BY <1>1, <1>6 DEF RetryOrder, ResetOrder, ReadOrder, SaveProvider, SyncZone, SaveZone, dbVars
  <1>7. CASE \/ \E enable \in BOOLEAN : ReadZone(a, enable)
             \/ CheckZone(a) \/ CheckProvider(a)
    BY <1>1, <1>7 DEF ReadZone, CheckZone, CheckProvider, dbVars
  <1> QED BY <1>2, <1>3, <1>4, <1>5, <1>6, <1>7 DEF Request

\* A worker that exits.
LEMMA ExitActs ==
    ASSUME TypeInv, NEW w \in Workers, Exit(w), OutsideWorker,
           UNCHANGED <<orders, certs, bound, extVars>>
    PROVE  Vacant(w)
  <1>1. worker'[w] = Idle /\ \A v \in Workers \ {w} : worker'[v] = worker[v]
    BY ExitFacts DEF TypeInv
  <1>2. worker'[w].jobs = <<>> /\ worker'[w].due = {}
    BY <1>1 DEF Idle
  <1> QED BY <1>1, <1>2, Still DEF Vacant, Others, OutsideWorker

LEMMA SelectActs ==
    ASSUME TypeInv, NEW w \in Workers, SelectDue(w)
    PROVE  Vacant(w)
  <1>1. OutsideWorker /\ UNCHANGED <<orders, certs, bound, extVars>>
    BY DEF SelectDue
  <1>2. PICK d \in SUBSET {c \in DOMAIN certs : certs[c].active} :
               Go(w, IF d = {} \/ ~zone.active
                        THEN [Idle EXCEPT !.pc = "pending"]
                        ELSE [Idle EXCEPT !.pc = "insert", !.due = d, !.zone = zone.id])
    BY DEF SelectDue
  <1>3. TypeOK /\ zone.id \in Ids \cup {Null} /\ d \subseteq CertIds
    BY Rows DEF TypeInv, TypeOK
  <1>4. PICK r : r = IF d = {} \/ ~zone.active
                        THEN [Idle EXCEPT !.pc = "pending"]
                        ELSE [Idle EXCEPT !.pc = "insert", !.due = d, !.zone = zone.id]
    OBVIOUS
  <1>5. r \in WorkerState /\ r.jobs = <<>> /\ r.due \subseteq d
    BY <1>3, <1>4, IdleType DEF Idle, WorkerState, PCs
  <1>6. Go(w, r)
    BY <1>2, <1>4
  <1>7. worker'[w] = r /\ \A v \in Workers \ {w} : worker'[v] = worker[v]
    BY <1>3, <1>5, <1>6, GoFacts
  <1> QED BY <1>1, <1>5, <1>7, Still DEF Vacant, Others, OutsideWorker

LEMMA InsertActs ==
    ASSUME TypeInv, NEW w \in Workers, InsertRenewal(w)
    PROVE  Vacant(w)
  <1>1. OutsideWorker /\ UNCHANGED <<certs, bound, extVars>> /\ worker[w].pc = "insert"
    BY DEF InsertRenewal, At
  <1>2. CASE Exit(w) /\ UNCHANGED orders
    BY <1>1, <1>2, ExitActs
  <1>3. ASSUME NEW c \in worker[w].due,
               \/ UNCHANGED orders
               \/ /\ ~RenewalActive(c, NoOrder) /\ Len(orders) < MaxOrders
                  /\ orders' = Append(orders, NewOrder("renew", NoSite, c, zone.id)),
               NEW r \in WorkerState, Go(w, r), r.jobs = <<>>, r.due \subseteq worker[w].due
        PROVE  Vacant(w)
    <2>1. TypeOK /\ c \in CertIds /\ zone.id \in Ids \cup {Null}
      BY <1>3, Rows, WorkerFields DEF TypeInv, TypeOK
    <2>2. worker'[w] = r /\ \A v \in Workers \ {w} : worker'[v] = worker[v]
      BY <1>3, <2>1, GoFacts
    <2>3. Steady({}) /\ Fresh
      <3>1. CASE UNCHANGED orders
        BY <3>1, Still
      <3>2. CASE ~UNCHANGED orders
        <4>1. PICK n : n = NewOrder("renew", NoSite, c, zone.id)
          OBVIOUS
        <4>2. n \in Order /\ n.status = "pending_dns_challenge" /\ n.payload = NoAcme
          BY <2>1, <4>1, NewOrderType DEF NewOrder
        <4>3. /\ DOMAIN orders' = DOMAIN orders \cup {Len(orders) + 1}
              /\ orders'[Len(orders) + 1] = n /\ \A i \in DOMAIN orders : orders'[i] = orders[i]
          BY <1>3, <3>2, <4>1, <4>2, RowInserted
        <4> QED BY <4>2, <4>3 DEF Steady, Fresh
      <3> QED BY <3>1, <3>2
    <2> QED BY <1>1, <1>3, <2>2, <2>3, Still DEF Vacant, Others, OutsideWorker
  <1> QED BY <1>2, <1>3, InsertFacts

\* The steps that go on with a job, by where they lead.
LEMMA GotoActs ==
    ASSUME TypeInv, NEW w \in Workers, NEW pc \in PCs, Goto(w, pc)
    PROVE  /\ Others(w) /\ worker'[w].jobs = worker[w].jobs /\ worker'[w].pc = pc
           /\ worker'[w].acme = worker[w].acme /\ worker'[w].warned = worker[w].warned
           /\ worker'[w].due = worker[w].due
  BY GotoFacts DEF TypeInv, Others

LEMMA LeastNumber ==
    ASSUME NEW S \in SUBSET Nat, S # {}
    PROVE  \E n \in S : \A m \in S : n <= m
  <1>1. PICK n \in S : \A m \in S : ~ (<<m, n>> \in OpToRel(<, Nat))
    BY WFMin, NatLessThanWellFounded
  <1>2. \A m \in S : ~ (m < n)
    BY <1>1 DEF OpToRel
  <1> QED BY <1>2

LEMMA PrepareActs ==
    ASSUME TypeInv, NEW w \in Workers, Prepare(w)
    PROVE  /\ Onward(w) /\ UNCHANGED txt /\ worker[w].pc = "prepare"
           /\ \/ /\ TheJob(w).payload \in AcmeIds /\ UNCHANGED acme
                 /\ worker'[w].pc = "present" /\ worker'[w].acme = TheJob(w).payload
              \/ \E i \in AcmeIds : /\ acme[i] = "none" /\ acme' = [acme EXCEPT ![i] = "new"]
                                    /\ \/ worker'[w].pc = "present" /\ worker'[w].acme = i
                                       \/ worker'[w].pc = "challenge_failed"
              \/ UNCHANGED acme /\ worker'[w].pc = "challenge_failed"
  <1>1. /\ UNCHANGED <<orders, certs, bound, raced, txt>> /\ worker[w].pc = "prepare"
    BY DEF Prepare, At, OutsideWorker
  <1>2. TheJob(w) \in Job /\ worker[w] \in WorkerState
    BY <1>1, JobFacts DEF Challenge
  <1>3. PICK i : i = CHOOSE n \in 1..MaxAcme + 1 :
                       /\ n \in AcmeIds => acme[n] = "none"
                       /\ \A m \in 1..n - 1 : acme[m] # "none"
    OBVIOUS
  <1>4. i \in 1..MaxAcme + 1 /\ (i \in AcmeIds => acme[i] = "none")
    <2> DEFINE P(n) == n \in AcmeIds => acme[n] = "none"
               S == {n \in 1..MaxAcme + 1 : P(n)}
    <2>1. MaxAcme + 1 \in S /\ S \subseteq Nat
      BY Constants DEF AcmeIds
    <2>2. S \in SUBSET Nat /\ S # {}
      BY <2>1
    <2>3. PICK n \in S : \A m \in S : n <= m
      <3> HIDE DEF S
      <3> QED BY <2>2, LeastNumber
    <2>4. \A m \in 1..n - 1 : acme[m] # "none"
      <3>1. ASSUME NEW m \in 1..n - 1, acme[m] = "none" PROVE FALSE
        <4>1. m \in S /\ m < n
          BY <2>1, <3>1, Constants
        <4> QED BY <2>1, <2>3, <4>1
      <3> QED BY <3>1
    <2> QED BY <1>3, <2>3, <2>4
  <1>5. \/ /\ TheJob(w).payload # NoAcme
           /\ Go(w, [worker[w] EXCEPT !.pc = "present", !.acme = TheJob(w).payload])
           /\ UNCHANGED acme
        \/ /\ i \in AcmeIds /\ acme' = [acme EXCEPT ![i] = "new"]
           /\ \/ Go(w, [worker[w] EXCEPT !.pc = "present", !.acme = i])
              \/ Goto(w, "challenge_failed")
        \/ Goto(w, "challenge_failed") /\ UNCHANGED acme
    BY <1>3 DEF Prepare
  <1>6. ASSUME NEW p \in AcmeIds, Go(w, [worker[w] EXCEPT !.pc = "present", !.acme = p])
        PROVE  /\ Others(w) /\ worker'[w].jobs = worker[w].jobs /\ worker'[w].pc = "present"
               /\ worker'[w].acme = p /\ worker'[w].due = worker[w].due
    <2>1. PICK r : r = [worker[w] EXCEPT !.pc = "present", !.acme = p]
      OBVIOUS
    <2>2. r \in WorkerState /\ r.jobs = worker[w].jobs /\ r.pc = "present" /\ r.acme = p
          /\ r.due = worker[w].due
      BY <1>2, <2>1 DEF WorkerState, PCs
    <2> QED BY <1>6, <2>1, <2>2, GoFacts DEF TypeInv, Others
  <1>7. ASSUME Goto(w, "challenge_failed")
        PROVE  /\ Others(w) /\ worker'[w].jobs = worker[w].jobs
               /\ worker'[w].pc = "challenge_failed" /\ worker'[w].due = worker[w].due
    BY <1>7, GotoActs DEF PCs
  <1>8. TheJob(w).payload # NoAcme => TheJob(w).payload \in AcmeIds
    BY <1>2 DEF Job
  <1>9. /\ Others(w) /\ worker'[w].jobs = worker[w].jobs
        /\ worker'[w].pc \in {"present", "challenge_failed"} /\ worker'[w].due = worker[w].due
    BY <1>5, <1>6, <1>7, <1>8
  <1>10. Onward(w)
    BY <1>1, <1>9 DEF Onward, Challenge
  <1>11. \/ /\ TheJob(w).payload \in AcmeIds /\ UNCHANGED acme
            /\ worker'[w].pc = "present" /\ worker'[w].acme = TheJob(w).payload
         \/ \E n \in AcmeIds : /\ acme[n] = "none" /\ acme' = [acme EXCEPT ![n] = "new"]
                               /\ \/ worker'[w].pc = "present" /\ worker'[w].acme = n
                                  \/ worker'[w].pc = "challenge_failed"
         \/ UNCHANGED acme /\ worker'[w].pc = "challenge_failed"
    BY <1>4, <1>5, <1>6, <1>7, <1>8
  <1> QED BY <1>1, <1>9, <1>10, <1>11

LEMMA PresentActs ==
    ASSUME TypeInv, NEW w \in Workers, Present(w)
    PROVE  /\ Onward(w) /\ UNCHANGED acme /\ worker[w].pc = "present"
           /\ worker[w].acme \in AcmeIds /\ worker'[w].acme = worker[w].acme
           /\ \/ /\ txt' = txt \cup {worker[w].acme}
                 /\ worker'[w].pc \in {"acknowledge", "challenge_failed"}
              \/ UNCHANGED txt /\ worker'[w].pc = "challenge_failed"
  <1>1. /\ UNCHANGED <<orders, certs, bound, raced, acme>> /\ worker[w].pc = "present"
        /\ worker[w].acme \in AcmeIds
    BY DEF Present, At, OutsideWorker, TypeInv, WorkerSound
  <1>2. \/ /\ txt' = txt \cup {worker[w].acme}
           /\ Goto(w, "acknowledge") \/ Goto(w, "challenge_failed")
        \/ UNCHANGED txt /\ Goto(w, "challenge_failed")
    BY DEF Present, CreateRecord
  <1>3. "acknowledge" \in PCs /\ "challenge_failed" \in PCs
    BY DEF PCs
  <1>4. /\ Others(w) /\ worker'[w].jobs = worker[w].jobs /\ worker'[w].due = worker[w].due
        /\ worker'[w].acme = worker[w].acme
        /\ \/ /\ txt' = txt \cup {worker[w].acme}
              /\ worker'[w].pc \in {"acknowledge", "challenge_failed"}
           \/ UNCHANGED txt /\ worker'[w].pc = "challenge_failed"
    BY <1>2, <1>3, GotoActs
  <1>5. Onward(w)
    BY <1>1, <1>4 DEF Onward, Challenge
  <1> QED BY <1>1, <1>4, <1>5

LEMMA AcknowledgeActs ==
    ASSUME TypeInv, NEW w \in Workers, Acknowledge(w)
    PROVE  /\ Onward(w) /\ UNCHANGED txt /\ worker[w].pc = "acknowledge"
           /\ worker[w].acme \in AcmeIds /\ worker'[w].acme = worker[w].acme
           /\ acme' = [acme EXCEPT ![worker[w].acme] = IF @ = "new" THEN "acknowledged" ELSE @]
           /\ worker'[w].pc \in {"payload", "challenge_failed"}
  <1>1. /\ UNCHANGED <<orders, certs, bound, raced, txt>> /\ worker[w].pc = "acknowledge"
        /\ worker[w].acme \in AcmeIds
        /\ acme' = [acme EXCEPT ![worker[w].acme] = IF @ = "new" THEN "acknowledged" ELSE @]
    BY DEF Acknowledge, At, OutsideWorker, TypeInv, WorkerSound
  <1>2. Goto(w, "payload") \/ Goto(w, "challenge_failed")
    BY DEF Acknowledge
  <1>3. "payload" \in PCs /\ "challenge_failed" \in PCs
    BY DEF PCs
  <1>4. /\ Others(w) /\ worker'[w].jobs = worker[w].jobs /\ worker'[w].due = worker[w].due
        /\ worker'[w].acme = worker[w].acme /\ worker'[w].pc \in {"payload", "challenge_failed"}
    BY <1>2, <1>3, GotoActs
  <1>5. Onward(w)
    BY <1>1, <1>4 DEF Onward, Challenge
  <1> QED BY <1>1, <1>4, <1>5

LEMMA FinalizeActs ==
    ASSUME TypeInv, NEW w \in Workers, Finalize(w)
    PROVE  /\ Onward(w) /\ UNCHANGED txt /\ worker[w].pc = "finalize"
           /\ \/ /\ TheJob(w).payload \in AcmeIds /\ acme[TheJob(w).payload] = "valid"
                 /\ acme' = [acme EXCEPT ![TheJob(w).payload] = "finalized"]
                 /\ worker'[w].pc \in {"cleanup", "issue_failed"}
              \/ UNCHANGED acme /\ worker'[w].pc = "issue_failed"
  <1>1. /\ UNCHANGED <<orders, certs, bound, raced, txt>> /\ worker[w].pc = "finalize"
    BY DEF Finalize, At, OutsideWorker
  <1>2. TheJob(w) \in Job
    BY <1>1, JobFacts DEF Issuance
  <1>3. \/ /\ TheJob(w).payload \in AcmeIds /\ acme[TheJob(w).payload] = "valid"
           /\ acme' = [acme EXCEPT ![TheJob(w).payload] = "finalized"]
           /\ Goto(w, "cleanup") \/ Goto(w, "issue_failed")
        \/ UNCHANGED acme /\ Goto(w, "issue_failed")
    BY <1>2 DEF Finalize, Authorized, Download, Job
  <1>4. "cleanup" \in PCs /\ "issue_failed" \in PCs
    BY DEF PCs
  <1>5. /\ Others(w) /\ worker'[w].jobs = worker[w].jobs /\ worker'[w].due = worker[w].due
        /\ worker'[w].pc \in {"cleanup", "issue_failed"}
        /\ \/ /\ TheJob(w).payload \in AcmeIds /\ acme[TheJob(w).payload] = "valid"
              /\ acme' = [acme EXCEPT ![TheJob(w).payload] = "finalized"]
           \/ UNCHANGED acme /\ worker'[w].pc = "issue_failed"
    BY <1>3, <1>4, GotoActs
  <1>6. Onward(w)
    BY <1>1, <1>5 DEF Onward, Issuance
  <1> QED BY <1>1, <1>5, <1>6

LEMMA CleanupActs ==
    ASSUME TypeInv, NEW w \in Workers, Cleanup(w)
    PROVE  /\ Onward(w) /\ UNCHANGED acme
           /\ worker[w].pc = "cleanup" /\ worker'[w].pc = "persist"
           /\ TheJob(w).payload \in AcmeIds
           /\ \/ txt' = txt \ {TheJob(w).payload}
              \/ UNCHANGED txt /\ worker'[w].warned
  <1>1. /\ UNCHANGED <<orders, certs, bound, raced, acme>> /\ worker[w].pc = "cleanup"
        /\ TheJob(w).payload \in AcmeIds
    BY DEF Cleanup, At, OutsideWorker, TypeInv, WorkerSound
  <1>2. worker[w] \in WorkerState
    BY DEF TypeInv, TypeOK
  <1>3. ASSUME Go(w, [worker[w] EXCEPT !.pc = "persist", !.warned = TRUE])
        PROVE  /\ Others(w) /\ worker'[w].jobs = worker[w].jobs /\ worker'[w].due = worker[w].due
               /\ worker'[w].pc = "persist" /\ worker'[w].warned
    <2>1. PICK r : r = [worker[w] EXCEPT !.pc = "persist", !.warned = TRUE]
      OBVIOUS
    <2>2. r \in WorkerState /\ r.jobs = worker[w].jobs /\ r.due = worker[w].due
          /\ r.pc = "persist"
      BY <1>2, <2>1 DEF WorkerState, PCs
    <2>3. r.warned
      BY <1>2, <2>1, Zenon DEF WorkerState
    <2>4. worker'[w] = r /\ Others(w)
      BY <1>3, <2>1, <2>2, GoFacts DEF TypeInv, Others
    <2> QED BY <2>2, <2>3, <2>4, Zenon
  <1>4. ASSUME Goto(w, "persist")
        PROVE  /\ Others(w) /\ worker'[w].jobs = worker[w].jobs /\ worker'[w].due = worker[w].due
               /\ worker'[w].pc = "persist"
    BY <1>4, GotoActs DEF PCs
  <1>5. \/ txt' = txt \ {TheJob(w).payload} /\ Goto(w, "persist")
        \/ /\ txt' = txt \ {TheJob(w).payload} \/ UNCHANGED txt
           /\ Go(w, [worker[w] EXCEPT !.pc = "persist", !.warned = TRUE])
    BY DEF Cleanup, DeleteRecord
  <1>6. /\ Others(w) /\ worker'[w].jobs = worker[w].jobs /\ worker'[w].due = worker[w].due
        /\ worker'[w].pc = "persist"
    BY <1>3, <1>4, <1>5
  <1>7. txt' = txt \ {TheJob(w).payload} \/ (UNCHANGED txt /\ worker'[w].warned)
    BY <1>3, <1>5, Zenon
  <1>8. Onward(w)
    BY <1>1, <1>6 DEF Onward, Issuance
  <1> QED BY <1>1, <1>6, <1>7, <1>8

LEMMA ReadVersionActs ==
    ASSUME TypeInv, NEW w \in Workers, ReadVersion(w)
    PROVE  /\ Onward(w) /\ UNCHANGED extVars
           /\ worker[w].pc = "persist" /\ worker'[w].pc = "commit"
           /\ worker'[w].warned = worker[w].warned
           /\ worker'[w].version = Len(Versions(TheOrder(w).cert)) + 1
           /\ worker'[w].targets = Targets(TheOrder(w))
           /\ worker'[w].seen = UNION {bound[s] : s \in Sites}
  <1>1. /\ UNCHANGED <<orders, certs, bound, raced, extVars>> /\ worker[w].pc = "persist"
    BY DEF ReadVersion, At, OutsideWorker
  <1>2. PICK r : r = [worker[w] EXCEPT !.pc = "commit",
                                       !.version = Len(certs[TheOrder(w).cert].versions) + 1,
                                       !.targets = Targets(TheOrder(w)),
                                       !.seen = UNION {bound[s] : s \in Sites}]
    OBVIOUS
  <1>3. Go(w, r) /\ worker[w] \in WorkerState
    BY <1>2 DEF ReadVersion, TypeInv, TypeOK
  <1>4. worker'[w] = r /\ Others(w)
    BY <1>3 DEF Go, TypeInv, TypeOK, Others
  <1>5. /\ r.pc = "commit" /\ r.jobs = worker[w].jobs /\ r.due = worker[w].due
        /\ r.version = Len(Versions(TheOrder(w).cert)) + 1
        /\ r.targets = Targets(TheOrder(w)) /\ r.seen = UNION {bound[s] : s \in Sites}
    BY <1>2, <1>3 DEF WorkerState, Versions
  <1>6. r.warned = worker[w].warned
    BY <1>2, <1>3, Zenon DEF WorkerState
  <1>7. Onward(w)
    BY <1>1, <1>4, <1>5 DEF Onward, Issuance
  <1> QED BY <1>1, <1>4, <1>5, <1>6, <1>7, Zenon

LEMMA SavePayloadActs ==
    ASSUME TypeInv, NEW w \in Workers, SavePayload(w)
    PROVE  Saved(w) /\ RowsKept
  <1>1. /\ UNCHANGED <<certs, bound, raced, extVars>>
        /\ worker[w].pc = "payload" /\ Goto(w, "presented")
        /\ orders' = [orders EXCEPT ![TheJob(w).order].payload = worker[w].acme]
        /\ worker[w].acme \in AcmeIds
    BY DEF SavePayload, At, OutsideWorker, TypeInv, WorkerSound
  <1>2. TheJob(w).order \in DOMAIN orders
    BY <1>1, JobFacts DEF Challenge
  <1>3. /\ RowsKept /\ Only(TheJob(w).order)
        /\ orders'[TheJob(w).order].status = orders[TheJob(w).order].status
        /\ orders'[TheJob(w).order].payload = worker[w].acme
    <2>1. PICK o \in DOMAIN orders : o = TheJob(w).order
      BY <1>2
    <2>2. PICK p \in AcmeIds : p = worker[w].acme
      BY <1>1
    <2>3. orders' = [orders EXCEPT ![o].payload = p]
      BY <1>1, <2>1, <2>2
    <2>4. /\ RowsKept /\ Only(o)
          /\ orders'[o].status = orders[o].status /\ orders'[o].payload = p
      BY <2>3, PayloadSet
    <2> QED BY <2>1, <2>2, <2>4
  <1>4. /\ Others(w) /\ worker'[w].jobs = worker[w].jobs /\ worker'[w].due = worker[w].due
        /\ worker'[w].pc = "presented"
    BY <1>1, GotoActs DEF PCs
  <1> QED BY <1>1, <1>2, <1>3, <1>4 DEF Saved

\* A worker that is done with a job.
LEMMA NextActs ==
    ASSUME TypeInv, NEW w \in Workers, worker[w].pc \in Challenge \cup Issuance,
           NEW first \in PCs, NEW next \in PCs, NextJob(w, first, next)
    PROVE  /\ Others(w) /\ worker'[w].jobs = Tail(worker[w].jobs) /\ worker'[w].due = {}
           /\ worker'[w].pc \in {first, next}
  <1>1. TypeOK /\ worker[w].jobs # <<>>
    BY JobFacts DEF TypeInv
  <1>2. /\ \A v \in Workers \ {w} : worker'[v] = worker[v]
        /\ worker'[w].pc = (IF Len(worker[w].jobs) > 1 THEN first ELSE next)
        /\ worker'[w].due = {} /\ worker'[w].jobs = Tail(worker[w].jobs)
    BY <1>1, NextFacts
  <1> QED BY <1>2 DEF Others

LEMMA EndChallengeActs ==
    ASSUME TypeInv, NEW w \in Workers, EndChallenge(w)
    PROVE  (Vacant(w) \/ Ended(w)) /\ RowsKept
  <1>1. /\ OutsideWorker /\ UNCHANGED <<certs, bound, extVars>>
        /\ worker[w].pc \in Challenge
    BY DEF EndChallenge, Challenge
  <1>2. CASE Exit(w) /\ UNCHANGED orders
    BY <1>1, <1>2, ExitActs, SameRows
  <1>3. ASSUME NEW st \in {"dns_challenge_presented", "dns_challenge_failed"},
               st = "dns_challenge_presented" /\ TheOrder(w).kind = "renew"
                 => ~RenewalActive(TheOrder(w).cert, TheJob(w).order),
               SetStatus(TheJob(w).order, st), NextJob(w, "prepare", "ready")
        PROVE  Ended(w) /\ RowsKept
    <2>1. TheJob(w).order \in DOMAIN orders
      BY <1>1, JobFacts
    <2>2. st \in Statuses
      BY DEF Statuses, ActiveStatuses, FailedStatuses
    <2>3. /\ RowsKept /\ Only(TheJob(w).order) /\ orders'[TheJob(w).order].status = st
          /\ orders'[TheJob(w).order].payload = orders[TheJob(w).order].payload
      <3>1. PICK o \in DOMAIN orders : o = TheJob(w).order
        BY <2>1
      <3> QED BY <1>3, <2>2, <3>1, StatusSet
    <2>4. /\ Others(w) /\ worker'[w].jobs = Tail(worker[w].jobs) /\ worker'[w].due = {}
          /\ worker'[w].pc \in {"prepare", "ready"}
      BY <1>1, <1>3, NextActs DEF PCs
    <2> QED BY <1>1, <1>3, <2>1, <2>3, <2>4 DEF Ended, OutsideWorker
  <1>4. \/ Exit(w) /\ UNCHANGED orders
        \/ \E st \in {"dns_challenge_presented", "dns_challenge_failed"} :
             /\ st = "dns_challenge_presented" /\ TheOrder(w).kind = "renew"
                  => ~RenewalActive(TheOrder(w).cert, TheJob(w).order)
             /\ SetStatus(TheJob(w).order, st) /\ NextJob(w, "prepare", "ready")
    <2>1. CASE /\ At(w, "presented")
               /\ TheOrder(w).kind = "renew"
               /\ RenewalActive(TheOrder(w).cert, TheJob(w).order)
      BY <2>1 DEF EndChallenge
    <2>2. CASE ~ /\ At(w, "presented")
                 /\ TheOrder(w).kind = "renew"
                 /\ RenewalActive(TheOrder(w).cert, TheJob(w).order)
      <3>1. CASE At(w, "presented")
        BY <2>2, <3>1 DEF EndChallenge
      <3>2. CASE ~At(w, "presented")
        BY <2>2, <3>2 DEF EndChallenge
      <3> QED BY <3>1, <3>2
    <2> QED BY <2>1, <2>2
  <1> QED BY <1>2, <1>3, <1>4

LEMMA FailIssueActs ==
    ASSUME TypeInv, NEW w \in Workers, FailIssue(w)
    PROVE  Ended(w) /\ RowsKept
  <1>1. /\ OutsideWorker /\ UNCHANGED <<certs, bound, extVars>>
        /\ worker[w].pc = "issue_failed" /\ NextJob(w, "finalize", "select")
        /\ SetStatus(TheJob(w).order, "issue_failed")
    BY DEF FailIssue, At
  <1>2. TheJob(w).order \in DOMAIN orders
    BY <1>1, JobFacts DEF Issuance
  <1>3. /\ RowsKept /\ Only(TheJob(w).order)
        /\ orders'[TheJob(w).order].status = "issue_failed"
        /\ orders'[TheJob(w).order].payload = orders[TheJob(w).order].payload
    <2>1. PICK o \in DOMAIN orders : o = TheJob(w).order
      BY <1>2
    <2> QED BY <1>1, <2>1, StatusSet DEF Statuses, FailedStatuses
  <1>4. /\ Others(w) /\ worker'[w].jobs = Tail(worker[w].jobs) /\ worker'[w].due = {}
        /\ worker'[w].pc \in {"finalize", "select"}
    BY <1>1, NextActs DEF PCs, Issuance
  <1> QED BY <1>1, <1>2, <1>3, <1>4 DEF Ended, OutsideWorker

LEMMA CommitActs ==
    ASSUME TypeInv, NEW w \in Workers, Commit(w)
    PROVE  (Vacant(w) \/ Ended(w)) /\ RowsKept
  <1>1. /\ OutsideWorker /\ UNCHANGED extVars /\ worker[w].pc = "commit"
    BY DEF Commit, At
  <1>2. CASE Exit(w) /\ UNCHANGED <<orders, certs, bound>>
    BY <1>1, <1>2, ExitActs, SameRows
  <1>3. ASSUME NextJob(w, "finalize", "select"),
               Len(Versions(TheOrder(w).cert)) < worker[w].version,
               Stored(w, TheJob(w).order, TheOrder(w).cert, worker[w].version)
        PROVE  Ended(w) /\ RowsKept
    <2>1. TheJob(w).order \in DOMAIN orders
      BY <1>1, JobFacts DEF Issuance
    <2>2. /\ RowsKept /\ Only(TheJob(w).order)
          /\ orders'[TheJob(w).order].payload = orders[TheJob(w).order].payload
      BY <1>3 DEF Stored
    <2>3. /\ Others(w) /\ worker'[w].jobs = Tail(worker[w].jobs) /\ worker'[w].due = {}
          /\ worker'[w].pc \in {"finalize", "select"}
      BY <1>1, <1>3, NextActs DEF PCs, Issuance
    <2> QED BY <1>1, <1>3, <2>1, <2>2, <2>3 DEF Ended, OutsideWorker
  <1> QED BY <1>2, <1>3, CommitFacts

LEMMA ClaimActs ==
    ASSUME TypeInv, NEW w \in Workers, ClaimPending(w) \/ ClaimReady(w)
    PROVE  Took(w) /\ RowsKept
  <1>1. /\ UNCHANGED <<certs, bound, raced, extVars>>
        /\ worker[w].pc \notin Challenge \cup Issuance
    BY DEF ClaimPending, ClaimReady, OutsideWorker, At, Challenge, Issuance
  <1>2. /\ {"dns_challenge_presenting", "issuing"} \subseteq Statuses
        /\ {"prepare", "ready", "finalize", "select"} \subseteq PCs
    BY DEF Statuses, ActiveStatuses, PCs
  <1>3. CASE ClaimPending(w)
    <2>1. Claim(w, "pending_dns_challenge", "dns_challenge_presenting", "prepare", "ready")
      BY <1>3 DEF ClaimPending
    <2> QED BY <1>1, <1>2, <2>1, ClaimFacts DEF Took
  <1>4. CASE ClaimReady(w)
    <2>1. Claim(w, "dns_challenge_presented", "issuing", "finalize", "select")
      BY <1>4 DEF ClaimReady
    <2> QED BY <1>1, <1>2, <2>1, ClaimFacts DEF Took
  <1> QED BY <1>3, <1>4

LEMMA WorkerActs ==
    ASSUME TypeInv, NEW w \in Workers, WorkerStep(w) \/ Crash(w)
    PROVE  Acts(w)
  <1>1. ASSUME Crash(w) PROVE Vacant(w)
    BY <1>1, ExitActs DEF Crash
  <1> QED BY <1>1, SelectActs, InsertActs, ClaimActs, PrepareActs, PresentActs,
             AcknowledgeActs, SavePayloadActs, EndChallengeActs, FinalizeActs, CleanupActs,
             ReadVersionActs, CommitActs, FailIssueActs DEF WorkerStep, Acts

LEMMA StepActs ==
    ASSUME TypeInv, [Next]_vars
    PROVE  Aside \/ (\E o \in DOMAIN orders : Requeued(o)) \/ (\E w \in Workers : Acts(w))
  <1>1. CASE \E a \in AcmeIds : Validate(a)
    BY <1>1, Still DEF Aside, Validate, dbVars, history
  <1>2. CASE UNCHANGED vars
    BY <1>2, Still DEF Aside, vars, dbVars, history
  <1>3. ASSUME NEW c \in CertIds, ComesDue(c) PROVE Aside
    <2>1. /\ UNCHANGED <<orders, bound, worker, extVars, raced>>
          /\ c \in DOMAIN certs /\ certs' = [certs EXCEPT ![c].due = TRUE]
      BY <1>3 DEF ComesDue, history
    <2>2. SameVersions
      <3>1. certs[c] \in Cert
        BY <2>1, Rows DEF TypeInv
      <3>2. [certs[c] EXCEPT !.due = TRUE].versions = certs[c].versions
        BY <3>1 DEF Cert
      <3> QED BY <2>1, <3>2 DEF SameVersions, Versions
    <2> QED BY <2>1, <2>2, Still DEF Aside
  <1> QED BY <1>1, <1>2, <1>3, RequestActs, WorkerActs DEF Next

\* Every step keeps the rows and what they are for.
LEMMA StepKeeps ==
    ASSUME TypeInv, [Next]_vars
    PROVE  RowsKept /\ CertsKept
  <1>1. ASSUME UNCHANGED <<orders, certs>> PROVE RowsKept /\ CertsKept
    BY <1>1, SameRows
  <1>2. ASSUME NEW a \in Admins, Request(a) PROVE RowsKept /\ CertsKept
    <2>1. ASSUME IssueOrder(a) PROVE RowsKept /\ CertsKept
      <3>1. PICK c \in DOMAIN certs' :
              /\ CertsKept
              /\ \/ UNCHANGED orders
                 \/ /\ Len(orders) < MaxOrders
                    /\ NewOrder(req[a].op, req[a].site, c, req[a].zone) \in Order
                    /\ orders' = Append(orders, NewOrder(req[a].op, req[a].site, c, req[a].zone))
        BY <2>1, IssueFacts
      <3>2. CASE UNCHANGED orders
        BY <3>1, <3>2, SameRows
      <3>3. CASE ~UNCHANGED orders
        BY <3>1, <3>3, RowInserted
      <3> QED BY <3>2, <3>3
    <2>2. ASSUME DeleteZone(a) \/ DeleteProvider(a) PROVE RowsKept /\ CertsKept
      <3>1. UNCHANGED certs /\ \E there \in BOOLEAN : DropZone(there)
        BY <2>2 DEF DeleteZone, DeleteProvider
      <3> QED BY <3>1, DropFacts, SameRows
    <2>3. ASSUME RequeueOrder(a) PROVE RowsKept /\ CertsKept
      BY <2>3, RequeueFacts, SameRows DEF RequeueOrder
    <2>4. CASE \/ \E s \in Sites \cup {NoSite} : CreateOrder(a, s)
               \/ \E s \in Sites : RenewSite(a, s)
               \/ CheckRenewal(a)
      BY <1>1, <2>4 DEF CreateOrder, RenewSite, CheckRenewal, dbVars
    <2>5. CASE \/ \E o \in OrderIds : RetryOrder(a, o) \/ ResetOrder(a, o)
               \/ \E usable \in BOOLEAN : SaveProvider(a, usable)
               \/ SyncZone(a) \/ SaveZone(a)
      BY <1>1, <2>5 DEF RetryOrder, ResetOrder, ReadOrder, SaveProvider, SyncZone, SaveZone, dbVars
    <2>6. CASE \/ \E enable \in BOOLEAN : ReadZone(a, enable)
               \/ CheckZone(a) \/ CheckProvider(a)
      BY <1>1, <2>6 DEF ReadZone, CheckZone, CheckProvider, dbVars
    <2> QED BY <1>2, <2>1, <2>2, <2>3, <2>4, <2>5, <2>6 DEF Request
  <1>3. ASSUME NEW w \in Workers, WorkerStep(w) \/ Crash(w) PROVE RowsKept /\ CertsKept
    <2>1. CASE \/ SelectDue(w) \/ Prepare(w) \/ Present(w) \/ Acknowledge(w) \/ Finalize(w)
               \/ Cleanup(w) \/ ReadVersion(w) \/ Crash(w)
      BY <1>1, <2>1 DEF SelectDue, Prepare, Present, Acknowledge, Finalize, Cleanup, ReadVersion,
                        Crash
    <2>2. ASSUME InsertRenewal(w) PROVE RowsKept /\ CertsKept
      <3>1. UNCHANGED certs
        BY <2>2 DEF InsertRenewal
      <3>2. CASE UNCHANGED orders
        BY <1>1, <3>1, <3>2
      <3>3. CASE ~UNCHANGED orders
        <4>1. PICK c \in worker[w].due :
                /\ Len(orders) < MaxOrders
                /\ orders' = Append(orders, NewOrder("renew", NoSite, c, zone.id))
          BY <2>2, <3>3, InsertFacts
        <4>2. c \in CertIds /\ zone.id \in Ids \cup {Null}
          BY WorkerFields DEF TypeInv, TypeOK
        <4>3. NewOrder("renew", NoSite, c, zone.id) \in Order
          BY <4>2, NewOrderType
        <4> QED BY <3>1, <4>1, <4>3, RowInserted, SameRows
      <3> QED BY <3>2, <3>3
    <2>3. CASE ClaimPending(w) \/ ClaimReady(w)
      BY <2>3, ClaimActs, SameRows DEF ClaimPending, ClaimReady
    <2>4. CASE SavePayload(w) \/ EndChallenge(w) \/ FailIssue(w)
      BY <2>4, SavePayloadActs, EndChallengeActs, FailIssueActs, SameRows
         DEF SavePayload, EndChallenge, FailIssue
    <2>5. ASSUME Commit(w) PROVE RowsKept /\ CertsKept
      BY <2>5, CommitActs, CommitFacts, SameRows DEF Stored
    <2> QED BY <1>3, <2>1, <2>2, <2>3, <2>4, <2>5 DEF WorkerStep
  <1>4. CASE (\E a \in AcmeIds : Validate(a)) \/ UNCHANGED vars
    BY <1>1, <1>4 DEF Validate, vars, dbVars
  <1>5. ASSUME NEW c \in CertIds, ComesDue(c) PROVE RowsKept /\ CertsKept
    <2>1. /\ UNCHANGED orders /\ c \in DOMAIN certs /\ certs' = [certs EXCEPT ![c].due = TRUE]
      BY <1>5 DEF ComesDue
    <2>2. TypeInv'
      BY <1>5, TypeStep DEF Next
    <2>3. DOMAIN certs' = DOMAIN certs
      BY <2>1
    <2> QED BY <2>1, <2>2, <2>3, SameRows DEF CertsKept, TypeInv, TypeOK
  <1> QED BY <1>2, <1>3, <1>4, <1>5 DEF Next

-----------------------------------------------------------------------------
(***************************************************************************)
(* OneWorker.  The status of an order marks the batch it is in: a claim    *)
(* takes it only in a status that no batch's orders have, and nobody else  *)
(* writes it meanwhile, except a requeue, which then counts as a race.     *)
(***************************************************************************)

Marked(w) == IF worker[w].pc \in Challenge THEN "dns_challenge_presenting" ELSE "issuing"

Distinct(w) ==
    \A i, j \in DOMAIN worker[w].jobs :
      worker[w].jobs[i].order = worker[w].jobs[j].order => i = j

Holds(w) ==
    \A j \in DOMAIN worker[w].jobs :
      worker[w].jobs[j].order \notin raced =>
        /\ orders[worker[w].jobs[j].order].status = Marked(w)
        /\ \A v \in Workers \ {w} : worker[w].jobs[j].order \notin Mine(v)
        /\ worker[w].pc \in Issuance =>
             worker[w].jobs[j].payload = orders[worker[w].jobs[j].order].payload

HeldInv == \A w \in Workers : Distinct(w) /\ Holds(w)

\* A batch that is left, kept or shortened, in the same phase.
Moves(v) ==
    /\ \E d \in Nat : \A j \in DOMAIN worker'[v].jobs :
         j + d \in DOMAIN worker[v].jobs /\ worker'[v].jobs[j] = worker[v].jobs[j + d]
    /\ worker'[v].jobs # <<>> => (worker'[v].pc \in Challenge <=> worker[v].pc \in Challenge)

\* The jobs of a worker, and the phases.
Batches ==
    \A w \in Workers :
      /\ worker[w].jobs \in Seq(Job) /\ DOMAIN worker[w].jobs \subseteq Nat
      /\ \A j \in DOMAIN worker[w].jobs :
           /\ worker[w].jobs # <<>> /\ worker[w].jobs[j] \in Job
           /\ worker[w].jobs[j].order \in Mine(w) /\ worker[w].jobs[j].order \in DOMAIN orders
           /\ worker[w].pc \in Challenge \/ worker[w].pc \in Issuance
      /\ worker[w].jobs = <<>> => Mine(w) = {}
      /\ ~(worker[w].pc \in Challenge /\ worker[w].pc \in Issuance)

LEMMA BatchesSound == TypeInv => Batches
  <1> SUFFICES ASSUME TypeInv PROVE Batches
    OBVIOUS
  <1>1. ASSUME NEW w \in Workers
        PROVE
           /\ worker[w].jobs \in Seq(Job) /\ DOMAIN worker[w].jobs \subseteq Nat
           /\ \A j \in DOMAIN worker[w].jobs :
                /\ worker[w].jobs # <<>> /\ worker[w].jobs[j] \in Job
                /\ worker[w].jobs[j].order \in Mine(w) /\ worker[w].jobs[j].order \in DOMAIN orders
                /\ worker[w].pc \in Challenge \/ worker[w].pc \in Issuance
           /\ worker[w].jobs = <<>> => Mine(w) = {}
           /\ ~(worker[w].pc \in Challenge /\ worker[w].pc \in Issuance)
    <2>1. worker[w].jobs \in Seq(Job) /\ WorkerSound(w)
      BY WorkerFields DEF TypeInv, TypeOK
    <2>2. DOMAIN worker[w].jobs = 1..Len(worker[w].jobs) /\ Len(worker[w].jobs) \in Nat
          /\ (worker[w].jobs # <<>> <=> Len(worker[w].jobs) > 0)
          /\ \A j \in DOMAIN worker[w].jobs : worker[w].jobs[j] \in Job
      BY <2>1, JobsOf
    <2>3. ~(worker[w].pc \in Challenge /\ worker[w].pc \in Issuance)
      BY DEF Challenge, Issuance
    <2>4. ASSUME NEW j \in DOMAIN worker[w].jobs
          PROVE  /\ worker[w].jobs # <<>> /\ worker[w].jobs[j] \in Job
                 /\ worker[w].jobs[j].order \in Mine(w) /\ worker[w].jobs[j].order \in DOMAIN orders
                 /\ worker[w].pc \in Challenge \/ worker[w].pc \in Issuance
      BY <2>1, <2>2 DEF WorkerSound, Mine
    <2>5. worker[w].jobs = <<>> => Mine(w) = {}
      BY <2>2 DEF Mine
    <2> QED BY <2>1, <2>2, <2>3, <2>4, <2>5
  <1> QED BY <1>1 DEF Batches

LEMMA BatchNow ==
    TypeInv => \A w \in Workers :
           /\ worker[w].jobs \in Seq(Job) /\ DOMAIN worker[w].jobs \subseteq Nat
           /\ \A j \in DOMAIN worker[w].jobs :
                /\ worker[w].jobs # <<>> /\ worker[w].jobs[j] \in Job
                /\ worker[w].jobs[j].order \in Mine(w) /\ worker[w].jobs[j].order \in DOMAIN orders
                /\ worker[w].pc \in Challenge \/ worker[w].pc \in Issuance
           /\ worker[w].jobs = <<>> => Mine(w) = {}
           /\ ~(worker[w].pc \in Challenge /\ worker[w].pc \in Issuance)
  BY BatchesSound DEF Batches

LEMMA BatchNext ==
    TypeInv' => \A w \in Workers :
           /\ worker'[w].jobs \in Seq(Job) /\ DOMAIN worker'[w].jobs \subseteq Nat
           /\ \A j \in DOMAIN worker'[w].jobs :
                /\ worker'[w].jobs # <<>> /\ worker'[w].jobs[j] \in Job
                /\ worker'[w].jobs[j].order \in Mine(w)' /\ worker'[w].jobs[j].order \in DOMAIN orders'
                /\ worker'[w].pc \in Challenge \/ worker'[w].pc \in Issuance
           /\ worker'[w].jobs = <<>> => Mine(w)' = {}
           /\ ~(worker'[w].pc \in Challenge /\ worker'[w].pc \in Issuance)
  <1>1. TypeInv' => Batches'
    BY BatchesSound, PTL
  <1> QED BY <1>1 DEF Batches

LEMMA HeldKept ==
    ASSUME TypeInv, TypeInv', HeldInv, raced \subseteq raced',
           \A v \in Workers : Moves(v),
           \A v \in Workers : \A o \in Mine(v)' \ raced' :
             /\ orders'[o].status = orders[o].status
             /\ worker'[v].pc \in Issuance => orders'[o].payload = orders[o].payload
    PROVE  HeldInv'
  <1>1. ASSUME NEW v \in Workers PROVE Mine(v)' \subseteq Mine(v)
    BY DEF Moves, Mine
  <1>2. ASSUME NEW w \in Workers PROVE Distinct(w)' /\ Holds(w)'
    <2>1. PICK d \in Nat : \A j \in DOMAIN worker'[w].jobs :
                j + d \in DOMAIN worker[w].jobs /\ worker'[w].jobs[j] = worker[w].jobs[j + d]
      BY DEF Moves
    <2>2. Distinct(w) /\ Holds(w)
      BY DEF HeldInv
    <2>3. Distinct(w)'
      <3>1. ASSUME NEW i \in DOMAIN worker'[w].jobs, NEW j \in DOMAIN worker'[w].jobs,
                   worker'[w].jobs[i].order = worker'[w].jobs[j].order
            PROVE  i = j
        <4>1. i + d = j + d
          BY <2>1, <2>2, <3>1 DEF Distinct
        <4>2. i \in Nat /\ j \in Nat
          BY BatchNext
        <4> QED BY <4>1, <4>2
      <3> QED BY <3>1 DEF Distinct
    <2>4. ASSUME NEW j \in DOMAIN worker'[w].jobs, worker'[w].jobs[j].order \notin raced'
          PROVE  /\ orders'[worker'[w].jobs[j].order].status = Marked(w)'
                 /\ \A v \in Workers \ {w} : worker'[w].jobs[j].order \notin Mine(v)'
                 /\ worker'[w].pc \in Issuance =>
                      worker'[w].jobs[j].payload = orders'[worker'[w].jobs[j].order].payload
      <3>1. PICK o : o = worker'[w].jobs[j].order
        OBVIOUS
      <3>2. /\ j + d \in DOMAIN worker[w].jobs /\ worker'[w].jobs[j] = worker[w].jobs[j + d]
            /\ o = worker[w].jobs[j + d].order /\ o \notin raced /\ o \notin raced'
        BY <2>1, <2>4, <3>1
      <3>3. /\ orders[o].status = Marked(w)
            /\ \A v \in Workers \ {w} : o \notin Mine(v)
            /\ worker[w].pc \in Issuance => worker[w].jobs[j + d].payload = orders[o].payload
        BY <2>2, <3>2 DEF Holds
      <3>4. o \in Mine(w)' /\ worker'[w].jobs # <<>>
        BY <3>1, BatchNext
      <3>5. /\ worker'[w].pc \in Challenge <=> worker[w].pc \in Challenge
            /\ worker'[w].pc \in Issuance <=> worker[w].pc \in Issuance
        BY <2>4, <3>2, <3>4, BatchNow, BatchNext DEF Moves
      <3>6. /\ orders'[o].status = orders[o].status
            /\ worker'[w].pc \in Issuance => orders'[o].payload = orders[o].payload
        BY <3>2, <3>4
      <3>7. Marked(w)' = Marked(w)
        BY <3>5 DEF Marked
      <3>8. \A v \in Workers \ {w} : o \notin Mine(v)'
        BY <1>1, <3>3
      <3> QED BY <3>1, <3>2, <3>3, <3>5, <3>6, <3>7, <3>8
    <2> QED BY <2>3, <2>4 DEF Holds
  <1> QED BY <1>2 DEF HeldInv

\* How the batches move in each kind of step.
LEMMA StaysMoves ==
    ASSUME TypeInv, NEW v \in Workers, worker'[v].jobs = worker[v].jobs,
           worker[v].jobs # <<>> => (worker'[v].pc \in Challenge <=> worker[v].pc \in Challenge)
    PROVE  Moves(v)
  <1>1. \A j \in DOMAIN worker'[v].jobs : j + 0 \in DOMAIN worker[v].jobs
                                          /\ worker'[v].jobs[j] = worker[v].jobs[j + 0]
    BY BatchNow
  <1> QED BY <1>1 DEF Moves

LEMMA EmptyMoves ==
    ASSUME NEW v \in Workers, worker'[v].jobs = <<>>
    PROVE  Moves(v)
  <1>1. DOMAIN worker'[v].jobs = {}
    OBVIOUS
  <1> QED BY <1>1 DEF Moves

LEMMA EndedMoves ==
    ASSUME TypeInv, TypeInv', NEW w \in Workers, Ended(w)
    PROVE  /\ Moves(w) /\ 1 \in DOMAIN worker[w].jobs /\ TheJob(w) = worker[w].jobs[1]
           /\ \A j \in DOMAIN worker'[w].jobs :
                /\ j \in Nat /\ j > 0 /\ j + 1 \in DOMAIN worker[w].jobs
                /\ worker'[w].jobs[j] = worker[w].jobs[j + 1]
  <1>1. worker[w].pc \in Challenge \cup Issuance
    BY DEF Ended, Challenge, Issuance
  <1>2. worker[w].jobs \in Seq(Job) /\ worker[w].jobs # <<>>
        /\ 1 \in DOMAIN worker[w].jobs /\ TheJob(w) = worker[w].jobs[1]
    BY <1>1, JobFacts
  <1>3. worker'[w].jobs = Tail(worker[w].jobs)
    BY DEF Ended
  <1>4. \A j \in DOMAIN worker'[w].jobs :
                /\ j \in Nat /\ j > 0 /\ j + 1 \in DOMAIN worker[w].jobs
                /\ worker'[w].jobs[j] = worker[w].jobs[j + 1]
    BY <1>2, <1>3, JobsOf
  <1>5. worker'[w].jobs # <<>> => (worker'[w].pc \in Challenge <=> worker[w].pc \in Challenge)
    <2>1. worker'[w].jobs # <<>> => worker'[w].pc \in Challenge \cup Issuance
      BY DEF TypeInv, WorkerSound
    <2> QED BY <2>1 DEF Ended, Challenge, Issuance
  <1> QED BY <1>2, <1>4, <1>5 DEF Moves

LEMMA HeldStep ==
    ASSUME TypeInv, TypeInv', HeldInv, [Next]_vars
    PROVE  HeldInv'
  <1>1. ASSUME Aside PROVE HeldInv'
    <2>1. UNCHANGED <<worker, raced>> /\ Steady({})
      BY <1>1 DEF Aside
    <2>2. \A v \in Workers : Moves(v)
      BY <2>1, StaysMoves
    <2>3. \A v \in Workers : Mine(v)' = Mine(v) /\ Mine(v) \subseteq DOMAIN orders
      BY <2>1 DEF Mine, TypeInv, WorkerSound
    <2> QED BY <2>1, <2>2, <2>3, HeldKept DEF Steady
  <1>2. ASSUME NEW o \in DOMAIN orders, Requeued(o) PROVE HeldInv'
    <2>1. /\ UNCHANGED worker /\ raced \subseteq raced' /\ Only(o)
          /\ o \notin raced' => \A w \in Workers : o \notin Mine(w)
      BY <1>2 DEF Requeued
    <2>2. \A v \in Workers : Moves(v)
      BY <2>1, StaysMoves
    <2>3. \A v \in Workers : Mine(v)' = Mine(v) /\ Mine(v) \subseteq DOMAIN orders
      BY <2>1 DEF Mine, TypeInv, WorkerSound
    <2> QED BY <2>1, <2>2, <2>3, HeldKept DEF Only
  <1>3. ASSUME NEW w \in Workers, Others(w) PROVE \A v \in Workers \ {w} : Moves(v)
    BY <1>3, StaysMoves DEF Others
  <1>4. ASSUME NEW v \in Workers PROVE Mine(v)' \subseteq DOMAIN orders'
    BY DEF TypeInv, WorkerSound
  <1>5. ASSUME NEW w \in Workers, Vacant(w) PROVE HeldInv'
    <2>1. UNCHANGED raced /\ Steady({}) /\ Others(w) /\ worker'[w].jobs = <<>>
      BY <1>5 DEF Vacant
    <2>2. \A v \in Workers : Moves(v)
      BY <1>3, <2>1, EmptyMoves
    <2>3. \A v \in Workers : Mine(v)' \subseteq DOMAIN orders
      BY <2>1, BatchNext DEF Mine, TypeInv, WorkerSound, Others
    <2> QED BY <2>1, <2>2, <2>3, HeldKept DEF Steady
  <1>6. ASSUME NEW w \in Workers, Onward(w) PROVE HeldInv'
    <2>1. /\ UNCHANGED <<orders, raced>> /\ Others(w) /\ worker'[w].jobs = worker[w].jobs
          /\ worker'[w].pc \in Challenge <=> worker[w].pc \in Challenge
      BY <1>6, BatchNow, BatchNext DEF Onward
    <2>2. \A v \in Workers : Moves(v)
      BY <1>3, <2>1, StaysMoves
    <2> QED BY <2>1, <2>2, HeldKept
  <1>7. ASSUME NEW w \in Workers, Saved(w) PROVE HeldInv'
    <2>1. /\ UNCHANGED raced /\ Others(w) /\ worker'[w].jobs = worker[w].jobs
          /\ worker'[w].pc \in Challenge /\ worker[w].pc \in Challenge
          /\ Only(TheJob(w).order) /\ TheJob(w).order \in DOMAIN orders
          /\ orders'[TheJob(w).order].status = orders[TheJob(w).order].status
      BY <1>7 DEF Saved, Challenge
    <2>2. \A v \in Workers : Moves(v)
      BY <1>3, <2>1, StaysMoves
    <2>3. PICK o : o = TheJob(w).order
      OBVIOUS
    <2>4. o \notin raced => \A v \in Workers \ {w} : o \notin Mine(v)
      <3>1. 1 \in DOMAIN worker[w].jobs /\ worker[w].jobs[1].order = o
        BY <2>1, <2>3, JobFacts
      <3> QED BY <3>1 DEF HeldInv, Holds
    <2>5. \A v \in Workers \ {w} : Mine(v)' = Mine(v)
      BY <2>1 DEF Mine, Others
    <2>6. worker'[w].pc \notin Issuance
      BY <2>1, BatchNext
    <2>7. \A v \in Workers : Mine(v)' \subseteq DOMAIN orders
      BY <1>4, <2>1 DEF Only
    <2>8. ASSUME NEW v \in Workers, NEW p \in Mine(v)' \ raced'
          PROVE  /\ orders'[p].status = orders[p].status
                 /\ worker'[v].pc \in Issuance => orders'[p].payload = orders[p].payload
      <3>1. CASE p # o
        BY <2>1, <2>3, <2>7, <3>1 DEF Only
      <3>2. CASE p = o
        <4>1. v = w
          BY <2>1, <2>4, <2>5, <3>2
        <4> QED BY <2>1, <2>3, <2>6, <3>2, <4>1
      <3> QED BY <3>1, <3>2
    <2> QED BY <2>1, <2>2, <2>8, HeldKept
  <1>8. ASSUME NEW w \in Workers, Ended(w) PROVE HeldInv'
    <2>1. UNCHANGED raced /\ Others(w) /\ Only(TheJob(w).order)
      BY <1>8 DEF Ended
    <2>2. \A v \in Workers : Moves(v)
      BY <1>3, <1>8, <2>1, EndedMoves
    <2>3. PICK o : o = TheJob(w).order
      OBVIOUS
    <2>4. 1 \in DOMAIN worker[w].jobs /\ worker[w].jobs[1].order = o
      BY <1>8, <2>3, EndedMoves
    <2>5. o \notin raced => \A v \in Workers \ {w} : o \notin Mine(v)
      BY <2>4 DEF HeldInv, Holds
    <2>6. o \notin Mine(w)'
      <3>1. ASSUME NEW j \in DOMAIN worker'[w].jobs, worker'[w].jobs[j].order = o PROVE FALSE
        <4>1. /\ j \in Nat /\ j > 0 /\ j + 1 \in DOMAIN worker[w].jobs
              /\ worker[w].jobs[j + 1].order = o
          BY <1>8, <3>1, EndedMoves
        <4>2. j + 1 = 1
          BY <2>4, <4>1 DEF HeldInv, Distinct
        <4> QED BY <4>1, <4>2
      <3> QED BY <3>1 DEF Mine
    <2>7. \A v \in Workers \ {w} : Mine(v)' = Mine(v)
      BY <2>1 DEF Mine, Others
    <2>8. ASSUME NEW v \in Workers, NEW p \in Mine(v)' \ raced'
          PROVE  orders'[p] = orders[p]
      <3>1. p # o
        BY <2>1, <2>5, <2>6, <2>7
      <3> QED BY <1>4, <2>1, <2>3, <3>1 DEF Only
    <2> QED BY <2>1, <2>2, <2>8, HeldKept
  <1>9. ASSUME NEW w \in Workers, Took(w) PROVE HeldInv'
    <2>1. UNCHANGED raced /\ worker[w].pc \notin Challenge \cup Issuance
      BY <1>9 DEF Took
    <2>2. PICK jobs \in Seq(Job) :
            \/ Claimed(w, "pending_dns_challenge", "dns_challenge_presenting", "prepare", "ready", jobs)
            \/ Claimed(w, "dns_challenge_presented", "issuing", "finalize", "select", jobs)
      BY <1>9 DEF Took
    <2>3. ASSUME NEW from, NEW to, NEW first, NEW next, Claimed(w, from, to, first, next, jobs),
                 from \in {"pending_dns_challenge", "dns_challenge_presented"},
                 \/ to = "dns_challenge_presenting" /\ first = "prepare" /\ next = "ready"
                 \/ to = "issuing" /\ first = "finalize" /\ next = "select"
          PROVE  HeldInv'
      <3>1. /\ \A j \in DOMAIN jobs : /\ jobs[j].order \in DOMAIN orders
                                       /\ orders[jobs[j].order].status = from
                                       /\ jobs[j].payload = orders[jobs[j].order].payload
            /\ \A i, j \in DOMAIN jobs : jobs[i].order = jobs[j].order => i = j
            /\ \A o \in DOMAIN orders :
                 orders'[o] = IF \E j \in DOMAIN jobs : jobs[j].order = o
                                THEN [orders[o] EXCEPT !.status = to] ELSE orders[o]
            /\ Others(w) /\ worker'[w].jobs = jobs
            /\ worker'[w].pc = IF jobs = <<>> THEN next ELSE first
        BY <2>3 DEF Claimed, Others
      <3>2. ASSUME NEW v \in Workers \ {w}, NEW o \in Mine(v) \ raced
            PROVE  /\ o \in DOMAIN orders /\ orders[o].status = Marked(v)
                   /\ \A j \in DOMAIN jobs : jobs[j].order # o
        <4>1. PICK i \in DOMAIN worker[v].jobs : worker[v].jobs[i].order = o
          BY DEF Mine
        <4>2. o \in DOMAIN orders /\ orders[o].status = Marked(v)
          BY <4>1, BatchNow DEF HeldInv, Holds
        <4>3. Marked(v) # from
          BY <2>3 DEF Marked
        <4> QED BY <3>1, <4>2, <4>3
      <3>3. \A v \in Workers \ {w} : Mine(v)' = Mine(v) /\ Marked(v)' = Marked(v)
        BY <3>1 DEF Mine, Marked, Others
      <3>4. Mine(w)' = {jobs[j].order : j \in DOMAIN jobs}
        BY <3>1 DEF Mine
      <3>5. ASSUME NEW v \in Workers \ {w} PROVE Distinct(v)' /\ Holds(v)'
        <4>1. worker'[v] = worker[v] /\ Distinct(v) /\ Holds(v)
          BY <3>1 DEF Others, HeldInv
        <4>2. Distinct(v)'
          BY <4>1 DEF Distinct
        <4>3. ASSUME NEW j \in DOMAIN worker[v].jobs, worker[v].jobs[j].order \notin raced
              PROVE  /\ orders'[worker[v].jobs[j].order].status = Marked(v)
                     /\ \A u \in Workers \ {v} : worker[v].jobs[j].order \notin Mine(u)'
                     /\ worker[v].pc \in Issuance =>
                          worker[v].jobs[j].payload = orders'[worker[v].jobs[j].order].payload
          <5>1. PICK o : o = worker[v].jobs[j].order
            OBVIOUS
          <5>2. /\ o \in DOMAIN orders /\ o \in Mine(v) /\ o \notin raced
                /\ \A i \in DOMAIN jobs : jobs[i].order # o
            BY <3>2, <4>3, <5>1, BatchNow
          <5>3. orders'[o] = orders[o]
            BY <3>1, <5>2
          <5>4. \A u \in Workers \ {v} : o \notin Mine(u)'
            <6>1. o \notin Mine(w)'
              BY <3>4, <5>2
            <6>2. \A u \in Workers \ {v} : o \notin Mine(u)
              BY <4>1, <4>3, <5>1 DEF Holds
            <6> QED BY <3>3, <6>1, <6>2
          <5> QED BY <4>1, <4>3, <5>1, <5>3, <5>4 DEF Holds
        <4>4. Holds(v)'
          BY <2>1, <3>3, <4>1, <4>3 DEF Holds
        <4> QED BY <4>2, <4>4
      <3>6. Distinct(w)'
        BY <3>1 DEF Distinct
      <3>7. ASSUME NEW j \in DOMAIN jobs, jobs[j].order \notin raced
            PROVE  /\ orders'[jobs[j].order].status = Marked(w)'
                   /\ \A v \in Workers \ {w} : jobs[j].order \notin Mine(v)'
                   /\ jobs[j].payload = orders'[jobs[j].order].payload
        <4>1. PICK o \in DOMAIN orders : o = jobs[j].order
          BY <3>1
        <4>2. orders'[o] = [orders[o] EXCEPT !.status = to] /\ orders[o] \in Order
          BY <3>1, <4>1, Rows DEF TypeInv
        <4>3. orders'[o].status = to /\ orders'[o].payload = orders[o].payload
          BY <4>2 DEF Order
        <4>4. Marked(w)' = to
          <5>1. worker'[w].pc = first
            BY <3>1, <3>7, BatchNext
          <5> QED BY <2>3, <5>1 DEF Marked, Challenge
        <4>5. \A v \in Workers \ {w} : o \notin Mine(v)'
          BY <3>2, <3>3, <3>7, <4>1
        <4> QED BY <3>1, <4>1, <4>3, <4>4, <4>5
      <3>8. Holds(w)'
        BY <2>1, <3>1, <3>7 DEF Holds
      <3> QED BY <3>5, <3>6, <3>8 DEF HeldInv
    <2> QED BY <2>2, <2>3
  <1> QED BY <1>1, <1>2, <1>5, <1>6, <1>7, <1>8, <1>9, StepActs DEF Acts

LEMMA HeldInit == Init => HeldInv
  <1> SUFFICES ASSUME Init, NEW w \in Workers PROVE Distinct(w) /\ Holds(w)
    BY DEF HeldInv
  <1>1. worker[w].jobs = <<>>
    BY DEF Init, Idle
  <1>2. DOMAIN worker[w].jobs = {}
    BY <1>1
  <1> QED BY <1>2 DEF Distinct, Holds

LEMMA HeldHolds == Spec => []HeldInv
  <1>1. TypeInv /\ TypeInv' /\ HeldInv /\ [Next]_vars => HeldInv'
    BY HeldStep
  <1> QED BY <1>1, HeldInit, TypesHold, PTL DEF Spec

\* However many dns-workers run, crash and restart, an order that was not
\* requeued under one of them or from a stale read is in the hands of at most one:
\* claim_pending_dns_orders and claim_ready_issuance_orders never hand out an
\* order that is in a batch.
THEOREM OneWorkerPerOrder == Spec => []OneWorker
  <1>1. HeldInv => OneWorker
    <2> SUFFICES ASSUME HeldInv, NEW o \in OrderIds \ raced PROVE Cardinality(Held(o)) <= 1
      BY DEF OneWorker
    <2>1. \A w \in Held(o) : w \in Workers /\ o \in Mine(w)
      BY DEF Held, Mine
    <2>2. ASSUME NEW v \in Held(o), NEW w \in Held(o) PROVE v = w
      <3>1. PICK j \in DOMAIN worker[v].jobs : worker[v].jobs[j].order = o
        BY DEF Held
      <3> QED BY <2>1, <3>1 DEF HeldInv, Holds
    <2>3. CASE Held(o) = {}
      BY <2>3, FS_EmptySet
    <2>4. ASSUME NEW w \in Held(o) PROVE Cardinality(Held(o)) <= 1
      <3>1. Held(o) = {w}
        BY <2>2
      <3> QED BY <3>1, FS_Singleton
    <2> QED BY <2>3, <2>4
  <1> QED BY <1>1, HeldHolds, PTL

-----------------------------------------------------------------------------
(***************************************************************************)
(* IssuedOnce.  A commit stores the version and the status together, and   *)
(* the order it is for is, by HeldInv, one that was not issued yet.        *)
(***************************************************************************)

\* The versions q came once, or never, from order o.
OnceIn(o, q) == \E k \in DOMAIN q : \A l \in DOMAIN q : q[l] = o <=> l = k
NotIn(o, q)  == \A k \in DOMAIN q : q[k] # o

IssuedInv ==
    \A o \in DOMAIN orders \ raced :
      IF orders[o].status = "issued" THEN OnceIn(o, Versions(orders[o].cert))
                                     ELSE NotIn(o, Versions(orders[o].cert))

LEMMA AppendIn ==
    ASSUME NEW q \in Seq(OrderIds), NEW o \in OrderIds
    PROVE  /\ NotIn(o, q) => OnceIn(o, Append(q, o))
           /\ \A p : p # o /\ OnceIn(p, q) => OnceIn(p, Append(q, o))
           /\ \A p : p # o /\ NotIn(p, q) => NotIn(p, Append(q, o))
  <1>1. PICK r : r = Append(q, o)
    OBVIOUS
  <1>2. PICK n \in Nat : n = Len(q)
    OBVIOUS
  <1>3. /\ DOMAIN q = 1..n /\ DOMAIN r = 1..n + 1
        /\ \A k \in 1..n : r[k] = q[k]
        /\ r[n + 1] = o
    BY <1>1, <1>2, AppendProperties
  <1>4. ASSUME NotIn(o, q) PROVE OnceIn(o, r)
    <2>1. n + 1 \in DOMAIN r /\ \A l \in DOMAIN r : r[l] = o <=> l = n + 1
      BY <1>3, <1>4 DEF NotIn
    <2> QED BY <2>1, Zenon DEF OnceIn
  <1>5. ASSUME NEW p, p # o, OnceIn(p, q) PROVE OnceIn(p, r)
    <2>1. PICK k \in DOMAIN q : \A l \in DOMAIN q : q[l] = p <=> l = k
      BY <1>5, Zenon DEF OnceIn
    <2>2. k \in DOMAIN r
      BY <1>3, <2>1
    <2>3. \A l \in DOMAIN r : r[l] = p <=> l = k
      BY <1>3, <1>5, <2>1
    <2> QED BY <2>2, <2>3, Zenon DEF OnceIn
  <1>6. ASSUME NEW p, p # o, NotIn(p, q) PROVE NotIn(p, r)
    BY <1>3, <1>6 DEF NotIn
  <1> QED BY <1>1, <1>4, <1>5, <1>6

\* Nothing is issued: the orders that were, and no others, are still issued.
LEMMA IssuedKept ==
    ASSUME TypeInv, IssuedInv, RowsKept, SameVersions, raced \subseteq raced',
           \A o \in DOMAIN orders \ raced' :
             orders'[o].status = "issued" <=> orders[o].status = "issued",
           \A o \in DOMAIN orders' \ DOMAIN orders : orders'[o].status # "issued",
           TablesSound'
    PROVE  IssuedInv'
  <1>1. ASSUME NEW o \in DOMAIN orders \ raced'
        PROVE  IF orders'[o].status = "issued" THEN OnceIn(o, certs'[orders'[o].cert].versions)
                                               ELSE NotIn(o, certs'[orders'[o].cert].versions)
    <2>1. PICK c : c = orders[o].cert
      OBVIOUS
    <2>2. c \in DOMAIN certs /\ orders'[o].cert = c
      BY <2>1 DEF RowsKept, TypeInv, TablesSound
    <2>3. certs'[c].versions = certs[c].versions
      BY <2>2 DEF SameVersions, Versions
    <2> QED BY <2>1, <2>2, <2>3 DEF IssuedInv, Versions
  <1>2. ASSUME NEW o \in DOMAIN orders' \ DOMAIN orders
        PROVE  NotIn(o, certs'[orders'[o].cert].versions)
    <2>1. PICK c : c = orders'[o].cert
      OBVIOUS
    <2>2. c \in DOMAIN certs'
      BY <2>1 DEF TablesSound
    <2>3. CASE c \in DOMAIN certs
      <3>1. certs'[c].versions = certs[c].versions
        BY <2>3 DEF SameVersions, Versions
      <3>2. \A k \in DOMAIN certs[c].versions : certs[c].versions[k] \in DOMAIN orders
        BY <2>3 DEF TypeInv, TablesSound, Versions
      <3> QED BY <2>1, <3>1, <3>2 DEF NotIn
    <2>4. CASE c \notin DOMAIN certs
      <3>1. certs'[c].versions = <<>>
        BY <2>2, <2>4 DEF SameVersions, Versions
      <3>2. DOMAIN certs'[c].versions = {}
        BY <3>1
      <3> QED BY <2>1, <3>2 DEF NotIn
    <2> QED BY <2>3, <2>4
  <1> QED BY <1>1, <1>2 DEF IssuedInv, Versions

\* Version v of an order's certificate is issued for the order.
LEMMA IssuedStored ==
    ASSUME TypeInv, IssuedInv, UNCHANGED raced, NEW w \in Workers,
           NEW o \in DOMAIN orders, o \notin raced => orders[o].status # "issued",
           NEW v, Stored(w, o, orders[o].cert, v)
    PROVE  IssuedInv'
  <1>1. PICK c : c = orders[o].cert
    OBVIOUS
  <1>2. /\ RowsKept /\ Only(o) /\ orders'[o].status = "issued"
        /\ \A d \in DOMAIN certs \ {c} : certs'[d] = certs[d]
        /\ certs'[c].versions = Append(certs[c].versions, o)
    BY <1>1 DEF Stored, Versions
  <1>3. c \in DOMAIN certs /\ certs[c].versions \in Seq(OrderIds) /\ o \in OrderIds
    BY <1>1, Rows DEF TypeInv, TablesSound, Cert
  <1>4. ASSUME NEW p \in DOMAIN orders \ raced
        PROVE  IF orders'[p].status = "issued" THEN OnceIn(p, certs'[orders'[p].cert].versions)
                                               ELSE NotIn(p, certs'[orders'[p].cert].versions)
    <2>1. PICK d : d = orders[p].cert
      OBVIOUS
    <2>2. d \in DOMAIN certs /\ orders'[p].cert = d
      BY <1>2, <2>1 DEF RowsKept, TypeInv, TablesSound
    <2>3. IF orders[p].status = "issued" THEN OnceIn(p, certs[d].versions)
                                         ELSE NotIn(p, certs[d].versions)
      BY <2>1 DEF IssuedInv, Versions
    <2>4. CASE p = o
      <3>1. d = c /\ NotIn(o, certs[c].versions)
        BY <1>1, <1>4, <2>1, <2>3, <2>4
      <3> QED BY <1>2, <1>3, <2>2, <2>4, <3>1, AppendIn
    <2>5. CASE p # o
      <3>1. orders'[p] = orders[p]
        BY <1>2, <2>5 DEF Only
      <3>2. CASE d # c
        BY <1>2, <2>2, <2>3, <3>1, <3>2
      <3>3. CASE d = c
        BY <1>2, <1>3, <2>2, <2>3, <2>5, <3>1, <3>3, AppendIn
      <3> QED BY <3>2, <3>3
    <2> QED BY <2>4, <2>5
  <1> QED BY <1>2, <1>4 DEF IssuedInv, Versions, Only

\* What the order at hand of a worker is.
LEMMA AtHand ==
    ASSUME TypeInv, HeldInv, NEW w \in Workers, worker[w].pc \in Challenge \cup Issuance,
           TheJob(w).order \notin raced
    PROVE  /\ orders[TheJob(w).order].status = Marked(w)
           /\ \A v \in Workers \ {w} : TheJob(w).order \notin Mine(v)
           /\ worker[w].pc \in Issuance => TheJob(w).payload = orders[TheJob(w).order].payload
  <1>1. 1 \in DOMAIN worker[w].jobs /\ TheJob(w) = worker[w].jobs[1]
    BY JobFacts
  <1> QED BY <1>1 DEF HeldInv, Holds

LEMMA IssuedStep ==
    ASSUME TypeInv, TypeInv', HeldInv, IssuedInv, [Next]_vars
    PROVE  IssuedInv'
  <1>1. RowsKept /\ TablesSound'
    BY StepKeeps DEF TypeInv
  <1>2. UNCHANGED certs => SameVersions
    BY Still
  <1>3. ASSUME Aside \/ \E w \in Workers : Vacant(w) PROVE IssuedInv'
    <2>1. UNCHANGED raced /\ Steady({}) /\ Fresh /\ SameVersions
      BY <1>3 DEF Aside, Vacant
    <2> QED BY <1>1, <2>1, IssuedKept DEF Steady, Fresh
  <1>4. ASSUME NEW o \in DOMAIN orders, Requeued(o) PROVE IssuedInv'
    <2>1. /\ UNCHANGED certs /\ Only(o) /\ raced \subseteq raced'
          /\ orders'[o].status # "issued" /\ o \notin raced' => orders[o].status # "issued"
      BY <1>4 DEF Requeued
    <2>2. \A p \in DOMAIN orders \ raced' :
             orders'[p].status = "issued" <=> orders[p].status = "issued"
      BY <1>4, <2>1 DEF Only, Requeued
    <2> QED BY <1>1, <1>2, <2>1, <2>2, IssuedKept DEF Only
  <1>5. ASSUME NEW w \in Workers, Onward(w) PROVE IssuedInv'
    BY <1>1, <1>2, <1>5, IssuedKept DEF Onward
  <1>6. ASSUME NEW w \in Workers, Saved(w) PROVE IssuedInv'
    <2>1. /\ UNCHANGED <<certs, raced>> /\ Only(TheJob(w).order)
          /\ orders'[TheJob(w).order].status = orders[TheJob(w).order].status
      BY <1>6 DEF Saved
    <2>2. \A p \in DOMAIN orders : orders'[p].status = orders[p].status
      BY <2>1 DEF Only
    <2> QED BY <1>1, <1>2, <2>1, <2>2, IssuedKept DEF Only
  <1>7. ASSUME NEW w \in Workers, Took(w) PROVE IssuedInv'
    <2>1. UNCHANGED <<certs, raced>>
      BY <1>7 DEF Took
    <2>2. DOMAIN orders' = DOMAIN orders
      BY <1>7 DEF Took, Claimed
    <2>3. ASSUME NEW o \in DOMAIN orders
          PROVE  orders'[o].status = "issued" <=> orders[o].status = "issued"
      <3>1. orders[o] \in Order
        BY Rows DEF TypeInv
      <3>2. \/ orders'[o] = orders[o]
            \/ /\ orders[o].status # "issued"
               /\ \/ orders'[o] = [orders[o] EXCEPT !.status = "dns_challenge_presenting"]
                  \/ orders'[o] = [orders[o] EXCEPT !.status = "issuing"]
        BY <1>7 DEF Took, Claimed
      <3> QED BY <3>1, <3>2 DEF Order
    <2> QED BY <1>1, <1>2, <2>1, <2>2, <2>3, IssuedKept
  <1>8. ASSUME NEW w \in Workers, Ended(w) PROVE IssuedInv'
    <2>1. PICK o : o = TheJob(w).order
      OBVIOUS
    <2>2. /\ UNCHANGED raced /\ o \in DOMAIN orders /\ Only(o)
          /\ worker[w].pc \in Challenge \cup Issuance
      BY <1>8, <2>1 DEF Ended, Challenge, Issuance
    <2>3. o \notin raced => orders[o].status # "issued"
      BY <2>1, <2>2, AtHand DEF Marked
    <2>4. CASE UNCHANGED certs /\ orders'[o].status # "issued"
      <3>1. \A p \in DOMAIN orders \ raced' :
               orders'[p].status = "issued" <=> orders[p].status = "issued"
        BY <2>2, <2>3, <2>4 DEF Only
      <3> QED BY <1>1, <1>2, <2>2, <2>4, <3>1, IssuedKept DEF Only
    <2>5. CASE Stored(w, TheJob(w).order, TheOrder(w).cert, worker[w].version)
      <3>1. Stored(w, o, orders[o].cert, worker[w].version)
        BY <2>1, <2>5 DEF TheOrder
      <3> QED BY <2>2, <2>3, <3>1, IssuedStored
    <2> QED BY <1>8, <2>1, <2>4, <2>5 DEF Ended
  <1> QED BY <1>3, <1>4, <1>5, <1>6, <1>7, <1>8, StepActs DEF Acts

LEMMA IssuedHolds == Spec => []IssuedInv
  <1>1. Init => IssuedInv
    BY DEF Init, IssuedInv
  <1>2. TypeInv /\ TypeInv' /\ HeldInv /\ IssuedInv /\ [Next]_vars => IssuedInv'
    BY IssuedStep
  <1> QED BY <1>1, <1>2, HeldHolds, TypesHold, PTL DEF Spec

\* Crashes, retries and the claims of several dns-workers included, an order that
\* was not requeued in a race is "issued" exactly when its certificate has one
\* version that came from it: persist_issued_certificate neither issues an order
\* twice nor stores a version without recording the order as issued.
THEOREM EachIssuedOnce == Spec => []IssuedOnce
  <1>1. TypeInv /\ IssuedInv => IssuedOnce
    <2> SUFFICES ASSUME TypeInv, IssuedInv, NEW o \in DOMAIN orders \ raced
                 PROVE  LET from == {v \in DOMAIN certs[orders[o].cert].versions :
                                       certs[orders[o].cert].versions[v] = o}
                        IN  IF orders[o].status = "issued" THEN Cardinality(from) = 1
                                                           ELSE from = {}
      BY DEF IssuedOnce
    <2> DEFINE q    == certs[orders[o].cert].versions
               from == {v \in DOMAIN q : q[v] = o}
    <2>1. q = Versions(orders[o].cert)
      BY DEF Versions
    <2>2. CASE orders[o].status = "issued"
      <3>1. PICK k \in DOMAIN q : \A l \in DOMAIN q : q[l] = o <=> l = k
        BY <2>1, <2>2 DEF IssuedInv, OnceIn
      <3>2. from = {k}
        BY <3>1
      <3> QED BY <2>2, <3>2, FS_Singleton
    <2>3. CASE orders[o].status # "issued"
      BY <2>1, <2>3 DEF IssuedInv, NotIn
    <2> QED BY <2>2, <2>3
  <1> QED BY <1>1, IssuedHolds, TypesHold, PTL

-----------------------------------------------------------------------------
(***************************************************************************)
(* RecordStaysUntilChecked and IssuedIsClean.  An ACME order, and with it  *)
(* the TXT record that has its content, belongs to one certificate order:  *)
(* the one whose row, whose job or whose worker at hand names it.          *)
(***************************************************************************)

AtRecord == {"present", "acknowledge", "payload"}

Carries(w, a, o) ==
    \/ \E j \in DOMAIN worker[w].jobs :
         worker[w].jobs[j].order = o /\ worker[w].jobs[j].payload = a
    \/ worker[w].pc \in AtRecord /\ worker[w].acme = a /\ TheJob(w).order = o

Belongs(a, o) ==
    \/ o \in DOMAIN orders /\ orders[o].payload = a
    \/ \E w \in Workers : Carries(w, a, o)

\* It belongs to no two of them, and the server knows it.
OwnerInv ==
    \A a \in AcmeIds : \A o \in OrderIds :
      Belongs(a, o) => /\ acme[a] # "none"
                       /\ \A p \in OrderIds : Belongs(a, p) => o = p

\* Workers that do not move carry what they carried, and a worker between its
\* jobs carries what its jobs name.
LEMMA CarriesSame ==
    ASSUME NEW v \in Workers, worker'[v] = worker[v], NEW a, NEW o, Carries(v, a, o)'
    PROVE  Carries(v, a, o)
  <1>1. TheJob(v)' = TheJob(v)
    BY DEF TheJob
  <1> QED BY <1>1 DEF Carries

LEMMA CarriesLess ==
    ASSUME NEW v \in Workers, Moves(v), worker'[v].pc \notin AtRecord,
           NEW a, NEW o, Carries(v, a, o)'
    PROVE  Carries(v, a, o)
  <1>1. PICK j \in DOMAIN worker'[v].jobs :
          worker'[v].jobs[j].order = o /\ worker'[v].jobs[j].payload = a
    BY DEF Carries
  <1>2. PICK i \in DOMAIN worker[v].jobs : worker'[v].jobs[j] = worker[v].jobs[i]
    BY <1>1 DEF Moves
  <1> QED BY <1>1, <1>2 DEF Carries

\* What the claims do to the rows.
LEMMA TookFacts ==
    ASSUME TypeInv, NEW w \in Workers, Took(w)
    PROVE  /\ DOMAIN orders' = DOMAIN orders /\ Others(w)
           /\ worker'[w].pc \in {"prepare", "ready", "finalize", "select"}
           /\ \A j \in DOMAIN worker'[w].jobs :
                /\ worker'[w].jobs[j].order \in DOMAIN orders
                /\ worker'[w].jobs[j].payload = orders[worker'[w].jobs[j].order].payload
           /\ \A o \in DOMAIN orders :
                /\ orders'[o].payload = orders[o].payload
                /\ \/ orders'[o] = orders[o]
                   \/ /\ orders[o].status \in {"pending_dns_challenge", "dns_challenge_presented"}
                      /\ orders'[o].status \in {"dns_challenge_presenting", "issuing"}
  <1>1. PICK jobs \in Seq(Job) :
          \/ Claimed(w, "pending_dns_challenge", "dns_challenge_presenting", "prepare", "ready", jobs)
          \/ Claimed(w, "dns_challenge_presented", "issuing", "finalize", "select", jobs)
    BY DEF Took
  <1>2. /\ DOMAIN orders' = DOMAIN orders /\ Others(w) /\ worker'[w].jobs = jobs
        /\ worker'[w].pc \in {"prepare", "ready", "finalize", "select"}
        /\ \A j \in DOMAIN jobs : /\ jobs[j].order \in DOMAIN orders
                                  /\ jobs[j].payload = orders[jobs[j].order].payload
    BY <1>1 DEF Claimed, Others
  <1>3. ASSUME NEW o \in DOMAIN orders
        PROVE  /\ orders'[o].payload = orders[o].payload
               /\ \/ orders'[o] = orders[o]
                  \/ /\ orders[o].status \in {"pending_dns_challenge", "dns_challenge_presented"}
                     /\ orders'[o].status \in {"dns_challenge_presenting", "issuing"}
    <2>1. orders[o] \in Order
      BY Rows DEF TypeInv
    <2>2. \/ orders'[o] = orders[o]
          \/ /\ orders[o].status \in {"pending_dns_challenge", "dns_challenge_presented"}
             /\ \/ orders'[o] = [orders[o] EXCEPT !.status = "dns_challenge_presenting"]
                \/ orders'[o] = [orders[o] EXCEPT !.status = "issuing"]
      BY <1>1 DEF Claimed
    <2> QED BY <2>1, <2>2 DEF Order
  <1> QED BY <1>2, <1>3

\* The places a worker leaves its job for.
LEMMA EndedFacts ==
    ASSUME NEW w \in Workers, Ended(w)
    PROVE  /\ worker'[w].pc \in {"prepare", "ready", "finalize", "select"}
           /\ worker[w].pc \in Challenge \cup Issuance
           /\ UNCHANGED <<raced, extVars>> /\ Others(w)
           /\ TheJob(w).order \in DOMAIN orders /\ Only(TheJob(w).order)
           /\ orders'[TheJob(w).order].payload = orders[TheJob(w).order].payload
  BY DEF Ended, Challenge, Issuance

LEMMA VacantFacts ==
    ASSUME TypeInv', NEW w \in Workers, Vacant(w)
    PROVE  worker'[w].pc \notin Challenge \cup Issuance
  BY DEF Vacant, TypeInv, WorkerSound

\* Only the order that was just created at the server gets a new owner.
LEMMA BelongsStep ==
    ASSUME TypeInv, TypeInv', [Next]_vars
    PROVE  \/ \A a \in AcmeIds : \A o \in OrderIds : Belongs(a, o)' => Belongs(a, o)
           \/ \E i \in AcmeIds, q \in OrderIds :
                /\ acme[i] = "none" /\ acme'[i] = "new"
                /\ \A a \in AcmeIds : \A o \in OrderIds :
                     Belongs(a, o)' => Belongs(a, o) \/ (a = i /\ o = q)
  <1>0. NoAcme \notin AcmeIds
    BY DEF NoAcme, AcmeIds
  <1> DEFINE Less == \A a \in AcmeIds : \A o \in OrderIds : Belongs(a, o)' => Belongs(a, o)
  <1>1. ASSUME NEW w \in Workers, Others(w), NEW a, NEW o, Belongs(a, o)',
               Carries(w, a, o)' => Belongs(a, o),
               o \in DOMAIN orders' /\ orders'[o].payload = a => Belongs(a, o)
        PROVE  Belongs(a, o)
    <2>1. ASSUME NEW v \in Workers \ {w}, Carries(v, a, o)' PROVE Belongs(a, o)
      BY <1>1, <2>1, CarriesSame DEF Others, Belongs
    <2> QED BY <1>1, <2>1 DEF Belongs
  <1>2. ASSUME Aside PROVE Less
    <2>1. ASSUME NEW a \in AcmeIds, NEW o \in OrderIds, Belongs(a, o)' PROVE Belongs(a, o)
      <3>1. CASE o \in DOMAIN orders' /\ orders'[o].payload = a
        BY <1>0, <1>2, <3>1 DEF Aside, Steady, Fresh, Belongs
      <3>2. CASE \E w \in Workers : Carries(w, a, o)'
        BY <1>2, <3>2, CarriesSame DEF Aside, Belongs
      <3> QED BY <2>1, <3>1, <3>2 DEF Belongs
    <2> QED BY <2>1
  <1>3. ASSUME NEW q \in DOMAIN orders, Requeued(q) PROVE Less
    <2>1. ASSUME NEW a \in AcmeIds, NEW o \in OrderIds, Belongs(a, o)' PROVE Belongs(a, o)
      <3>1. CASE o \in DOMAIN orders' /\ orders'[o].payload = a
        BY <1>0, <1>3, <3>1 DEF Requeued, Only, Belongs
      <3>2. CASE \E w \in Workers : Carries(w, a, o)'
        BY <1>3, <3>2, CarriesSame DEF Requeued, Belongs
      <3> QED BY <2>1, <3>1, <3>2 DEF Belongs
    <2> QED BY <2>1
  <1>4. ASSUME NEW w \in Workers, Vacant(w) PROVE Less
    <2>1. Others(w) /\ worker'[w].pc \notin AtRecord /\ Moves(w)
      BY <1>4, VacantFacts, EmptyMoves DEF Vacant, AtRecord, Challenge
    <2>2. ASSUME NEW a \in AcmeIds, NEW o \in OrderIds, Belongs(a, o)' PROVE Belongs(a, o)
      <3>1. Carries(w, a, o)' => Belongs(a, o)
        BY <2>1, CarriesLess DEF Belongs
      <3>2. o \in DOMAIN orders' /\ orders'[o].payload = a => Belongs(a, o)
        BY <1>0, <1>4 DEF Vacant, Steady, Fresh, Belongs
      <3> QED BY <1>1, <2>1, <2>2, <3>1, <3>2
    <2> QED BY <2>2
  <1>5. ASSUME NEW w \in Workers, Ended(w) PROVE Less
    <2>1. Others(w) /\ worker'[w].pc \notin AtRecord /\ Moves(w)
      BY <1>5, EndedFacts, EndedMoves DEF AtRecord
    <2>2. ASSUME NEW a \in AcmeIds, NEW o \in OrderIds, Belongs(a, o)' PROVE Belongs(a, o)
      <3>1. Carries(w, a, o)' => Belongs(a, o)
        BY <2>1, CarriesLess DEF Belongs
      <3>2. o \in DOMAIN orders' /\ orders'[o].payload = a => Belongs(a, o)
        BY <1>5, EndedFacts DEF Only, Belongs
      <3> QED BY <1>1, <2>1, <2>2, <3>1, <3>2
    <2> QED BY <2>2
  <1>6. ASSUME NEW w \in Workers, Saved(w) PROVE Less
    <2>1. Others(w) /\ worker'[w].pc \notin AtRecord /\ Moves(w)
      BY <1>6, StaysMoves DEF Saved, AtRecord, Challenge
    <2>2. ASSUME NEW a \in AcmeIds, NEW o \in OrderIds, Belongs(a, o)' PROVE Belongs(a, o)
      <3>1. Carries(w, a, o)' => Belongs(a, o)
        BY <2>1, CarriesLess DEF Belongs
      <3>2. o \in DOMAIN orders' /\ orders'[o].payload = a => Belongs(a, o)
        BY <1>6 DEF Saved, Only, Belongs, Carries, AtRecord
      <3> QED BY <1>1, <2>1, <2>2, <3>1, <3>2
    <2> QED BY <2>2
  <1>7. ASSUME NEW w \in Workers, Took(w) PROVE Less
    <2>1. Others(w) /\ worker'[w].pc \notin AtRecord
      BY <1>7, TookFacts DEF AtRecord
    <2>2. ASSUME NEW a \in AcmeIds, NEW o \in OrderIds, Belongs(a, o)' PROVE Belongs(a, o)
      <3>1. Carries(w, a, o)' => Belongs(a, o)
        BY <1>7, <2>1, TookFacts DEF Carries, Belongs
      <3>2. o \in DOMAIN orders' /\ orders'[o].payload = a => Belongs(a, o)
        BY <1>7, TookFacts DEF Belongs
      <3> QED BY <1>1, <2>1, <2>2, <3>1, <3>2
    <2> QED BY <2>2
  <1>8. ASSUME NEW w \in Workers, Onward(w), worker'[w].pc \in AtRecord =>
                  \/ worker[w].pc \in AtRecord /\ worker'[w].acme = worker[w].acme
                  \/ worker'[w].acme = TheJob(w).payload
        PROVE  Less
    <2>1. /\ Others(w) /\ UNCHANGED orders /\ worker'[w].jobs = worker[w].jobs
          /\ worker[w].pc \in Challenge \cup Issuance
      BY <1>8 DEF Onward
    <2>2. TheJob(w)' = TheJob(w) /\ 1 \in DOMAIN worker[w].jobs /\ TheJob(w) = worker[w].jobs[1]
      BY <2>1, JobFacts DEF TheJob
    <2>3. ASSUME NEW a \in AcmeIds, NEW o \in OrderIds, Belongs(a, o)' PROVE Belongs(a, o)
      <3>1. Carries(w, a, o)' => Belongs(a, o)
        BY <1>8, <2>1, <2>2 DEF Carries, Belongs
      <3>2. o \in DOMAIN orders' /\ orders'[o].payload = a => Belongs(a, o)
        BY <2>1 DEF Belongs
      <3> QED BY <1>1, <2>1, <2>3, <3>1, <3>2
    <2> QED BY <2>3
  <1>9. ASSUME NEW w \in Workers, Prepare(w), NEW i \in AcmeIds, acme[i] = "none",
               acme' = [acme EXCEPT ![i] = "new"], worker'[w].acme = i
        PROVE  \E q \in OrderIds :
                 /\ acme[i] = "none" /\ acme'[i] = "new"
                 /\ \A a \in AcmeIds : \A o \in OrderIds :
                      Belongs(a, o)' => Belongs(a, o) \/ (a = i /\ o = q)
    <2>1. /\ Others(w) /\ UNCHANGED orders /\ worker'[w].jobs = worker[w].jobs
          /\ worker[w].pc \in Challenge \cup Issuance
      BY <1>9, PrepareActs DEF Onward
    <2>2. TheJob(w)' = TheJob(w) /\ TheJob(w).order \in DOMAIN orders
      BY <2>1, JobFacts DEF TheJob
    <2>3. PICK q \in OrderIds : q = TheJob(w).order
      BY <2>2, Rows DEF TypeInv
    <2>4. acme'[i] = "new"
      BY <1>9 DEF TypeInv, TypeOK
    <2>5. ASSUME NEW a \in AcmeIds, NEW o \in OrderIds, Belongs(a, o)', ~(a = i /\ o = q)
          PROVE  Belongs(a, o)
      <3>1. Carries(w, a, o)' => Belongs(a, o)
        BY <1>9, <2>1, <2>2, <2>3, <2>5 DEF Carries, Belongs
      <3>2. o \in DOMAIN orders' /\ orders'[o].payload = a => Belongs(a, o)
        BY <2>1 DEF Belongs
      <3> QED BY <1>1, <2>1, <2>5, <3>1, <3>2
    <2> QED BY <1>9, <2>4, <2>5
  <1>10. ASSUME NEW w \in Workers, Onward(w)
         PROVE  \/ Less
                \/ \E i \in AcmeIds, q \in OrderIds :
                     /\ acme[i] = "none" /\ acme'[i] = "new"
                     /\ \A a \in AcmeIds : \A o \in OrderIds :
                          Belongs(a, o)' => Belongs(a, o) \/ (a = i /\ o = q)
    <2>1. CASE Prepare(w)
      <3>1. CASE worker'[w].pc \notin AtRecord \/ worker'[w].acme = TheJob(w).payload
        BY <1>8, <1>10, <3>1
      <3>2. CASE ~(worker'[w].pc \notin AtRecord \/ worker'[w].acme = TheJob(w).payload)
        <4>1. PICK i \in AcmeIds : /\ acme[i] = "none" /\ acme' = [acme EXCEPT ![i] = "new"]
                                   /\ worker'[w].acme = i
          BY <2>1, <3>2, PrepareActs DEF AtRecord
        <4> QED BY <1>9, <2>1, <4>1
      <3> QED BY <3>1, <3>2
    <2>2. CASE Present(w)
      BY <1>8, <1>10, <2>2, PresentActs DEF AtRecord
    <2>3. CASE Acknowledge(w)
      BY <1>8, <1>10, <2>3, AcknowledgeActs DEF AtRecord
    <2>4. CASE Finalize(w) \/ Cleanup(w) \/ ReadVersion(w)
      <3>1. worker'[w].pc \notin AtRecord
        BY <2>4, FinalizeActs, CleanupActs, ReadVersionActs DEF AtRecord
      <3> QED BY <1>8, <1>10, <3>1
    <2> QED BY <1>10, <2>1, <2>2, <2>3, <2>4 DEF Onward
  <1> HIDE DEF Less
  <1>11. \/ Less
         \/ \E i \in AcmeIds, q \in OrderIds :
              /\ acme[i] = "none" /\ acme'[i] = "new"
              /\ \A a \in AcmeIds : \A o \in OrderIds :
                   Belongs(a, o)' => Belongs(a, o) \/ (a = i /\ o = q)
    BY <1>2, <1>3, <1>4, <1>5, <1>6, <1>7, <1>10, StepActs DEF Acts
  <1> QED BY <1>11 DEF Less

\* An order of the ACME server does not go away, and stays finalized.
LEMMA AcmeKept ==
    ASSUME TypeInv, [Next]_vars, NEW a \in AcmeIds
    PROVE  /\ acme[a] # "none" => acme'[a] # "none"
           /\ acme[a] = "finalized" => acme'[a] = "finalized"
           /\ acme[a] # "none" /\ acme'[a] = "new" => acme[a] = "new"
           /\ acme'[a] = "acknowledged" =>
                \/ acme[a] = "acknowledged"
                \/ \E w \in Workers : Acknowledge(w) /\ worker[w].acme = a /\ acme[a] = "new"
  <1> DEFINE Goal == /\ acme[a] # "none" => acme'[a] # "none"
                     /\ acme[a] = "finalized" => acme'[a] = "finalized"
                     /\ acme[a] # "none" /\ acme'[a] = "new" => acme[a] = "new"
                     /\ acme'[a] = "acknowledged" =>
                          \/ acme[a] = "acknowledged"
                          \/ \E w \in Workers :
                               Acknowledge(w) /\ worker[w].acme = a /\ acme[a] = "new"
  <1>0. acme \in [AcmeIds -> AcmeStatus]
    BY DEF TypeInv, TypeOK
  <1>1. ASSUME UNCHANGED acme PROVE Goal
    BY <1>1
  <1>2. ASSUME NEW i \in AcmeIds, Validate(i) PROVE  Goal
    BY <1>0, <1>2 DEF Validate
  <1>3. ASSUME NEW w \in Workers, Onward(w) PROVE  Goal
    <2>1. CASE Prepare(w)
      BY <1>0, <2>1, PrepareActs
    <2>2. CASE Acknowledge(w)
      BY <1>0, <2>2, AcknowledgeActs
    <2>3. CASE Finalize(w)
      BY <1>0, <2>3, FinalizeActs
    <2>4. CASE Present(w) \/ Cleanup(w) \/ ReadVersion(w)
      BY <1>1, <2>4, PresentActs, CleanupActs, ReadVersionActs DEF extVars
    <2> QED BY <1>3, <2>1, <2>2, <2>3, <2>4 DEF Onward
  <1>4. CASE Aside \/ (\E o \in DOMAIN orders : Requeued(o))
    BY <1>1, <1>2, <1>4 DEF Aside, Requeued, extVars
  <1>5. ASSUME NEW w \in Workers, Vacant(w) \/ Saved(w) \/ Ended(w) \/ Took(w) PROVE UNCHANGED acme
    BY <1>5 DEF Vacant, Saved, Ended, Took, extVars
  <1> QED BY <1>1, <1>3, <1>4, <1>5, StepActs DEF Acts

LEMMA OwnerStep ==
    ASSUME TypeInv, TypeInv', OwnerInv, [Next]_vars
    PROVE  OwnerInv'
  <1>1. CASE \A a \in AcmeIds : \A o \in OrderIds : Belongs(a, o)' => Belongs(a, o)
    BY <1>1, AcmeKept DEF OwnerInv
  <1>2. ASSUME NEW i \in AcmeIds, NEW q \in OrderIds, acme[i] = "none", acme'[i] = "new",
               \A a \in AcmeIds : \A o \in OrderIds :
                 Belongs(a, o)' => Belongs(a, o) \/ (a = i /\ o = q)
        PROVE  OwnerInv'
    <2>1. \A o \in OrderIds : ~Belongs(i, o)
      BY <1>2 DEF OwnerInv
    <2>2. ASSUME NEW a \in AcmeIds, NEW o \in OrderIds, Belongs(a, o)'
          PROVE  /\ acme'[a] # "none"
                 /\ \A p \in OrderIds : Belongs(a, p)' => o = p
      <3>1. CASE a = i
        BY <1>2, <2>1, <2>2, <3>1
      <3>2. CASE a # i
        BY <1>2, <2>2, <3>2, AcmeKept DEF OwnerInv
      <3> QED BY <3>1, <3>2
    <2> QED BY <2>2 DEF OwnerInv
  <1> QED BY <1>1, <1>2, BelongsStep

LEMMA OwnerInit == Init => OwnerInv
  <1> SUFFICES ASSUME Init, NEW a \in AcmeIds, NEW o \in OrderIds, Belongs(a, o) PROVE FALSE
    BY DEF OwnerInv
  <1>1. o \notin DOMAIN orders
    BY DEF Init
  <1>2. PICK w \in Workers : Carries(w, a, o)
    BY <1>1 DEF Belongs
  <1>3. worker[w].jobs = <<>> /\ worker[w].pc = "select"
    BY DEF Init, Idle
  <1>4. DOMAIN worker[w].jobs = {}
    BY <1>3
  <1> QED BY <1>2, <1>3, <1>4 DEF Carries, AtRecord

LEMMA OwnerHolds == Spec => []OwnerInv
  <1>1. TypeInv /\ TypeInv' /\ OwnerInv /\ [Next]_vars => OwnerInv'
    BY OwnerStep
  <1> QED BY <1>1, OwnerInit, TypesHold, PTL DEF Spec

\* The record is there when the challenge is acknowledged, and the record a
\* cleanup deletes is no longer looked for.
RecordInv ==
    /\ RecordStaysUntilChecked
    /\ \A w \in Workers :
         /\ worker[w].pc = "acknowledge" /\ acme[worker[w].acme] = "new"
              => worker[w].acme \in txt
         /\ worker[w].pc = "cleanup" => acme[TheJob(w).payload] = "finalized"

\* Only the cleanup of an order that was finalized deletes a record.
LEMMA TxtKept ==
    ASSUME TypeInv, RecordInv, [Next]_vars, NEW a \in txt, acme[a] # "finalized"
    PROVE  a \in txt'
  <1>1. CASE UNCHANGED txt
    BY <1>1
  <1>2. ASSUME NEW w \in Workers, Onward(w) PROVE a \in txt'
    <2>1. CASE Present(w)
      BY <2>1, PresentActs
    <2>2. CASE Cleanup(w)
      <3>1. acme[TheJob(w).payload] = "finalized"
        BY <2>2, CleanupActs DEF RecordInv
      <3> QED BY <2>2, <3>1, CleanupActs
    <2>3. CASE Prepare(w) \/ Acknowledge(w) \/ Finalize(w) \/ ReadVersion(w)
      BY <1>1, <2>3, PrepareActs, AcknowledgeActs, FinalizeActs, ReadVersionActs DEF extVars
    <2> QED BY <1>2, <2>1, <2>2, <2>3 DEF Onward
  <1>3. CASE Aside \/ (\E o \in DOMAIN orders : Requeued(o))
    BY <1>1, <1>3 DEF Aside, Requeued, extVars, Validate
  <1>4. ASSUME NEW w \in Workers, Vacant(w) \/ Saved(w) \/ Ended(w) \/ Took(w) PROVE UNCHANGED txt
    BY <1>4 DEF Vacant, Saved, Ended, Took, extVars
  <1> QED BY <1>1, <1>2, <1>3, <1>4, StepActs DEF Acts

\* A worker that does not move, and one that goes somewhere else.
LEMMA Mover ==
    ASSUME TypeInv, TypeInv', [Next]_vars, NEW w \in Workers
    PROVE  \/ worker'[w] = worker[w]
           \/ worker'[w].pc \notin {"acknowledge", "cleanup"}
           \/ Present(w) /\ worker'[w].pc = "acknowledge"
           \/ Finalize(w) /\ worker'[w].pc = "cleanup"
  <1>1. CASE Aside \/ (\E o \in DOMAIN orders : Requeued(o))
    BY <1>1 DEF Aside, Requeued
  <1>2. ASSUME NEW v \in Workers, Acts(v), v # w PROVE worker'[w] = worker[w]
    BY <1>2, TookFacts DEF Acts, Vacant, Onward, Saved, Ended, Others
  <1>3. CASE Vacant(w)
    BY <1>3, VacantFacts DEF Challenge, Issuance
  <1>4. CASE Saved(w) \/ Ended(w) \/ Took(w)
    BY <1>4, EndedFacts, TookFacts DEF Saved
  <1>5. CASE Onward(w)
    <2>1. CASE Prepare(w) \/ Acknowledge(w) \/ Cleanup(w) \/ ReadVersion(w)
      BY <2>1, PrepareActs, AcknowledgeActs, CleanupActs, ReadVersionActs
    <2>2. CASE Present(w) \/ Finalize(w)
      BY <2>2, PresentActs, FinalizeActs
    <2> QED BY <1>5, <2>1, <2>2 DEF Onward
  <1> QED BY <1>1, <1>2, <1>3, <1>4, <1>5, StepActs DEF Acts

LEMMA RecordStep ==
    ASSUME TypeInv, TypeInv', OwnerInv, RecordInv, [Next]_vars
    PROVE  RecordInv'
  <1>0. acme \in [AcmeIds -> AcmeStatus] /\ txt \subseteq AcmeIds
    BY DEF TypeInv, TypeOK
  <1>1. ASSUME NEW a \in AcmeIds, acme'[a] = "acknowledged" PROVE a \in txt'
    <2>1. CASE acme[a] = "acknowledged"
      BY <2>1, TxtKept DEF RecordInv, RecordStaysUntilChecked
    <2>2. ASSUME NEW w \in Workers, Acknowledge(w), worker[w].acme = a, acme[a] = "new"
          PROVE  a \in txt'
      BY <2>2, AcknowledgeActs, TxtKept DEF RecordInv
    <2> QED BY <1>1, <2>1, <2>2, AcmeKept
  <1>2. ASSUME NEW w \in Workers, worker'[w].pc = "acknowledge", acme'[worker'[w].acme] = "new"
        PROVE  worker'[w].acme \in txt'
    <2>1. CASE worker'[w] = worker[w]
      <3>1. PICK a : a = worker[w].acme
        OBVIOUS
      <3>2. a \in AcmeIds /\ worker[w].pc = "acknowledge" /\ acme'[a] = "new"
        BY <1>2, <2>1, <3>1 DEF TypeInv, WorkerSound
      <3>3. acme[a] # "none"
        <4>1. Carries(w, a, TheJob(w).order) /\ TheJob(w).order \in OrderIds
          BY <3>1, <3>2, JobFacts, Rows DEF Carries, AtRecord, Challenge, TypeInv
        <4> QED BY <3>2, <4>1 DEF OwnerInv, Belongs
      <3>4. acme[a] = "new"
        BY <3>2, <3>3, AcmeKept
      <3>5. a \in txt
        BY <3>1, <3>2, <3>4 DEF RecordInv
      <3> QED BY <2>1, <3>1, <3>4, <3>5, TxtKept
    <2>2. CASE Present(w)
      BY <1>2, <2>2, PresentActs
    <2>3. CASE Finalize(w)
      BY <1>2, <2>3, FinalizeActs
    <2> QED BY <1>2, <2>1, <2>2, <2>3, Mover
  <1>3. ASSUME NEW w \in Workers, worker'[w].pc = "cleanup"
        PROVE  acme'[TheJob(w)'.payload] = "finalized"
    <2>1. CASE worker'[w] = worker[w]
      <3>1. TheJob(w)' = TheJob(w) /\ TheJob(w).payload \in AcmeIds
        BY <1>3, <2>1 DEF TheJob, TypeInv, WorkerSound
      <3> QED BY <1>3, <2>1, <3>1, AcmeKept DEF RecordInv
    <2>2. CASE Present(w)
      BY <1>3, <2>2, PresentActs
    <2>3. CASE Finalize(w)
      <3>1. TheJob(w)' = TheJob(w)
        BY <2>3, FinalizeActs DEF TheJob, Onward
      <3> QED BY <1>0, <1>3, <2>3, <3>1, FinalizeActs
    <2> QED BY <1>3, <2>1, <2>2, <2>3, Mover
  <1> QED BY <1>1, <1>2, <1>3 DEF RecordInv, RecordStaysUntilChecked

\* While the ACME server still has to look for a challenge's TXT record, no
\* dns-worker's cleanup_dns01_challenge, of whichever order and after whichever
\* crash or retry, has deleted it.
THEOREM RecordsStay == Spec => []RecordStaysUntilChecked
  <1>1. Init => RecordInv
    BY DEF Init, RecordInv, RecordStaysUntilChecked, Idle
  <1>2. TypeInv /\ TypeInv' /\ OwnerInv /\ RecordInv /\ [Next]_vars => RecordInv'
    BY RecordStep
  <1>3. RecordInv => RecordStaysUntilChecked
    BY DEF RecordInv
  <1> QED BY <1>1, <1>2, <1>3, OwnerHolds, TypesHold, PTL DEF Spec

\* The attempt by which an order is issued without a warning has no record left,
\* and neither has one that is about to be stored.
CleanInv ==
    /\ \A w \in Workers :
         worker[w].pc \in {"persist", "commit"} /\ ~worker[w].warned /\ TheJob(w).order \notin raced
           => TheJob(w).payload \notin txt
    /\ IssuedIsClean

\* Records are created for the challenge at hand only.
LEMMA TxtGrows ==
    ASSUME TypeInv, [Next]_vars, NEW a \in txt' \ txt
    PROVE  \E v \in Workers : /\ worker[v].pc = "present" /\ worker[v].acme = a
                              /\ Carries(v, a, TheJob(v).order)
                              /\ Present(v)
  <1>1. PICK v \in Workers : Onward(v)
    <2>1. CASE Aside \/ (\E o \in DOMAIN orders : Requeued(o))
      BY <2>1 DEF Aside, Requeued, extVars, Validate
    <2>2. ASSUME NEW w \in Workers, Vacant(w) \/ Saved(w) \/ Ended(w) \/ Took(w) PROVE UNCHANGED txt
      BY <2>2 DEF Vacant, Saved, Ended, Took, extVars
    <2> QED BY <2>1, <2>2, StepActs DEF Acts
  <1>2. CASE Present(v)
    BY <1>2, PresentActs DEF Carries, AtRecord
  <1>3. CASE Cleanup(v)
    BY <1>3, CleanupActs
  <1>4. CASE Prepare(v) \/ Acknowledge(v) \/ Finalize(v) \/ ReadVersion(v)
    BY <1>4, PrepareActs, AcknowledgeActs, FinalizeActs, ReadVersionActs DEF extVars
  <1> QED BY <1>1, <1>2, <1>3, <1>4 DEF Onward

LEMMA RacedGrows ==
    ASSUME TypeInv, [Next]_vars
    PROVE  raced \subseteq raced'
  BY StepActs DEF Aside, Requeued, Acts, Vacant, Onward, Saved, Ended, Took

\* How an order comes to be issued.
LEMMA RowsIssued ==
    ASSUME TypeInv, HeldInv, [Next]_vars, NEW o \in DOMAIN orders', o \notin raced',
           orders'[o].status = "issued"
    PROVE  \/ /\ o \in DOMAIN orders /\ orders[o].status = "issued"
              /\ orders'[o].payload = orders[o].payload /\ orders'[o].warned = orders[o].warned
           \/ \E w \in Workers : /\ worker[w].pc = "commit" /\ o = TheJob(w).order
                                 /\ o \in DOMAIN orders
                                 /\ UNCHANGED <<raced, extVars>>
                                 /\ orders'[o].payload = orders[o].payload
                                 /\ orders'[o].warned = worker[w].warned
  <1> DEFINE Same == /\ o \in DOMAIN orders /\ orders[o].status = "issued"
                     /\ orders'[o].payload = orders[o].payload
                     /\ orders'[o].warned = orders[o].warned
              Committed(w) == /\ worker[w].pc = "commit" /\ o = TheJob(w).order
                              /\ o \in DOMAIN orders
                              /\ UNCHANGED <<raced, extVars>>
                              /\ orders'[o].payload = orders[o].payload
                              /\ orders'[o].warned = worker[w].warned
  <1>0. o \notin raced
    BY RacedGrows
  <1>1. ASSUME o \in DOMAIN orders, orders'[o] = orders[o] PROVE Same
    BY <1>1
  <1>2. ASSUME Aside \/ \E w \in Workers : Vacant(w) PROVE Same
    <2>1. Steady({}) /\ Fresh
      BY <1>2 DEF Aside, Vacant
    <2>2. o \in DOMAIN orders
      BY <2>1 DEF Fresh
    <2> QED BY <2>1, <2>2 DEF Steady
  <1>3. ASSUME NEW q \in DOMAIN orders, Requeued(q) PROVE Same
    BY <1>1, <1>3 DEF Requeued, Only
  <1>4. ASSUME NEW w \in Workers, Onward(w) PROVE Same
    BY <1>1, <1>4 DEF Onward
  <1>5. ASSUME NEW w \in Workers, Saved(w) PROVE Same
    <2>1. o # TheJob(w).order
      <3>1. worker[w].pc \in Challenge
        BY <1>5 DEF Saved, Challenge
      <3>2. ASSUME o = TheJob(w).order PROVE FALSE
        BY <1>0, <1>5, <3>1, <3>2, AtHand DEF Saved, Marked
      <3> QED BY <3>2
    <2> QED BY <1>1, <1>5, <2>1 DEF Saved, Only
  <1>6. ASSUME NEW w \in Workers, Took(w) PROVE Same
    BY <1>1, <1>6, TookFacts
  <1>7. ASSUME NEW w \in Workers, Ended(w)
        PROVE  Same \/ Committed(w)
    <2>1. CASE o # TheJob(w).order
      BY <1>1, <1>7, <2>1, EndedFacts DEF Only
    <2>2. CASE o = TheJob(w).order
      <3>1. /\ worker[w].pc = "commit"
            /\ Stored(w, TheJob(w).order, TheOrder(w).cert, worker[w].version)
        BY <1>7, <2>2 DEF Ended
      <3>2. orders'[o].warned = worker[w].warned
        BY <2>2, <3>1, Zenon DEF Stored
      <3> QED BY <1>7, <2>2, <3>1, <3>2, EndedFacts
    <2> QED BY <2>1, <2>2
  <1> HIDE DEF Same, Committed
  <1>8. ASSUME NEW w \in Workers, Acts(w) PROVE Same \/ Committed(w)
    BY <1>2, <1>4, <1>5, <1>6, <1>7, <1>8 DEF Acts
  <1>9. Same \/ \E w \in Workers : Committed(w)
    BY <1>2, <1>3, <1>8, StepActs
  <1> QED BY <1>9, Zenon DEF Same, Committed

LEMMA Persisting ==
    ASSUME TypeInv, TypeInv', [Next]_vars, NEW w \in Workers,
           worker'[w].pc \in {"persist", "commit"}
    PROVE  worker'[w] = worker[w] \/ Cleanup(w) \/ ReadVersion(w)
  <1>1. CASE Aside \/ (\E o \in DOMAIN orders : Requeued(o))
    BY <1>1 DEF Aside, Requeued
  <1>2. ASSUME NEW v \in Workers, Acts(v), v # w PROVE worker'[w] = worker[w]
    BY <1>2, TookFacts DEF Acts, Vacant, Onward, Saved, Ended, Others
  <1>3. CASE Vacant(w)
    BY <1>3, VacantFacts DEF Challenge, Issuance
  <1>4. CASE Saved(w) \/ Ended(w) \/ Took(w)
    BY <1>4, EndedFacts, TookFacts DEF Saved
  <1>5. CASE Onward(w)
    BY <1>5, PrepareActs, PresentActs, AcknowledgeActs, FinalizeActs DEF Onward
  <1> QED BY <1>1, <1>2, <1>3, <1>4, <1>5, StepActs DEF Acts

LEMMA CleanStep ==
    ASSUME TypeInv, TypeInv', HeldInv, OwnerInv, CleanInv, [Next]_vars
    PROVE  CleanInv'
  <1>0. raced \subseteq raced' /\ txt' \subseteq AcmeIds
    BY RacedGrows DEF TypeInv, TypeOK
  <1>1. ASSUME NEW w \in Workers, worker'[w].pc \in {"persist", "commit"},
               ~worker'[w].warned, TheJob(w)'.order \notin raced'
        PROVE  TheJob(w)'.payload \notin txt'
    <2>1. CASE worker'[w] = worker[w]
      <3>1. TheJob(w)' = TheJob(w)
        BY <2>1 DEF TheJob
      <3>2. PICK a : a = TheJob(w).payload
        OBVIOUS
      <3>3. PICK o : o = TheJob(w).order
        OBVIOUS
      <3>4. worker[w].pc \in {"persist", "commit"} /\ o \notin raced
        BY <1>0, <1>1, <2>1, <3>1, <3>3
      <3>5. a \notin txt
        BY <1>1, <2>1, <3>2, <3>3, <3>4 DEF CleanInv
      <3>6. SUFFICES ASSUME a \in txt' PROVE FALSE
        BY <3>1, <3>2
      <3>7. PICK v \in Workers : worker[v].pc = "present" /\ Carries(v, a, TheJob(v).order)
        BY <3>5, <3>6, TxtGrows
      <3>8. v # w /\ a \in AcmeIds
        BY <1>0, <3>4, <3>6, <3>7
      <3>9. /\ TheJob(v).order \in OrderIds /\ TheJob(v).order \in Mine(v)
            /\ Belongs(a, TheJob(v).order)
        BY <3>7, JobFacts, Rows DEF Challenge, Belongs, TypeInv
      <3>10. o \in OrderIds /\ Belongs(a, o)
        <4>1. worker[w].pc \in Challenge \cup Issuance
          BY <3>4 DEF Issuance
        <4> QED BY <3>2, <3>3, <4>1, JobFacts, Rows DEF Carries, Belongs, TypeInv
      <3>11. o = TheJob(v).order
        BY <3>8, <3>9, <3>10 DEF OwnerInv
      <3>12. o \notin Mine(v)
        BY <3>3, <3>4, <3>8, AtHand DEF Issuance
      <3> QED BY <3>9, <3>11, <3>12
    <2>2. CASE Cleanup(w)
      <3>1. TheJob(w)' = TheJob(w)
        BY <2>2, CleanupActs DEF Onward, TheJob
      <3> QED BY <1>1, <2>2, <3>1, CleanupActs
    <2>3. CASE ReadVersion(w)
      <3>1. TheJob(w)' = TheJob(w) /\ UNCHANGED <<raced, txt>> /\ worker[w].pc = "persist"
            /\ worker'[w].warned = worker[w].warned
        BY <2>3, ReadVersionActs DEF Onward, TheJob, extVars
      <3> QED BY <1>1, <3>1 DEF CleanInv
    <2> QED BY <1>1, <2>1, <2>2, <2>3, Persisting
  <1>2. ASSUME NEW o \in DOMAIN orders' \ raced', orders'[o].status = "issued", ~orders'[o].warned
        PROVE  orders'[o].payload \notin txt'
    <2>1. PICK a : a = orders'[o].payload
      OBVIOUS
    <2>2. o \notin raced
      BY <1>0
    <2>3. CASE /\ o \in DOMAIN orders /\ orders[o].status = "issued"
               /\ orders'[o].payload = orders[o].payload /\ orders'[o].warned = orders[o].warned
      <3>1. a \notin txt
        BY <1>2, <2>1, <2>2, <2>3 DEF CleanInv, IssuedIsClean
      <3>2. SUFFICES ASSUME a \in txt' PROVE FALSE
        BY <2>1
      <3>3. PICK v \in Workers : worker[v].pc = "present" /\ Carries(v, a, TheJob(v).order)
        BY <3>1, <3>2, TxtGrows
      <3>4. a \in AcmeIds /\ TheJob(v).order \in OrderIds /\ Belongs(a, TheJob(v).order)
        BY <1>0, <3>2, <3>3, JobFacts, Rows DEF Challenge, Belongs, TypeInv
      <3>5. o \in OrderIds /\ Belongs(a, o)
        BY <2>1, <2>3, Rows DEF Belongs, TypeInv
      <3>6. o = TheJob(v).order
        BY <3>4, <3>5 DEF OwnerInv
      <3>7. orders[o].status = Marked(v)
        BY <2>2, <3>3, <3>6, AtHand DEF Challenge
      <3> QED BY <2>3, <3>7 DEF Marked
    <2>4. ASSUME NEW w \in Workers, worker[w].pc = "commit", o = TheJob(w).order,
                 UNCHANGED <<raced, extVars>>, orders'[o].payload = orders[o].payload,
                 orders'[o].warned = worker[w].warned
          PROVE  a \notin txt'
      <3>1. TheJob(w).payload = a
        BY <2>1, <2>2, <2>4, AtHand DEF Issuance
      <3>2. ~worker[w].warned
        BY <1>2, <2>4, Zenon
      <3> QED BY <2>2, <2>4, <3>1, <3>2 DEF CleanInv, extVars
    <2> QED BY <1>2, <2>1, <2>3, <2>4, RowsIssued
  <1> QED BY <1>1, <1>2 DEF CleanInv, IssuedIsClean

\* Once persist_issued_certificate has stored an order as issued without a
\* warning, the TXT record of the ACME order in its payload, the attempt that was
\* issued, is not at the provider and no dns-worker creates it again; orders
\* requeued in a race are excluded, records of earlier failed attempts are not
\* spoken of.
THEOREM IssuedRecordIsGone == Spec => []IssuedIsClean
  <1>1. Init => CleanInv
    BY DEF Init, CleanInv, IssuedIsClean, Idle
  <1>2. TypeInv /\ TypeInv' /\ HeldInv /\ OwnerInv /\ CleanInv /\ [Next]_vars => CleanInv'
    BY CleanStep
  <1>3. CleanInv => IssuedIsClean
    BY DEF CleanInv
  <1> QED BY <1>1, <1>2, <1>3, HeldHolds, OwnerHolds, TypesHold, PTL DEF Spec

-----------------------------------------------------------------------------
(***************************************************************************)
(* VersionsNeverClash.  The orders of one certificate come one after the   *)
(* other: all but the first are renewals, which are made once it has a     *)
(* version, and at most one renewal is active, by the unique index.        *)
(***************************************************************************)

Issuable(c) == c \in DOMAIN certs /\ Versions(c) # <<>>

\* A row that is added, and what it is added for: a new certificate, or the
\* renewal of one that a request names or that a worker found due.
Added(o) ==
    /\ o = Len(orders) + 1 /\ DOMAIN orders' = DOMAIN orders \cup {o}
    /\ orders'[o].kind = "renew" => ~RenewalActive(orders'[o].cert, NoOrder)
    /\ \/ orders'[o].cert \notin DOMAIN certs
       \/ /\ orders'[o].kind = "renew"
          /\ \/ \E a \in Admins : /\ req[a].cert = orders'[o].cert /\ req[a].cert # NoCert
                                  /\ req[a].site = orders'[o].site
             \/ \E w \in Workers : orders'[o].cert \in worker[w].due /\ orders'[o].site = NoSite

LEMMA RequestAdds ==
    ASSUME TypeInv, NEW a \in Admins, Request(a)
    PROVE  DOMAIN orders' = DOMAIN orders \/ \E o \in DOMAIN orders' : Added(o)
  <1>1. ASSUME IssueOrder(a), ~UNCHANGED orders PROVE \E o \in DOMAIN orders' : Added(o)
    <2>1. PICK c \in DOMAIN certs' :
            /\ \/ req[a].cert = NoCert /\ c \notin DOMAIN certs
               \/ req[a].cert = c /\ c \in DOMAIN certs /\ req[a].op = "renew"
            /\ Len(orders) < MaxOrders
            /\ req[a].op = "renew" => ~RenewalActive(c, NoOrder)
            /\ NewOrder(req[a].op, req[a].site, c, req[a].zone) \in Order
            /\ orders' = Append(orders, NewOrder(req[a].op, req[a].site, c, req[a].zone))
      BY <1>1, IssueFacts
    <2>2. PICK n : n = NewOrder(req[a].op, req[a].site, c, req[a].zone)
      OBVIOUS
    <2>3. n.kind = req[a].op /\ n.site = req[a].site /\ n.cert = c
      BY <2>2 DEF NewOrder
    <2>4. PICK o : o = Len(orders) + 1
      OBVIOUS
    <2>5. /\ DOMAIN orders' = DOMAIN orders \cup {o} /\ orders'[o] = n
      BY <2>1, <2>2, <2>4, RowInserted
    <2>6. c \in DOMAIN certs => c # NoCert
      BY Rows DEF TypeInv, NoCert
    <2> QED BY <2>1, <2>3, <2>4, <2>5, <2>6 DEF Added
  <1>2. ASSUME DeleteZone(a) \/ DeleteProvider(a) PROVE DOMAIN orders' = DOMAIN orders
    <2>1. \E there \in BOOLEAN : DropZone(there)
      BY <1>2 DEF DeleteZone, DeleteProvider
    <2> QED BY <2>1, DropFacts
  <1>3. ASSUME RequeueOrder(a) PROVE DOMAIN orders' = DOMAIN orders
    BY <1>3, RequeueFacts DEF Only
  <1>4. CASE \/ \E s \in Sites \cup {NoSite} : CreateOrder(a, s)
             \/ \E s \in Sites : RenewSite(a, s)
             \/ CheckRenewal(a)
    BY <1>4 DEF CreateOrder, RenewSite, CheckRenewal, dbVars
  <1>5. CASE \/ \E o \in OrderIds : RetryOrder(a, o) \/ ResetOrder(a, o)
             \/ \E usable \in BOOLEAN : SaveProvider(a, usable)
             \/ SyncZone(a) \/ SaveZone(a)
    BY <1>5 DEF RetryOrder, ResetOrder, ReadOrder, SaveProvider, SyncZone, SaveZone, dbVars
  <1>6. CASE \/ \E enable \in BOOLEAN : ReadZone(a, enable)
             \/ CheckZone(a) \/ CheckProvider(a)
    BY <1>6 DEF ReadZone, CheckZone, CheckProvider, dbVars
  <1> QED BY <1>1, <1>2, <1>3, <1>4, <1>5, <1>6 DEF Request

LEMMA InsertAdds ==
    ASSUME TypeInv, NEW w \in Workers, InsertRenewal(w), ~UNCHANGED orders
    PROVE  \E o \in DOMAIN orders' : Added(o)
  <1>1. PICK c \in worker[w].due :
          /\ ~RenewalActive(c, NoOrder) /\ Len(orders) < MaxOrders
          /\ orders' = Append(orders, NewOrder("renew", NoSite, c, zone.id))
    BY InsertFacts
  <1>2. c \in CertIds /\ zone.id \in Ids \cup {Null}
    BY WorkerFields DEF TypeInv, TypeOK
  <1>3. PICK n : n = NewOrder("renew", NoSite, c, zone.id)
    OBVIOUS
  <1>4. n \in Order /\ n.kind = "renew" /\ n.site = NoSite /\ n.cert = c
    BY <1>2, <1>3, NewOrderType DEF NewOrder
  <1>5. PICK o : o = Len(orders) + 1
    OBVIOUS
  <1>6. /\ DOMAIN orders' = DOMAIN orders \cup {o} /\ orders'[o] = n
    BY <1>1, <1>3, <1>4, <1>5, RowInserted
  <1> QED BY <1>1, <1>4, <1>5, <1>6 DEF Added

LEMMA StepAdds ==
    ASSUME TypeInv, [Next]_vars
    PROVE  DOMAIN orders' = DOMAIN orders \/ \E o \in DOMAIN orders' : Added(o)
  <1>1. ASSUME NEW w \in Workers, WorkerStep(w) \/ Crash(w)
        PROVE  DOMAIN orders' = DOMAIN orders \/ \E o \in DOMAIN orders' : Added(o)
    <2>1. CASE \/ SelectDue(w) \/ Prepare(w) \/ Present(w) \/ Acknowledge(w) \/ Finalize(w)
               \/ Cleanup(w) \/ ReadVersion(w) \/ Crash(w)
      BY <2>1 DEF SelectDue, Prepare, Present, Acknowledge, Finalize, Cleanup, ReadVersion, Crash
    <2>2. CASE InsertRenewal(w)
      BY <2>2, InsertAdds
    <2>3. ASSUME ClaimPending(w) \/ ClaimReady(w) PROVE DOMAIN orders' = DOMAIN orders
      BY <2>3, ClaimActs, TookFacts
    <2>4. ASSUME SavePayload(w) PROVE DOMAIN orders' = DOMAIN orders
      BY <2>4, SavePayloadActs DEF Saved, Only
    <2>5. ASSUME EndChallenge(w) PROVE DOMAIN orders' = DOMAIN orders
      <3>1. /\ worker[w].pc \in Challenge
            /\ UNCHANGED orders \/ \E s \in Statuses : SetStatus(TheJob(w).order, s)
        BY <2>5 DEF EndChallenge, Challenge, Statuses, ActiveStatuses, FailedStatuses
      <3> QED BY <3>1, JobFacts, StatusSet DEF Only
    <2>6. ASSUME FailIssue(w) PROVE DOMAIN orders' = DOMAIN orders
      BY <2>6, FailIssueActs, EndedFacts DEF Only
    <2>7. ASSUME Commit(w) PROVE DOMAIN orders' = DOMAIN orders
      BY <2>7, CommitFacts DEF Stored, Only
    <2> QED BY <1>1, <2>1, <2>2, <2>3, <2>4, <2>5, <2>6, <2>7 DEF WorkerStep
  <1>2. CASE (\E a \in AcmeIds : Validate(a)) \/ (\E c \in CertIds : ComesDue(c)) \/ UNCHANGED vars
    BY <1>2 DEF Validate, ComesDue, vars, dbVars
  <1> QED BY <1>1, <1>2, RequestAdds DEF Next

\* A new version, and what comes with it; nothing else touches the versions.
Committed(w) == /\ worker[w].pc = "commit" /\ Ended(w)
                /\ Len(Versions(TheOrder(w).cert)) < worker[w].version
                /\ Stored(w, TheJob(w).order, TheOrder(w).cert, worker[w].version)

StillActive == \A c \in DOMAIN certs' : certs'[c].active => c \in DOMAIN certs /\ certs[c].active

LEMMA StepActive ==
    ASSUME TypeInv, [Next]_vars
    PROVE  StillActive \/ \E w \in Workers : Commit(w) /\ ~UNCHANGED certs
  <1>1. CASE UNCHANGED certs
    BY <1>1 DEF StillActive
  <1>2. ASSUME NEW a \in Admins, IssueOrder(a) PROVE StillActive
    BY <1>2, IssueFacts, Zenon DEF StillActive
  <1>3. ASSUME NEW c \in CertIds, ComesDue(c) PROVE StillActive
    <2>1. c \in DOMAIN certs /\ certs' = [certs EXCEPT ![c].due = TRUE] /\ certs[c] \in Cert
      BY <1>3, Rows DEF ComesDue, TypeInv
    <2>2. [certs[c] EXCEPT !.due = TRUE].active = certs[c].active
      BY <2>1, Zenon DEF Cert
    <2> QED BY <2>1, <2>2 DEF StillActive
  <1>4. CASE \E a \in Admins : Request(a) /\ ~IssueOrder(a)
    <2>1. PICK a \in Admins : Request(a) /\ ~IssueOrder(a)
      BY <1>4
    <2>2. CASE \/ \E s \in Sites \cup {NoSite} : CreateOrder(a, s)
               \/ \E s \in Sites : RenewSite(a, s)
               \/ CheckRenewal(a) \/ DeleteZone(a) \/ DeleteProvider(a) \/ RequeueOrder(a)
      BY <1>1, <2>2 DEF CreateOrder, RenewSite, CheckRenewal, DeleteZone, DeleteProvider,
                        RequeueOrder, dbVars
    <2>3. CASE \/ \E o \in OrderIds : RetryOrder(a, o) \/ ResetOrder(a, o)
               \/ \E usable \in BOOLEAN : SaveProvider(a, usable)
               \/ SyncZone(a) \/ SaveZone(a)
      BY <1>1, <2>3 DEF RetryOrder, ResetOrder, ReadOrder, SaveProvider, SyncZone, SaveZone, dbVars
    <2>4. CASE \/ \E enable \in BOOLEAN : ReadZone(a, enable)
               \/ CheckZone(a) \/ CheckProvider(a)
      BY <1>1, <2>4 DEF ReadZone, CheckZone, CheckProvider, dbVars
    <2> QED BY <2>1, <2>2, <2>3, <2>4 DEF Request
  <1>5. ASSUME NEW w \in Workers, WorkerStep(w) \/ Crash(w) PROVE UNCHANGED certs \/ Commit(w)
    BY <1>5 DEF WorkerStep, SelectDue, InsertRenewal, ClaimPending, Prepare, Present, Acknowledge,
                SavePayload, EndChallenge, ClaimReady, Finalize, Cleanup, ReadVersion, FailIssue,
                Crash
  <1>6. CASE (\E a \in AcmeIds : Validate(a)) \/ UNCHANGED vars
    BY <1>1, <1>6 DEF Validate, vars, dbVars
  <1> QED BY <1>1, <1>2, <1>3, <1>4, <1>5, <1>6 DEF Next

LEMMA StepCerts ==
    ASSUME TypeInv, [Next]_vars
    PROVE  \/ SameVersions /\ StillActive /\ UNCHANGED bound
           \/ \E w \in Workers : Committed(w)
  <1>2. ASSUME NEW w \in Workers, Commit(w), ~UNCHANGED certs PROVE Committed(w)
    <2>1. /\ worker[w].pc = "commit" /\ NextJob(w, "finalize", "select")
          /\ Len(Versions(TheOrder(w).cert)) < worker[w].version
          /\ Stored(w, TheJob(w).order, TheOrder(w).cert, worker[w].version)
      BY <1>2, CommitFacts DEF Commit, At
    <2>3. Ended(w)
      <3>1. CASE Vacant(w)
        <4>1. SameVersions
          BY <3>1 DEF Vacant
        <4>2. PICK c : c = TheOrder(w).cert
          OBVIOUS
        <4>3. c \in DOMAIN certs /\ Versions(c) \in Seq(OrderIds) /\ TheJob(w).order \in OrderIds
          BY <2>1, <4>2, JobFacts, Rows DEF Issuance, TypeInv, TablesSound, Versions, Cert
        <4>4. certs'[c].versions = Append(Versions(c), TheJob(w).order)
          BY <2>1, <4>2 DEF Stored
        <4>5. certs'[c].versions = Versions(c)
          BY <4>1, <4>3 DEF SameVersions, Versions
        <4>6. Len(Append(Versions(c), TheJob(w).order)) = Len(Versions(c)) + 1 /\ Len(Versions(c)) \in Nat
          BY <4>3
        <4> QED BY <4>4, <4>5, <4>6
      <3> QED BY <1>2, <3>1, CommitActs
    <2> QED BY <2>1, <2>3 DEF Committed
  <1>3. ASSUME NEW w \in Workers, Acts(w)
        PROVE  (SameVersions /\ UNCHANGED bound) \/ \E v \in Workers : Committed(v)
    <2>1. CASE Vacant(w)
      BY <2>1 DEF Vacant
    <2>2. CASE Onward(w) \/ Saved(w) \/ Took(w)
      BY <2>2, Still DEF Onward, Saved, Took
    <2>3. CASE Ended(w)
      <3>1. CASE UNCHANGED <<certs, bound>>
        BY <3>1, Still
      <3> QED BY <2>3, <3>1 DEF Ended, Committed
    <2> QED BY <1>3, <2>1, <2>2, <2>3 DEF Acts
  <1>4. (SameVersions /\ UNCHANGED bound) \/ \E v \in Workers : Committed(v)
    <2>1. CASE Aside
      BY <2>1 DEF Aside
    <2>2. CASE \E o \in DOMAIN orders : Requeued(o)
      BY <2>2, Still DEF Requeued
    <2> QED BY <1>3, <2>1, <2>2, StepActs
  <1> QED BY <1>2, <1>4, StepActive

\* What a request knows of a certificate: what it knew, or what is bound to its
\* site.
LEMMA StepRequests ==
    ASSUME TypeInv, [Next]_vars, NEW a \in Admins, req'[a].cert # NoCert
    PROVE  \/ req'[a].cert = req[a].cert /\ req'[a].site = req[a].site
           \/ /\ req'[a].site \in Sites
              /\ \E b \in bound[req'[a].site] : b.cert = req'[a].cert
  <1> DEFINE Same == req'[a].cert = req[a].cert /\ req'[a].site = req[a].site
             Found == /\ req'[a].site \in Sites
                      /\ \E b \in bound[req'[a].site] : b.cert = req'[a].cert
  <1>1. CASE UNCHANGED req
    BY <1>1
  <1>2. ASSUME NEW b \in Admins, NEW r, Then(b, r), b = a => r.cert = NoCert PROVE Same
    BY <1>2 DEF Then, TypeInv, TypeOK
  <1>3. NoRequest.cert = NoCert
    BY DEF NoRequest
  <1>4. ASSUME NEW b \in Admins, Finish(b) PROVE Same
    BY <1>2, <1>3, <1>4 DEF Finish
  <1>5. ASSUME NEW b \in Admins, NEW s \in Sites, RenewSite(b, s) PROVE Same \/ Found
    <2>1. PICK c \in IF SiteCertificates(s) = {} THEN {NoCert} ELSE SiteCertificates(s) :
            Then(b, [NoRequest EXCEPT !.op = "check", !.site = s, !.cert = c])
      BY <1>5 DEF RenewSite
    <2>2. PICK r : r = [NoRequest EXCEPT !.op = "check", !.site = s, !.cert = c]
      OBVIOUS
    <2>3. r.cert = c /\ r.site = s
      BY <2>2 DEF NoRequest
    <2>4. req' = [req EXCEPT ![b] = r] /\ req \in [Admins -> AdminState]
      BY <2>1, <2>2 DEF Then, TypeInv, TypeOK
    <2>5. CASE b # a
      BY <2>4, <2>5
    <2>6. CASE b = a
      <3>1. req'[a].cert = c /\ req'[a].site = s
        BY <2>3, <2>4, <2>6
      <3>2. c \in SiteCertificates(s)
        BY <2>1, <3>1
      <3> QED BY <3>1, <3>2 DEF SiteCertificates
    <2> QED BY <2>5, <2>6
  <1>6. ASSUME NEW b \in Admins, CheckRenewal(b) PROVE Same
    <2>1. CASE Finish(b)
      BY <1>4, <2>1
    <2>2. CASE Then(b, [req[b] EXCEPT !.op = "renew", !.zone = zone.id])
      <3>1. PICK r : r = [req[b] EXCEPT !.op = "renew", !.zone = zone.id]
        OBVIOUS
      <3>2. r.cert = req[b].cert /\ r.site = req[b].site
        BY <3>1 DEF TypeInv, TypeOK, AdminState
      <3>3. req' = [req EXCEPT ![b] = r] /\ req \in [Admins -> AdminState]
        BY <2>2, <3>1 DEF Then, TypeInv, TypeOK
      <3>4. CASE b # a
        BY <3>3, <3>4
      <3>5. CASE b = a
        BY <3>2, <3>3, <3>5
      <3> QED BY <3>4, <3>5
    <2> QED BY <1>6, <2>1, <2>2 DEF CheckRenewal
  <1>7. ASSUME NEW b \in Admins, Request(b) PROVE Same \/ Found
    <2>1. CASE IssueOrder(b) \/ RequeueOrder(b) \/ SaveZone(b) \/ DeleteZone(b) \/ DeleteProvider(b)
      BY <1>4, <2>1 DEF IssueOrder, RequeueOrder, SaveZone, DeleteZone, DeleteProvider
    <2>2. ASSUME NEW s \in Sites \cup {NoSite}, CreateOrder(b, s) PROVE Same
      <3>1. Then(b, [NoRequest EXCEPT !.op = "issue", !.site = s, !.zone = zone.id])
        BY <2>2 DEF CreateOrder
      <3>2. [NoRequest EXCEPT !.op = "issue", !.site = s, !.zone = zone.id].cert = NoCert
        BY DEF NoRequest
      <3> QED BY <1>2, <3>1, <3>2
    <2>3. ASSUME NEW o \in OrderIds, RetryOrder(b, o) \/ ResetOrder(b, o) PROVE Same
      <3>1. Then(b, [NoRequest EXCEPT !.op = "requeue", !.order = o, !.read = <<orders[o]>>])
        BY <2>3 DEF RetryOrder, ResetOrder, ReadOrder
      <3>2. [NoRequest EXCEPT !.op = "requeue", !.order = o, !.read = <<orders[o]>>].cert = NoCert
        BY DEF NoRequest
      <3> QED BY <1>2, <3>1, <3>2
    <2>4. CASE (\E usable \in BOOLEAN : SaveProvider(b, usable)) \/ SyncZone(b)
      BY <1>1, <2>4 DEF SaveProvider, SyncZone
    <2>5. ASSUME NEW enable \in BOOLEAN, ReadZone(b, enable) PROVE Same
      <3>1. Then(b, [NoRequest EXCEPT !.op = "zone", !.enable = enable, !.zone = zone.id,
                                      !.provider = provider.id])
        BY <2>5 DEF ReadZone
      <3>2. [NoRequest EXCEPT !.op = "zone", !.enable = enable, !.zone = zone.id,
                              !.provider = provider.id].cert = NoCert
        BY DEF NoRequest
      <3> QED BY <1>2, <3>1, <3>2
    <2>6. ASSUME CheckZone(b) PROVE Same
      <3>1. Then(b, [NoRequest EXCEPT !.op = "delete_zone", !.zone = zone.id])
        BY <2>6 DEF CheckZone
      <3>2. [NoRequest EXCEPT !.op = "delete_zone", !.zone = zone.id].cert = NoCert
        BY DEF NoRequest
      <3> QED BY <1>2, <3>1, <3>2
    <2>7. ASSUME CheckProvider(b) PROVE Same
      <3>1. Then(b, [NoRequest EXCEPT !.op = "delete_provider", !.provider = provider.id])
        BY <2>7 DEF CheckProvider
      <3>2. [NoRequest EXCEPT !.op = "delete_provider", !.provider = provider.id].cert = NoCert
        BY DEF NoRequest
      <3> QED BY <1>2, <3>1, <3>2
    <2> HIDE DEF Same, Found
    <2> QED BY <1>5, <1>6, <1>7, <2>1, <2>2, <2>3, <2>4, <2>5, <2>6, <2>7 DEF Request
  <1>8. ASSUME NEW w \in Workers, WorkerStep(w) \/ Crash(w) PROVE UNCHANGED req
    BY <1>8 DEF WorkerStep, SelectDue, InsertRenewal, ClaimPending, Prepare, Present, Acknowledge,
                SavePayload, EndChallenge, ClaimReady, Finalize, Cleanup, ReadVersion, Commit,
                FailIssue, Crash, OutsideWorker
  <1>9. CASE (\E i \in AcmeIds : Validate(i)) \/ (\E c \in CertIds : ComesDue(c)) \/ UNCHANGED vars
    BY <1>1, <1>9 DEF Validate, ComesDue, vars
  <1> QED BY <1>1, <1>7, <1>8, <1>9 DEF Next

\* What a worker means to renew: what it meant to, or an active certificate.
LEMMA StepDue ==
    ASSUME TypeInv, [Next]_vars, NEW w \in Workers, NEW c \in worker'[w].due
    PROVE  c \in worker[w].due \/ (c \in DOMAIN certs /\ certs[c].active)
  <1>1. CASE worker'[w] = worker[w]
    BY <1>1
  <1>2. CASE Vacant(w)
    BY <1>2 DEF Vacant
  <1>3. CASE Onward(w) \/ Saved(w) \/ Ended(w)
    BY <1>3 DEF Onward, Saved, Ended
  <1>4. CASE Took(w)
    BY <1>4 DEF Took, Claimed
  <1>5. ASSUME NEW v \in Workers, Acts(v), v # w PROVE worker'[w] = worker[w]
    BY <1>5, TookFacts DEF Acts, Vacant, Onward, Saved, Ended, Others
  <1> QED BY <1>1, <1>2, <1>3, <1>4, <1>5, StepActs DEF Acts, Aside, Requeued

\* At most one order becomes active, and a renewal only as the only one.
StaysActive(o) == orders'[o].status \in ActiveStatuses =>
                    o \in DOMAIN orders /\ orders[o].status \in ActiveStatuses

LEMMA StepStatus ==
    ASSUME TypeInv, [Next]_vars
    PROVE  \E q \in Nat :
             /\ \A o \in DOMAIN orders' \ {q} : StaysActive(o)
             /\ q \in DOMAIN orders' /\ ~StaysActive(q) /\ orders'[q].kind = "renew"
                  => ~RenewalActive(orders'[q].cert, q)
  <1> DEFINE Sole(q) == /\ \A o \in DOMAIN orders' \ {q} : StaysActive(o)
                        /\ q \in DOMAIN orders' /\ ~StaysActive(q) /\ orders'[q].kind = "renew"
                             => ~RenewalActive(orders'[q].cert, q)
             Enters(q) == \/ orders'[q].status \in ActiveStatuses => orders[q].status \in ActiveStatuses
                          \/ orders[q].kind = "renew" => ~RenewalActive(orders[q].cert, q)
  <1>1. RowsKept /\ TypeOK /\ DOMAIN orders \subseteq Nat
    BY StepKeeps, Rows DEF TypeInv
  <1>2. ASSUME Steady({}) PROVE \A o \in DOMAIN orders : StaysActive(o)
    BY <1>2 DEF Steady, StaysActive
  <1>3. ASSUME Steady({}), DOMAIN orders' = DOMAIN orders PROVE \A o \in DOMAIN orders' : StaysActive(o)
    BY <1>2, <1>3
  <1>4. ASSUME Steady({}), NEW q \in DOMAIN orders', Added(q)
        PROVE  q \in Nat /\ Sole(q)
    <2>1. q \in Nat
      BY <1>1, <1>4, Rows DEF Added
    <2>2. \A o \in DOMAIN orders' \ {q} : StaysActive(o)
      BY <1>2, <1>4 DEF Added
    <2>3. orders'[q].kind = "renew" => ~RenewalActive(orders'[q].cert, q)
      <3>1. NoOrder \notin DOMAIN orders
        BY <1>1, Rows DEF NoOrder
      <3> QED BY <1>4, <3>1 DEF Added, RenewalActive
    <2> QED BY <2>1, <2>2, <2>3
  <1>5. ASSUME NEW q \in DOMAIN orders, Only(q),
               Enters(q)
        PROVE  q \in Nat /\ Sole(q)
    BY <1>1, <1>5 DEF Only, StaysActive, RowsKept
  <1>6. ASSUME Aside \/ \E w \in Workers : Vacant(w) PROVE Steady({})
    BY <1>6 DEF Aside, Vacant
  <1>7. ASSUME NEW q \in DOMAIN orders, Requeued(q) PROVE Only(q) /\ Enters(q)
    BY <1>7 DEF Requeued
  <1>8. ASSUME NEW w \in Workers, Onward(w) PROVE Steady({}) /\ DOMAIN orders' = DOMAIN orders
    BY <1>8, Still DEF Onward
  <1>9. ASSUME NEW w \in Workers, Saved(w) \/ Ended(w)
        PROVE  \E q \in DOMAIN orders : Only(q) /\ Enters(q)
    <2>1. CASE Saved(w)
      BY <2>1 DEF Saved
    <2>2. CASE Ended(w)
      <3>1. PICK q : q = TheJob(w).order
        OBVIOUS
      <3>2. q \in DOMAIN orders /\ Only(q) /\ TheOrder(w) = orders[q]
        BY <2>2, <3>1 DEF Ended, TheOrder
      <3>3. orders'[q].status \in ActiveStatuses =>
              (orders[q].kind = "renew" => ~RenewalActive(orders[q].cert, q))
        BY <2>2, <3>1, <3>2 DEF Ended, Stored, ActiveStatuses
      <3> QED BY <3>2, <3>3
    <2> QED BY <1>9, <2>1, <2>2
  <1>10. ASSUME NEW w \in Workers, Took(w) PROVE \A o \in DOMAIN orders' : StaysActive(o)
    <2>1. ASSUME NEW from \in ActiveStatuses, NEW to, NEW first, NEW next, NEW jobs \in Seq(Job),
                 Claimed(w, from, to, first, next, jobs)
          PROVE  \A o \in DOMAIN orders' : StaysActive(o)
      <3>1. /\ \A j \in DOMAIN jobs : orders[jobs[j].order].status = from
            /\ DOMAIN orders' = DOMAIN orders
            /\ \A o \in DOMAIN orders :
                 orders'[o] = IF \E j \in DOMAIN jobs : jobs[j].order = o
                                THEN [orders[o] EXCEPT !.status = to] ELSE orders[o]
        BY <2>1 DEF Claimed
      <3> QED BY <3>1 DEF StaysActive
    <2>2. {"pending_dns_challenge", "dns_challenge_presented"} \subseteq ActiveStatuses
      BY DEF ActiveStatuses
    <2> QED BY <1>10, <2>1, <2>2 DEF Took
  <1>11. ASSUME \A o \in DOMAIN orders' : StaysActive(o)
         PROVE  0 \in Nat /\ Sole(0)
    BY <1>1, <1>11 DEF RowsKept
  <1> SUFFICES \E q \in Nat : Sole(q)
    OBVIOUS
  <1> HIDE DEF Sole, Enters
  <1>12. CASE Aside \/ \E w \in Workers : Vacant(w) \/ Onward(w)
    <2>1. Steady({})
      BY <1>6, <1>8, <1>12
    <2>2. CASE DOMAIN orders' = DOMAIN orders
      BY <1>3, <1>11, <2>1, <2>2
    <2>3. CASE \E q \in DOMAIN orders' : Added(q)
      BY <1>4, <2>1, <2>3
    <2> QED BY <2>2, <2>3, StepAdds
  <1>13. CASE \E q \in DOMAIN orders : Requeued(q)
    BY <1>1, <1>5, <1>7, <1>13
  <1>14. ASSUME NEW w \in Workers, Saved(w) \/ Ended(w) PROVE \E q \in Nat : Sole(q)
    BY <1>5, <1>9, <1>14
  <1>15. CASE \E w \in Workers : Took(w)
    BY <1>10, <1>11, <1>15
  <1> QED BY <1>12, <1>13, <1>14, <1>15, StepActs DEF Acts

\* One of the versions of c came from o.
From(o, c) == \E k \in DOMAIN Versions(c) : Versions(c)[k] = o

LEMMA CommittedVersions ==
    ASSUME TypeInv, NEW w \in Workers, Committed(w)
    PROVE  \E o \in DOMAIN orders, c \in DOMAIN certs :
             /\ o = TheJob(w).order /\ c = orders[o].cert /\ c = TheOrder(w).cert
             /\ Issuable(c)' /\ From(o, c)'
             /\ \A p : From(p, c) => From(p, c)'
             /\ \A d \in DOMAIN certs \ {c} : certs'[d] = certs[d]
             /\ DOMAIN certs' = DOMAIN certs
  <1>1. PICK o : o = TheJob(w).order
    OBVIOUS
  <1>2. PICK c : c = TheOrder(w).cert
    OBVIOUS
  <1>3. /\ o \in DOMAIN orders /\ c = orders[o].cert /\ c \in DOMAIN certs
        /\ o \in OrderIds /\ Versions(c) \in Seq(OrderIds)
    BY <1>1, <1>2, JobFacts, Rows DEF Committed, Issuance, TypeInv, TablesSound, Versions, Cert
  <1>4. /\ Stored(w, o, c, worker[w].version)
    BY <1>1, <1>2 DEF Committed
  <1>5. PICK q : q = Versions(c)
    OBVIOUS
  <1>6. /\ certs'[c].versions = Append(q, o) /\ DOMAIN certs' = DOMAIN certs
        /\ \A d \in DOMAIN certs \ {c} : certs'[d] = certs[d]
    BY <1>4, <1>5 DEF Stored
  <1>7. PICK r : r = Append(q, o)
    OBVIOUS
  <1>8. /\ Len(q) \in Nat /\ DOMAIN q = 1..Len(q) /\ DOMAIN r = 1..Len(q) + 1
        /\ r[Len(q) + 1] = o /\ \A k \in 1..Len(q) : r[k] = q[k]
        /\ Len(r) = Len(q) + 1
    BY <1>3, <1>5, <1>7, AppendProperties
  <1>9. r # <<>> /\ Len(q) + 1 \in DOMAIN r /\ \A k \in DOMAIN q : k \in DOMAIN r /\ r[k] = q[k]
    BY <1>8
  <1>10. Issuable(c)' /\ From(o, c)'
    BY <1>3, <1>6, <1>7, <1>8, <1>9 DEF Issuable, From, Versions
  <1>11. ASSUME NEW p, From(p, c) PROVE From(p, c)'
    BY <1>5, <1>6, <1>7, <1>9, <1>11 DEF From, Versions
  <1> QED BY <1>1, <1>2, <1>3, <1>6, <1>10, <1>11

\* Versions stay; a certificate gets its first one from an order of its own.
LEMMA StepVersions ==
    ASSUME TypeInv, [Next]_vars
    PROVE  /\ \A c : Issuable(c) => Issuable(c)'
           /\ \A c \in DOMAIN certs : \A p : From(p, c) => From(p, c)'
           /\ \A c : Issuable(c)' =>
                \/ Issuable(c)
                \/ \E o \in DOMAIN orders : orders[o].cert = c /\ From(o, c)'
  <1>1. DOMAIN certs \subseteq DOMAIN certs'
    BY StepKeeps DEF CertsKept
  <1>2. CASE SameVersions
    BY <1>1, <1>2 DEF SameVersions, Issuable, From, Versions
  <1>3. CASE \E w \in Workers : Committed(w)
    <2>1. PICK o \in DOMAIN orders, c \in DOMAIN certs :
             /\ c = orders[o].cert
             /\ Issuable(c)' /\ From(o, c)'
             /\ \A p : From(p, c) => From(p, c)'
             /\ \A d \in DOMAIN certs \ {c} : certs'[d] = certs[d]
             /\ DOMAIN certs' = DOMAIN certs
      BY <1>3, CommittedVersions
    <2>2. \A d : d # c => (Issuable(d)' <=> Issuable(d))
      BY <2>1 DEF Issuable, Versions
    <2>3. \A d \in DOMAIN certs : d # c => \A p : From(p, d) => From(p, d)'
      BY <2>1 DEF From, Versions
    <2> QED BY <2>1, <2>2, <2>3
  <1> QED BY <1>2, <1>3, StepCerts

LineInv ==
    /\ \A o, p \in DOMAIN orders :
         o < p /\ orders[o].cert = orders[p].cert =>
           orders[p].kind = "renew" /\ Issuable(orders[p].cert)
    /\ \A o \in DOMAIN orders :
         orders[o].kind = "issue" /\ Issuable(orders[o].cert) => From(o, orders[o].cert)
    /\ \A c \in DOMAIN certs : certs[c].active => Issuable(c)
    /\ \A w \in Workers : \A c \in worker[w].due : Issuable(c)
    /\ \A s \in Sites : \A b \in bound[s] : Issuable(b.cert)
    /\ \A a \in Admins : req[a].cert # NoCert => Issuable(req[a].cert)

OneRenewal ==
    \A o, p \in DOMAIN orders :
      /\ orders[o].kind = "renew" /\ orders[p].kind = "renew"
      /\ orders[o].cert = orders[p].cert
      /\ orders[o].status \in ActiveStatuses /\ orders[p].status \in ActiveStatuses
      => o = p

LEMMA RenewalStep ==
    ASSUME TypeInv, OneRenewal, [Next]_vars
    PROVE  OneRenewal'
  <1>1. RowsKept
    BY StepKeeps
  <1>2. PICK q \in Nat :
             /\ \A o \in DOMAIN orders' \ {q} : StaysActive(o)
             /\ q \in DOMAIN orders' /\ ~StaysActive(q) /\ orders'[q].kind = "renew"
                  => ~RenewalActive(orders'[q].cert, q)
    BY StepStatus
  <1>3. SUFFICES ASSUME NEW o \in DOMAIN orders', NEW p \in DOMAIN orders', o # p,
                        orders'[o].kind = "renew", orders'[p].kind = "renew",
                        orders'[o].cert = orders'[p].cert,
                        orders'[o].status \in ActiveStatuses, orders'[p].status \in ActiveStatuses
                 PROVE  FALSE
    BY DEF OneRenewal
  <1>4. CASE StaysActive(o) /\ StaysActive(p)
    BY <1>1, <1>3, <1>4 DEF StaysActive, RowsKept, OneRenewal
  <1>5. ASSUME NEW i \in DOMAIN orders', i # q, orders'[i].cert = orders'[q].cert,
               orders'[i].kind = "renew", orders'[i].status \in ActiveStatuses
        PROVE  RenewalActive(orders'[q].cert, q)
    <2>1. i \in DOMAIN orders /\ orders[i].status \in ActiveStatuses
      BY <1>2, <1>5 DEF StaysActive
    <2> QED BY <1>1, <1>5, <2>1 DEF RowsKept, RenewalActive
  <1>6. CASE ~StaysActive(o)
    BY <1>2, <1>3, <1>5, <1>6
  <1>7. CASE ~StaysActive(p)
    BY <1>2, <1>3, <1>5, <1>7
  <1> QED BY <1>4, <1>6, <1>7

LEMMA LineStep ==
    ASSUME TypeInv, TypeInv', LineInv, [Next]_vars
    PROVE  LineInv'
  <1>1. /\ RowsKept /\ CertsKept /\ DOMAIN orders \subseteq Nat
        /\ \A o \in DOMAIN orders : orders[o].cert \in DOMAIN certs
    BY StepKeeps, Rows DEF TypeInv, TablesSound
  <1>2. /\ \A c : Issuable(c) => Issuable(c)'
        /\ \A c \in DOMAIN certs : \A p : From(p, c) => From(p, c)'
        /\ \A c : Issuable(c)' => \/ Issuable(c)
                                  \/ \E o \in DOMAIN orders : orders[o].cert = c /\ From(o, c)'
    BY StepVersions
  <1>3. ASSUME NEW o \in DOMAIN orders', o \notin DOMAIN orders
        PROVE  /\ \A p \in DOMAIN orders' : p # o => p \in DOMAIN orders /\ p < o
               /\ \/ orders'[o].cert \notin DOMAIN certs
                  \/ orders'[o].kind = "renew" /\ Issuable(orders'[o].cert)
    <2>1. Added(o)
      BY <1>3, StepAdds DEF Added
    <2>2. \A p \in DOMAIN orders : p < o
      BY <2>1, Rows DEF Added, TypeInv
    <2> QED BY <2>1, <2>2 DEF Added, LineInv
  <1>4. ASSUME NEW o \in DOMAIN orders', NEW p \in DOMAIN orders', o < p,
               orders'[o].cert = orders'[p].cert, NEW c, c = orders'[p].cert
        PROVE  orders'[p].kind = "renew" /\ Issuable(c)'
    <2>1. o \in DOMAIN orders
      BY <1>1, <1>3, <1>4 DEF RowsKept
    <2>3. orders'[p].kind = "renew" /\ Issuable(c)
      <3>1. CASE p \in DOMAIN orders
        BY <1>1, <1>4, <2>1, <3>1 DEF RowsKept, LineInv
      <3>2. CASE p \notin DOMAIN orders
        BY <1>1, <1>3, <1>4, <2>1, <3>2 DEF RowsKept
      <3> QED BY <3>1, <3>2
    <2> QED BY <1>2, <2>3
  <1>5. ASSUME NEW o \in DOMAIN orders', orders'[o].kind = "issue", NEW c, c = orders'[o].cert, Issuable(c)'
        PROVE  From(o, c)'
    <2>1. CASE o \in DOMAIN orders
      <3>1. orders[o].kind = "issue" /\ c = orders[o].cert /\ c \in DOMAIN certs
        BY <1>1, <1>5, <2>1 DEF RowsKept
      <3>2. CASE Issuable(c)
        BY <1>2, <2>1, <3>1, <3>2 DEF LineInv
      <3>3. ASSUME ~Issuable(c), NEW q \in DOMAIN orders, orders[q].cert = c, From(q, c)' PROVE From(o, c)'
        <4>1. ~(q < o) /\ ~(o < q) /\ o \in Nat /\ q \in Nat
          BY <1>1, <2>1, <3>1, <3>3 DEF LineInv
        <4> QED BY <3>3, <4>1
      <3> QED BY <1>2, <1>5, <3>2, <3>3
    <2>2. CASE o \notin DOMAIN orders
      <3>1. c \notin DOMAIN certs
        BY <1>3, <1>5, <2>2
      <3> QED BY <1>1, <1>2, <1>5, <3>1 DEF Issuable
    <2> QED BY <2>1, <2>2
  <1>6. ASSUME NEW c \in DOMAIN certs', certs'[c].active PROVE Issuable(c)'
    <2>1. CASE StillActive
      <3>1. c \in DOMAIN certs /\ certs[c].active
        BY <1>6, <2>1 DEF StillActive
      <3> QED BY <1>2, <3>1 DEF LineInv
    <2>2. CASE \E w \in Workers : Committed(w)
      <3>1. PICK d \in DOMAIN certs : /\ Issuable(d)' /\ DOMAIN certs' = DOMAIN certs
                                      /\ \A e \in DOMAIN certs \ {d} : certs'[e] = certs[e]
        BY <2>2, CommittedVersions
      <3>2. CASE c = d
        BY <3>1, <3>2
      <3>3. CASE c # d
        BY <1>2, <1>6, <3>1, <3>3 DEF LineInv
      <3> QED BY <3>2, <3>3
    <2> QED BY <2>1, <2>2, StepCerts
  <1>7. ASSUME NEW w \in Workers, NEW c \in worker'[w].due PROVE Issuable(c)'
    BY <1>2, <1>7, StepDue DEF LineInv
  <1>8. ASSUME NEW s \in Sites, NEW b \in bound'[s], NEW c, c = b.cert PROVE Issuable(c)'
    <2>1. CASE UNCHANGED bound
      BY <1>2, <1>8, <2>1 DEF LineInv
    <2>2. ASSUME NEW w \in Workers, Committed(w) PROVE Issuable(c)'
      <3>1. PICK d \in DOMAIN certs : d = TheOrder(w).cert /\ Issuable(d)'
        BY <2>2, CommittedVersions
      <3>2. b \in bound[s] \/ b = [cert |-> d, version |-> worker[w].version]
        BY <1>8, <2>2, <3>1 DEF Committed, Stored
      <3>3. CASE b \in bound[s]
        BY <1>2, <1>8, <3>3 DEF LineInv
      <3>4. CASE b = [cert |-> d, version |-> worker[w].version]
        BY <1>8, <3>1, <3>4
      <3> QED BY <3>2, <3>3, <3>4
    <2> QED BY <2>1, <2>2, StepCerts
  <1>9. ASSUME NEW a \in Admins, NEW c, c = req'[a].cert, c # NoCert PROVE Issuable(c)'
    BY <1>2, <1>9, StepRequests DEF LineInv
  <1>10. \A o, p \in DOMAIN orders' :
           o < p /\ orders'[o].cert = orders'[p].cert =>
             /\ orders'[p].kind = "renew"
             /\ orders'[p].cert \in DOMAIN certs' /\ certs'[orders'[p].cert].versions # <<>>
    BY <1>4 DEF Issuable, Versions
  <1>11. \A o \in DOMAIN orders' :
           /\ orders'[o].kind = "issue"
           /\ orders'[o].cert \in DOMAIN certs' /\ certs'[orders'[o].cert].versions # <<>>
           => \E k \in DOMAIN certs'[orders'[o].cert].versions :
                certs'[orders'[o].cert].versions[k] = o
    BY <1>5 DEF Issuable, From, Versions
  <1>12. /\ \A c \in DOMAIN certs' : certs'[c].active => certs'[c].versions # <<>>
         /\ \A w \in Workers : \A c \in worker'[w].due :
              c \in DOMAIN certs' /\ certs'[c].versions # <<>>
    BY <1>6, <1>7 DEF Issuable, Versions
  <1>13. /\ \A s \in Sites : \A b \in bound'[s] :
              b.cert \in DOMAIN certs' /\ certs'[b.cert].versions # <<>>
         /\ \A a \in Admins : req'[a].cert # NoCert =>
              req'[a].cert \in DOMAIN certs' /\ certs'[req'[a].cert].versions # <<>>
    BY <1>8, <1>9 DEF Issuable, Versions
  <1> QED BY <1>10, <1>11, <1>12, <1>13 DEF LineInv, Issuable, From, Versions

LEMMA LineHolds == Spec => [](LineInv /\ OneRenewal)
  <1>1. Init => LineInv /\ OneRenewal
    <2> SUFFICES ASSUME Init PROVE LineInv /\ OneRenewal
      OBVIOUS
    <2>1. /\ DOMAIN orders = {} /\ DOMAIN certs = {}
          /\ \A w \in Workers : worker[w].due = {}
          /\ \A s \in Sites : bound[s] = {}
          /\ \A a \in Admins : req[a].cert = NoCert
      BY DEF Init, Idle, NoRequest
    <2> QED BY <2>1 DEF LineInv, OneRenewal
  <1>2. TypeInv /\ TypeInv' /\ LineInv /\ OneRenewal /\ [Next]_vars => (LineInv /\ OneRenewal)'
    BY LineStep, RenewalStep
  <1> QED BY <1>1, <1>2, TypesHold, PTL DEF Spec

\* Two dns-workers never store the same version of a certificate, unless an
\* order of theirs was requeued under them: persist_issued_certificate then
\* never runs into the unique key and leaves its batch behind.
THEOREM WorkersNeverClash == Spec => []VersionsNeverClash
  <1>1. TypeInv /\ HeldInv /\ IssuedInv /\ LineInv /\ OneRenewal => VersionsNeverClash
    <2> SUFFICES ASSUME TypeInv, HeldInv, IssuedInv, LineInv, OneRenewal,
                        NEW v \in Workers, NEW w \in Workers, v # w, At(v, "commit"), At(w, "commit"),
                        {TheJob(v).order, TheJob(w).order} \cap raced = {},
                        TheOrder(v).cert = TheOrder(w).cert
                 PROVE  FALSE
      BY DEF VersionsNeverClash
    <2>1. ASSUME NEW o \in DOMAIN orders, NEW p \in DOMAIN orders, o < p,
                 orders[o].cert = orders[p].cert, o \notin raced,
                 orders[o].status = "issuing", orders[p].status = "issuing"
          PROVE  FALSE
      <3>1. orders[p].kind = "renew" /\ Issuable(orders[p].cert) /\ o # p
        BY <2>1, Rows DEF LineInv, TypeInv
      <3>2. orders[o] \in Order
        BY Rows DEF TypeInv
      <3>3. CASE orders[o].kind = "renew"
        BY <2>1, <3>1, <3>3 DEF OneRenewal, ActiveStatuses
      <3>4. CASE orders[o].kind = "issue"
        <4>1. From(o, orders[o].cert)
          BY <2>1, <3>1, <3>4 DEF LineInv
        <4>2. NotIn(o, Versions(orders[o].cert))
          BY <2>1 DEF IssuedInv
        <4> QED BY <4>1, <4>2 DEF From, NotIn
      <3> QED BY <3>2, <3>3, <3>4 DEF Order
    <2>2. /\ worker[v].pc = "commit" /\ worker[w].pc = "commit"
          /\ TheJob(v).order \notin raced /\ TheJob(w).order \notin raced
          /\ {"commit"} \subseteq Issuance \ Challenge
      BY DEF At, Challenge, Issuance
    <2>3. /\ TheJob(v).order \in DOMAIN orders /\ TheJob(w).order \in DOMAIN orders
          /\ TheJob(w).order \in Mine(w) /\ TheJob(v).order \notin Mine(w)
          /\ orders[TheJob(v).order].status = "issuing"
          /\ orders[TheJob(w).order].status = "issuing"
      BY <2>2, JobFacts, AtHand DEF Marked
    <2>4. TheJob(v).order < TheJob(w).order \/ TheJob(w).order < TheJob(v).order
      BY <2>3, Rows DEF TypeInv
    <2> QED BY <2>1, <2>2, <2>3, <2>4 DEF TheOrder
  <1> QED BY <1>1, HeldHolds, IssuedHolds, LineHolds, TypesHold, PTL

-----------------------------------------------------------------------------
(***************************************************************************)
(* DefaultIsNewest.  The orders of a certificate name one site, or none,   *)
(* and only that site is ever bound to it; so a worker that is the first   *)
(* to store a version replaces every binding of the certificate.           *)
(***************************************************************************)

\* An order of certificate c is for site s.
Home(c, s) == \E o \in DOMAIN orders : orders[o].cert = c /\ orders[o].site = s

HomeInv ==
    /\ \A o, p \in DOMAIN orders :
         orders[o].cert = orders[p].cert =>
           /\ orders[o].site # NoSite /\ orders[p].site # NoSite
                => orders[o].site = orders[p].site
           /\ orders[o].site = NoSite /\ orders[o].kind = "issue" => orders[p].site = NoSite
    /\ \A s \in Sites : \A b \in bound[s] : Home(b.cert, s)
    /\ \A a \in Admins : req[a].cert # NoCert => Home(req[a].cert, req[a].site)
    /\ \A w \in Workers : worker[w].pc = "commit" =>
         \A s \in worker[w].targets : Home(TheOrder(w).cert, s)

\* What a worker that read version and bindings of c still knows: either c got
\* another version since, or nothing is bound to c that the worker would miss.
Current(w, c) ==
    /\ worker[w].version <= Len(Versions(c)) + 1
    /\ Len(Versions(c)) < worker[w].version =>
         \A s \in Sites : \A b \in bound[s] :
           b.cert = c => b \in worker[w].seen /\ s \in worker[w].targets

NewestInv ==
    /\ DefaultIsNewest
    /\ \A w \in Workers : worker[w].pc = "commit" => Current(w, TheOrder(w).cert)

LEMMA AtCommit ==
    ASSUME TypeInv, TypeInv', [Next]_vars, NEW w \in Workers, worker'[w].pc = "commit"
    PROVE  /\ worker'[w] = worker[w] \/ ReadVersion(w)
           /\ worker[w].pc \in Issuance /\ TheJob(w)' = TheJob(w)
           /\ \E c \in DOMAIN certs : c = TheOrder(w).cert /\ c = TheOrder(w)'.cert
  <1>1. worker'[w] = worker[w] \/ ReadVersion(w)
    BY Persisting, CleanupActs
  <1>2. worker[w].pc \in Issuance /\ worker'[w].jobs = worker[w].jobs
    BY <1>1, ReadVersionActs DEF Onward, Issuance
  <1>3. TheJob(w)' = TheJob(w)
    BY <1>2 DEF TheJob
  <1>4. PICK o : o = TheJob(w).order
    OBVIOUS
  <1>5. o \in DOMAIN orders /\ orders[o].cert \in DOMAIN certs /\ orders'[o].cert = orders[o].cert
    BY <1>2, <1>4, JobFacts, StepKeeps DEF TypeInv, TablesSound, RowsKept
  <1>6. TheOrder(w).cert = orders[o].cert /\ TheOrder(w)'.cert = orders'[o].cert
    BY <1>3, <1>4 DEF TheOrder
  <1> QED BY <1>1, <1>2, <1>3, <1>5, <1>6

\* What a worker reads: the sites its order is for, or those it finds bound.
LEMMA TargetsHome ==
    ASSUME TypeInv, HomeInv, NEW w \in Workers, ReadVersion(w), NEW c, c = TheOrder(w).cert
    PROVE  /\ \A s \in worker'[w].targets : Home(c, s)
           /\ \A s \in Sites : \A b \in bound[s] : b.cert = c => s \in worker'[w].targets
  <1>1. PICK o : o = TheJob(w).order
    OBVIOUS
  <1>2. /\ o \in DOMAIN orders /\ orders[o].cert = c /\ TheOrder(w) = orders[o]
        /\ orders[o] \in Order /\ worker'[w].targets = Targets(orders[o])
    BY <1>1, ReadVersionActs, JobFacts DEF Issuance, TheOrder
  <1>3. orders[o].kind \in {"issue", "renew"}
    BY <1>2 DEF Order
  <1>4. CASE orders[o].site # NoSite
    <2>1. worker'[w].targets = {orders[o].site}
      BY <1>2, <1>4 DEF Targets
    <2>2. ASSUME NEW s \in Sites, NEW b \in bound[s], b.cert = c PROVE s = orders[o].site
      <3>1. PICK p \in DOMAIN orders : orders[p].cert = c /\ orders[p].site = s
        BY <2>2 DEF HomeInv, Home
      <3> QED BY <1>2, <1>4, <2>2, <3>1, Constants DEF HomeInv
    <2> QED BY <1>2, <2>1, <2>2 DEF Home
  <1>5. CASE orders[o].site = NoSite /\ orders[o].kind = "renew"
    <2>1. worker'[w].targets = {s \in Sites : \E b \in bound[s] : b.cert = c}
      BY <1>2, <1>5 DEF Targets
    <2> QED BY <2>1 DEF HomeInv
  <1>6. CASE orders[o].site = NoSite /\ orders[o].kind = "issue"
    <2>1. worker'[w].targets = {}
      BY <1>2, <1>6 DEF Targets
    <2>2. ASSUME NEW s \in Sites, NEW b \in bound[s], b.cert = c PROVE FALSE
      <3>1. PICK p \in DOMAIN orders : orders[p].cert = c /\ orders[p].site = s
        BY <2>2 DEF HomeInv, Home
      <3> QED BY <1>2, <1>6, <3>1, Constants DEF HomeInv
    <2> QED BY <2>1, <2>2
  <1> QED BY <1>3, <1>4, <1>5, <1>6

LEMMA HomeStep ==
    ASSUME TypeInv, TypeInv', HomeInv, [Next]_vars
    PROVE  HomeInv'
  <1>1. /\ RowsKept /\ \A o \in DOMAIN orders : orders[o].cert \in DOMAIN certs
    BY StepKeeps DEF TypeInv, TablesSound
  <1>2. \A c, s : Home(c, s) => Home(c, s)'
    BY <1>1 DEF Home, RowsKept
  <1>3. ASSUME NEW o \in DOMAIN orders', o \notin DOMAIN orders
        PROVE  /\ \A p \in DOMAIN orders' : p # o => p \in DOMAIN orders
               /\ \/ orders'[o].cert \notin DOMAIN certs
                  \/ /\ orders'[o].kind = "renew"
                     /\ orders'[o].site = NoSite \/ Home(orders'[o].cert, orders'[o].site)
    <2>1. Added(o)
      BY <1>3, StepAdds DEF Added
    <2> QED BY <2>1 DEF Added, HomeInv
  <1>4. ASSUME NEW o \in DOMAIN orders', NEW p \in DOMAIN orders', orders'[o].cert = orders'[p].cert
        PROVE  /\ orders'[o].site # NoSite /\ orders'[p].site # NoSite
                    => orders'[o].site = orders'[p].site
               /\ orders'[o].site = NoSite /\ orders'[o].kind = "issue" => orders'[p].site = NoSite
    <2>1. CASE o \in DOMAIN orders /\ p \in DOMAIN orders
      BY <1>1, <1>4, <2>1 DEF RowsKept, HomeInv
    <2>2. CASE o = p
      BY <2>2
    <2>3. CASE o \notin DOMAIN orders /\ o # p
      <3>1. /\ p \in DOMAIN orders /\ orders'[p].cert = orders[p].cert /\ orders'[p].site = orders[p].site
            /\ orders'[o].kind = "renew"
            /\ orders'[o].site = NoSite \/ Home(orders'[o].cert, orders'[o].site)
        BY <1>1, <1>3, <1>4, <2>3 DEF RowsKept
      <3> QED BY <1>4, <3>1 DEF Home, HomeInv
    <2>4. CASE p \notin DOMAIN orders /\ o # p
      <3>1. /\ o \in DOMAIN orders /\ orders'[o].cert = orders[o].cert /\ orders'[o].site = orders[o].site
            /\ orders'[o].kind = orders[o].kind
            /\ orders'[p].site = NoSite \/ Home(orders'[p].cert, orders'[p].site)
        BY <1>1, <1>3, <1>4, <2>4 DEF RowsKept
      <3> QED BY <1>4, <3>1 DEF Home, HomeInv
    <2> QED BY <2>1, <2>2, <2>3, <2>4
  <1>5. ASSUME NEW s \in Sites, NEW b \in bound'[s], NEW c, c = b.cert PROVE Home(c, s)'
    <2>1. CASE b \in bound[s]
      BY <1>2, <1>5, <2>1 DEF HomeInv
    <2>2. ASSUME NEW w \in Workers, Committed(w), b \notin bound[s] PROVE Home(c, s)'
      <3>1. s \in worker[w].targets /\ b = [cert |-> TheOrder(w).cert, version |-> worker[w].version]
        BY <1>5, <2>2 DEF Committed, Stored
      <3>2. c = TheOrder(w).cert
        BY <1>5, <3>1
      <3>3. Home(c, s)
        BY <2>2, <3>1, <3>2 DEF HomeInv, Committed
      <3> QED BY <1>2, <3>3
    <2> QED BY <1>5, <2>1, <2>2, StepCerts
  <1>6. ASSUME NEW a \in Admins, NEW c, c = req'[a].cert, c # NoCert, NEW s, s = req'[a].site PROVE Home(c, s)'
    <2>1. Home(c, s)
      <3>1. CASE req'[a].cert = req[a].cert /\ req'[a].site = req[a].site
        BY <1>6, <3>1 DEF HomeInv
      <3>2. CASE s \in Sites /\ \E b \in bound[s] : b.cert = c
        BY <3>2 DEF HomeInv
      <3> QED BY <1>6, <3>1, <3>2, StepRequests
    <2> QED BY <1>2, <2>1
  <1>7. ASSUME NEW w \in Workers, worker'[w].pc = "commit", NEW s \in worker'[w].targets,
               NEW c, c = TheOrder(w)'.cert
        PROVE  Home(c, s)'
    <2>1. c = TheOrder(w).cert
      BY <1>7, AtCommit
    <2>2. Home(c, s)
      <3>1. CASE worker'[w] = worker[w]
        BY <1>7, <2>1, <3>1 DEF HomeInv
      <3>2. CASE ReadVersion(w)
        BY <1>7, <2>1, <3>2, TargetsHome
      <3> QED BY <1>7, <3>1, <3>2, AtCommit
    <2> QED BY <1>2, <2>2
  <1>8. \A s \in Sites : \A b \in bound'[s] :
          \E o \in DOMAIN orders' : orders'[o].cert = b.cert /\ orders'[o].site = s
    BY <1>5 DEF Home
  <1>9. \A a \in Admins : req'[a].cert # NoCert =>
          \E o \in DOMAIN orders' : orders'[o].cert = req'[a].cert /\ orders'[o].site = req'[a].site
    BY <1>6 DEF Home
  <1>10. \A w \in Workers : worker'[w].pc = "commit" => \A s \in worker'[w].targets :
           \E o \in DOMAIN orders' : orders'[o].cert = TheOrder(w)'.cert /\ orders'[o].site = s
    BY <1>7 DEF Home
  <1> QED BY <1>4, <1>8, <1>9, <1>10 DEF HomeInv, Home

LEMMA VersionLengths ==
    ASSUME TypeInv, NEW c \in DOMAIN certs
    PROVE  Versions(c) \in Seq(OrderIds) /\ Len(Versions(c)) \in Nat
  <1>1. certs[c] \in Cert
    BY Rows DEF TypeInv
  <1>2. Versions(c) \in Seq(OrderIds)
    BY <1>1 DEF Cert, Versions
  <1> QED BY <1>2

\* A worker that waits to commit keeps what it knows while c stays as it is.
LEMMA CurrentKept ==
    ASSUME NEW w \in Workers, NEW c, worker'[w] = worker[w], Current(w, c),
           certs'[c].versions = Versions(c),
           \A s \in Sites : \A b \in bound'[s] : b.cert = c => b \in bound[s]
    PROVE  Current(w, c)'
  BY DEF Current, Versions

LEMMA NewestStep ==
    ASSUME TypeInv, TypeInv', HomeInv, NewestInv, [Next]_vars
    PROVE  NewestInv'
  <1>1. \A s \in Sites : \A b \in bound[s] : b.cert \in DOMAIN certs
    BY DEF TypeInv, TablesSound
  <1>2. ASSUME SameVersions, UNCHANGED bound PROVE NewestInv'
    <2>1. \A s \in Sites : \A b \in bound'[s] : b.version = Len(certs'[b.cert].versions)
      BY <1>1, <1>2 DEF SameVersions, Versions, NewestInv, DefaultIsNewest
    <2>2. ASSUME NEW w \in Workers, worker'[w].pc = "commit", NEW c, c = TheOrder(w)'.cert
          PROVE  Current(w, c)'
      <3>1. c = TheOrder(w).cert /\ c \in DOMAIN certs
        BY <2>2, AtCommit
      <3>2. certs'[c].versions = Versions(c)
        BY <1>2, <3>1 DEF SameVersions, Versions
      <3>3. CASE worker'[w] = worker[w]
        <4>1. Current(w, c)
          BY <2>2, <3>1, <3>3 DEF NewestInv
        <4> QED BY <1>2, <3>2, <3>3, <4>1, CurrentKept
      <3>4. CASE ReadVersion(w)
        <4>1. /\ worker'[w].version = Len(Versions(c)) + 1
              /\ worker'[w].seen = UNION {bound[s] : s \in Sites}
          BY <3>1, <3>4, ReadVersionActs
        <4>2. \A s \in Sites : \A b \in bound[s] : b.cert = c => s \in worker'[w].targets
          BY <3>1, <3>4, TargetsHome
        <4>3. Len(Versions(c)) \in Nat
          BY <3>1, VersionLengths
        <4> QED BY <1>2, <3>2, <4>1, <4>2, <4>3 DEF Current, Versions
      <3> QED BY <2>2, <3>3, <3>4, AtCommit
    <2>3. \A w \in Workers : worker'[w].pc = "commit" => \E c : c = TheOrder(w)'.cert /\ Current(w, c)'
      BY <2>2
    <2> QED BY <2>1, <2>3 DEF NewestInv, DefaultIsNewest, Current, Versions
  <1>3. ASSUME NEW w \in Workers, Committed(w) PROVE NewestInv'
    <2>1. PICK o : o = TheJob(w).order
      OBVIOUS
    <2>2. PICK c \in DOMAIN certs : c = TheOrder(w).cert
      BY <1>3, CommittedVersions
    <2>3. PICK n : n = Len(Versions(c))
      OBVIOUS
    <2>4. PICK v : v = worker[w].version
      OBVIOUS
    <2>5. n \in Nat /\ v \in Nat /\ Versions(c) \in Seq(OrderIds) /\ o \in OrderIds
      BY <1>3, <2>1, <2>2, <2>3, <2>4, VersionLengths, JobFacts, WorkerFields, Rows
         DEF Committed, Issuance, TypeInv
    <2>6. /\ v = n + 1
          /\ \A s \in Sites : \A b \in bound[s] :
               b.cert = c => b \in worker[w].seen /\ s \in worker[w].targets
      BY <1>3, <2>2, <2>3, <2>4, <2>5 DEF Committed, NewestInv, Current
    <2>7. /\ Stored(w, o, c, v) /\ Others(w) /\ worker'[w].pc # "commit"
      BY <1>3, <2>1, <2>2, <2>4, EndedFacts DEF Committed
    <2>8. /\ \A d \in DOMAIN certs \ {c} : certs'[d] = certs[d]
          /\ certs'[c].versions = Append(Versions(c), o)
          /\ \A s \in Sites :
               bound'[s] = IF s \in worker[w].targets
                             THEN (bound[s] \ worker[w].seen) \cup {[cert |-> c, version |-> v]}
                             ELSE bound[s]
      BY <2>7 DEF Stored
    <2>9. Len(certs'[c].versions) = v
      BY <2>3, <2>5, <2>6, <2>8
    <2>10. ASSUME NEW s \in Sites, NEW b \in bound'[s]
           PROVE  \/ b.cert = c /\ b.version = v
                  \/ b.cert # c /\ b \in bound[s]
      <3>1. CASE b = [cert |-> c, version |-> v]
        BY <3>1
      <3>2. CASE b # [cert |-> c, version |-> v]
        <4>1. b \in bound[s] /\ ~(s \in worker[w].targets /\ b \in worker[w].seen)
          BY <2>8, <2>10, <3>2
        <4> QED BY <2>6, <4>1
      <3> QED BY <3>1, <3>2
    <2>11. \A s \in Sites : \A b \in bound'[s] : b.version = Len(certs'[b.cert].versions)
      <3>1. ASSUME NEW s \in Sites, NEW b \in bound'[s], b.cert # c PROVE b.version = Len(certs'[b.cert].versions)
        <4>1. b \in bound[s] /\ b.cert \in DOMAIN certs
          BY <1>1, <2>10, <3>1
        <4>2. certs'[b.cert] = certs[b.cert]
          BY <2>8, <3>1, <4>1
        <4> QED BY <4>1, <4>2 DEF NewestInv, DefaultIsNewest
      <3> QED BY <2>9, <2>10, <3>1
    <2>12. ASSUME NEW u \in Workers, worker'[u].pc = "commit", NEW d, d = TheOrder(u)'.cert
           PROVE  Current(u, d)'
      <3>1. u # w /\ worker'[u] = worker[u]
        BY <2>7, <2>12 DEF Others
      <3>2. d = TheOrder(u).cert /\ d \in DOMAIN certs
        BY <2>12, AtCommit
      <3>3. Current(u, d)
        BY <2>12, <3>1, <3>2 DEF NewestInv
      <3>4. CASE d # c
        BY <2>8, <2>10, <3>1, <3>2, <3>3, <3>4, CurrentKept DEF Versions
      <3>5. CASE d = c
        <4>1. worker[u].version \in Nat /\ worker[u].version <= n + 1
          BY <2>3, <3>3, <3>5, WorkerFields DEF Current, TypeInv, TypeOK
        <4>2. Len(certs'[d].versions) = n + 1
          BY <2>6, <2>9, <3>5
        <4> QED BY <2>5, <3>1, <4>1, <4>2 DEF Current, Versions
      <3> QED BY <3>4, <3>5
    <2>13. \A u \in Workers : worker'[u].pc = "commit" => \E d : d = TheOrder(u)'.cert /\ Current(u, d)'
      BY <2>12
    <2> QED BY <2>11, <2>13 DEF NewestInv, DefaultIsNewest, Current, Versions
  <1> QED BY <1>2, <1>3, StepCerts

\* Whichever dns-worker commits last, and however their transactions overlap,
\* the version a site is bound to by default is the newest one of its
\* certificate (persist_issued_certificate).
THEOREM SitesBoundToNewest == Spec => []DefaultIsNewest
  <1>1. Init => HomeInv /\ NewestInv
    <2> SUFFICES ASSUME Init PROVE HomeInv /\ NewestInv
      OBVIOUS
    <2>1. /\ DOMAIN orders = {}
          /\ \A w \in Workers : worker[w].pc = "select"
          /\ \A s \in Sites : bound[s] = {}
          /\ \A a \in Admins : req[a].cert = NoCert
      BY DEF Init, Idle, NoRequest
    <2> QED BY <2>1 DEF HomeInv, NewestInv, DefaultIsNewest
  <1>2. TypeInv /\ TypeInv' /\ HomeInv /\ NewestInv /\ [Next]_vars => (HomeInv /\ NewestInv)'
    BY HomeStep, NewestStep
  <1>3. NewestInv => DefaultIsNewest
    BY DEF NewestInv
  <1> QED BY <1>1, <1>2, <1>3, TypesHold, PTL DEF Spec

=============================================================
