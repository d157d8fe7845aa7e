---------------------- MODULE CertificateOrdersProofs ----------------------
(***************************************************************************)
(* Proofs about CertificateOrders for every set of workers, administrators *)
(* and sites, every batch size and every bound.                            *)
(***************************************************************************)
EXTENDS CertificateOrders, FiniteSetTheorems, SequenceTheorems, WellFoundedInduction, TLAPS

\* Where a worker is with a batch of challenges, and with a batch of orders to
\* be issued.
Challenge == {"prepare", "present", "acknowledge", "payload", "presented",
              "challenge_failed"}
Issuance  == {"finalize", "cleanup", "persist", "commit", "issue_failed"}

\* The orders a worker holds, and the versions of an order's certificate.
Mine(w)     == {worker[w].jobs[j].order : j \in DOMAIN worker[w].jobs}
Versions(c) == certs[c].versions

-----------------------------------------------------------------------------
(***************************************************************************)
(* Type correctness, with what the workers, the tables and the requests    *)
(* refer to: rows that are there.                                          *)
(***************************************************************************)

WorkerSound(w) ==
    /\ worker[w].jobs # <<>> <=> worker[w].pc \in Challenge \cup Issuance
    /\ Mine(w) \subseteq DOMAIN orders
    /\ worker[w].due \subseteq DOMAIN certs
    /\ worker[w].pc \in {"present", "acknowledge", "payload"} => worker[w].acme \in AcmeIds
    /\ worker[w].pc \in {"cleanup", "persist", "commit"} => TheJob(w).payload \in AcmeIds
    /\ worker[w].pc = "commit" => worker[w].version > 0

AdminSound(a) ==
    /\ req[a].cert \in DOMAIN certs \cup {NoCert}
    /\ req[a].op = "issue" => req[a].cert = NoCert
    /\ req[a].op \in {"check", "renew"} => req[a].site \in Sites
    /\ req[a].op = "requeue" =>
         /\ req[a].order \in DOMAIN orders
         /\ Len(req[a].read) = 1
         /\ req[a].read[1].kind = orders[req[a].order].kind
         /\ req[a].read[1].site = orders[req[a].order].site
         /\ req[a].read[1].cert = orders[req[a].order].cert
         /\ req[a].read[1].status # "issued"

TablesSound ==
    /\ \A o \in DOMAIN orders : orders[o].cert \in DOMAIN certs
    /\ \A s \in Sites : \A b \in bound[s] : b.cert \in DOMAIN certs
    /\ \A c \in DOMAIN certs : \A k \in DOMAIN Versions(c) :
         Versions(c)[k] \in DOMAIN orders /\ orders[Versions(c)[k]].cert = c

TypeInv == /\ TypeOK /\ TablesSound
           /\ \A w \in Workers : WorkerSound(w)
           /\ \A a \in Admins : AdminSound(a)

LEMMA Constants ==
    /\ NoSite \notin Sites /\ Batch \in Nat /\ Batch > 0
    /\ MaxOrders \in Nat /\ MaxAcme \in Nat /\ MaxDue \in Nat
    /\ MaxRequests \in Nat /\ MaxFaults \in Nat
  BY CertificatesAssumption

\* What the type invariant says of the rows.
LEMMA Rows ==
    ASSUME TypeOK
    PROVE  /\ Len(orders) \in Nat /\ DOMAIN orders = 1..Len(orders)
           /\ DOMAIN orders \subseteq OrderIds
           /\ \A o \in DOMAIN orders : orders[o] \in Order
           /\ Len(certs) \in Nat /\ DOMAIN certs = 1..Len(certs)
           /\ DOMAIN certs \subseteq CertIds
           /\ \A c \in DOMAIN certs : certs[c] \in Cert
  <1>1. orders \in Seq(Order) /\ Len(orders) <= MaxOrders
    BY DEF TypeOK
  <1>2. certs \in Seq(Cert) /\ Len(certs) <= MaxOrders
    BY DEF TypeOK
  <1>3. QED  BY <1>1, <1>2, Constants DEF OrderIds, CertIds

\* An order that is issued, and one that is pending again, are orders.
LEMMA IssuedChange ==
    ASSUME NEW r \in Order, NEW b \in BOOLEAN
    PROVE  /\ [r EXCEPT !.status = "issued", !.warned = b] \in Order
           /\ [r EXCEPT !.status = "issued", !.warned = b].cert = r.cert
           /\ [r EXCEPT !.status = "issued", !.warned = b].kind = r.kind
           /\ [r EXCEPT !.status = "issued", !.warned = b].site = r.site
           /\ [r EXCEPT !.status = "issued", !.warned = b].payload = r.payload
           /\ [r EXCEPT !.status = "issued", !.warned = b].status = "issued"
           /\ [r EXCEPT !.status = "issued", !.warned = b].warned = b
  <1>1. CASE b = TRUE
    BY <1>1 DEF Order, Statuses
  <1>2. CASE b = FALSE
    BY <1>2 DEF Order, Statuses
  <1> QED BY <1>1, <1>2, Zenon
LEMMA RequeueChange ==
    ASSUME NEW r \in Order
    PROVE  [r EXCEPT !.status = "pending_dns_challenge", !.payload = NoAcme,
                     !.warned = FALSE] \in Order
  BY DEF Order, Statuses, ActiveStatuses

\* A new order is an order.
LEMMA NewOrderType ==
    ASSUME NEW k \in {"issue", "renew"}, NEW s \in Sites \cup {NoSite}, NEW c \in CertIds,
           NEW z \in Ids \cup {Null}
    PROVE  NewOrder(k, s, c, z) \in Order
  BY DEF NewOrder, Order, Statuses, ActiveStatuses

LEMMA IdleType == Idle \in WorkerState /\ NoRequest \in AdminState
  BY Constants DEF Idle, WorkerState, PCs, NoRequest, AdminState, Ops, Null, NoAcme, NoCert, NoOrder

\* Changing rows.
LEMMA RowsChanged ==
    ASSUME TypeOK, NEW f, DOMAIN f = DOMAIN orders, f = [i \in DOMAIN f |-> f[i]],
           \A i \in DOMAIN orders : f[i] \in Order
    PROVE  f \in Seq(Order) /\ Len(f) = Len(orders)
  <1>1. Len(orders) \in Nat /\ DOMAIN orders = 1..Len(orders)
    BY Rows
  <1> QED BY <1>1, IsASeq

\* A step keeps the rows, and what an order is for.
RowsKept ==
    /\ orders' \in Seq(Order) /\ Len(orders') <= MaxOrders
    /\ DOMAIN orders \subseteq DOMAIN orders'
    /\ \A o \in DOMAIN orders : /\ orders'[o].kind = orders[o].kind
                                /\ orders'[o].site = orders[o].site
                                /\ orders'[o].cert = orders[o].cert
CertsKept ==
    /\ certs' \in Seq(Cert) /\ Len(certs') <= MaxOrders
    /\ DOMAIN certs \subseteq DOMAIN certs'

\* The state of a worker, by its fields.
LEMMA WorkerFields ==
    ASSUME NEW r \in WorkerState
    PROVE  /\ r.pc \in PCs /\ r.due \subseteq CertIds /\ r.zone \in Ids \cup {Null}
           /\ r.jobs \in Seq(Job) /\ r.acme \in AcmeIds \cup {NoAcme}
           /\ r.version \in Nat /\ r.targets \subseteq Sites /\ r.seen \subseteq Binding
           /\ r.warned \in BOOLEAN
  BY DEF WorkerState

\* What is in a sequence of jobs.
LEMMA JobsOf ==
    ASSUME NEW jobs \in Seq(Job)
    PROVE  /\ Len(jobs) \in Nat /\ DOMAIN jobs = 1..Len(jobs)
           /\ \A j \in DOMAIN jobs : jobs[j] \in Job
           /\ jobs # <<>> <=> Len(jobs) > 0
           /\ jobs # <<>> => /\ 1 \in DOMAIN jobs /\ Head(jobs) = jobs[1]
                             /\ Tail(jobs) \in Seq(Job) /\ Len(Tail(jobs)) = Len(jobs) - 1
                             /\ DOMAIN Tail(jobs) = 1..Len(jobs) - 1
                             /\ \A j \in DOMAIN Tail(jobs) :
                                  j + 1 \in DOMAIN jobs /\ Tail(jobs)[j] = jobs[j + 1]
  OBVIOUS

\* A worker goes on; the others stay where they are.
LEMMA GoFacts ==
    ASSUME TypeOK, NEW w \in Workers, NEW r \in WorkerState, Go(w, r)
    PROVE  /\ worker' \in [Workers -> WorkerState] /\ worker'[w] = r
           /\ \A v \in Workers \ {w} : worker'[v] = worker[v]
  BY DEF TypeOK, Go

LEMMA GotoFacts ==
    ASSUME TypeOK, NEW w \in Workers, NEW pc \in PCs, Goto(w, pc)
    PROVE  /\ worker' \in [Workers -> WorkerState]
           /\ \A v \in Workers \ {w} : worker'[v] = worker[v]
           /\ worker'[w].pc = pc /\ worker'[w].due = worker[w].due
           /\ worker'[w].jobs = worker[w].jobs /\ worker'[w].acme = worker[w].acme
           /\ worker'[w].version = worker[w].version
           /\ worker'[w].warned = worker[w].warned
  <1> DEFINE r == [worker[w] EXCEPT !.pc = pc]
  <1>1. worker[w] \in WorkerState
    BY DEF TypeOK
  <1>2. /\ r \in WorkerState /\ r.pc = pc /\ r.due = worker[w].due /\ r.jobs = worker[w].jobs
        /\ r.acme = worker[w].acme /\ r.version = worker[w].version
    BY <1>1 DEF WorkerState
  <1>3. r.warned = worker[w].warned
    BY <1>1, Zenon DEF WorkerState
  <1>4. Go(w, r)
    BY DEF Goto
  <1> HIDE DEF r
  <1> QED BY <1>2, <1>3, <1>4, GoFacts

\* From a batch of jobs, the next one or the end.
LEMMA NextFacts ==
    ASSUME TypeOK, NEW w \in Workers, NEW first \in PCs, NEW next \in PCs,
           NextJob(w, first, next), worker[w].jobs # <<>>
    PROVE  /\ worker' \in [Workers -> WorkerState]
           /\ \A v \in Workers \ {w} : worker'[v] = worker[v]
           /\ worker'[w].pc = (IF Len(worker[w].jobs) > 1 THEN first ELSE next)
           /\ worker'[w].due = {} /\ worker'[w].acme = NoAcme
           /\ worker'[w].jobs = Tail(worker[w].jobs)
           /\ worker'[w].jobs # <<>> <=> Len(worker[w].jobs) > 1
  <1> DEFINE pc == IF Len(worker[w].jobs) > 1 THEN first ELSE next
             r  == [Idle EXCEPT !.pc = pc, !.jobs = Tail(worker[w].jobs)]
  <1>1. worker[w].jobs \in Seq(Job)
    BY WorkerFields DEF TypeOK
  <1>2. /\ Tail(worker[w].jobs) \in Seq(Job)
        /\ Tail(worker[w].jobs) # <<>> <=> Len(worker[w].jobs) > 1
    <2>1. Tail(worker[w].jobs) \in Seq(Job) /\ Len(Tail(worker[w].jobs)) = Len(worker[w].jobs) - 1
          /\ Len(worker[w].jobs) \in Nat
      BY <1>1, JobsOf
    <2>2. Tail(worker[w].jobs) # <<>> <=> Len(Tail(worker[w].jobs)) > 0
      BY <2>1, JobsOf
    <2> QED BY <2>1, <2>2
  <1>3. pc \in PCs
    OBVIOUS
  <1> HIDE DEF pc
  <1>4. /\ r \in WorkerState /\ r.pc = pc /\ r.due = {} /\ r.acme = NoAcme
        /\ r.jobs = Tail(worker[w].jobs)
    BY <1>2, <1>3, IdleType DEF Idle, WorkerState
  <1>5. Go(w, r)
    BY DEF NextJob, pc
  <1>6. pc = IF Len(worker[w].jobs) > 1 THEN first ELSE next
    BY DEF pc
  <1> HIDE DEF r
  <1> QED BY <1>2, <1>4, <1>5, <1>6, GoFacts

\* A worker that exits holds nothing.
LEMMA ExitFacts ==
    ASSUME TypeOK, NEW w \in Workers, Exit(w)
    PROVE  /\ worker' \in [Workers -> WorkerState] /\ worker'[w] = Idle
           /\ \A v \in Workers \ {w} : worker'[v] = worker[v]
           /\ stranded' \in SUBSET OrderIds
  <1>1. Go(w, Idle) /\ stranded' = stranded \cup {worker[w].jobs[j].order : j \in DOMAIN worker[w].jobs}
    BY DEF Exit
  <1>2. worker[w].jobs \in Seq(Job) /\ stranded \in SUBSET OrderIds
    BY WorkerFields DEF TypeOK
  <1>3. \A j \in DOMAIN worker[w].jobs : worker[w].jobs[j].order \in OrderIds
    BY <1>2, JobsOf DEF Job
  <1> QED BY <1>1, <1>2, <1>3, GoFacts, IdleType

\* Workers that stay where they are remain sound, and so do requests.
LEMMA StillSound ==
    ASSUME TypeInv, RowsKept, CertsKept
    PROVE  /\ \A w \in Workers : worker'[w] = worker[w] => WorkerSound(w)'
           /\ \A a \in Admins : req'[a] = req[a] => AdminSound(a)'
  <1>1. ASSUME NEW w \in Workers, worker'[w] = worker[w] PROVE WorkerSound(w)'
    <2>1. Mine(w)' = Mine(w) /\ TheJob(w)' = TheJob(w)
      BY <1>1 DEF Mine, TheJob
    <2>2. WorkerSound(w)
      BY DEF TypeInv
    <2> QED BY <1>1, <2>1, <2>2 DEF WorkerSound, RowsKept, CertsKept
  <1>2. ASSUME NEW a \in Admins, req'[a] = req[a] PROVE AdminSound(a)'
    <2>1. AdminSound(a)
      BY DEF TypeInv
    <2> QED BY <1>2, <2>1 DEF AdminSound, RowsKept, CertsKept
  <1> QED BY <1>1, <1>2

\* Tables whose rows are kept stay sound when nothing is issued.
LEMMA StillStored ==
    ASSUME TypeInv, RowsKept, CertsKept, UNCHANGED bound,
           \A c \in DOMAIN certs : certs'[c].versions = certs[c].versions,
           \A c \in DOMAIN certs' \ DOMAIN certs : certs'[c].versions = <<>>,
           \A o \in DOMAIN orders' \ DOMAIN orders : orders'[o].cert \in DOMAIN certs'
    PROVE  TablesSound'
  <1>1. TablesSound
    BY DEF TypeInv
  <1>2. ASSUME NEW o \in DOMAIN orders' PROVE orders'[o].cert \in DOMAIN certs'
    BY <1>1 DEF TablesSound, RowsKept, CertsKept
  <1>3. ASSUME NEW c \in DOMAIN certs', NEW k \in DOMAIN Versions(c)'
        PROVE  Versions(c)'[k] \in DOMAIN orders' /\ orders'[Versions(c)'[k]].cert = c
    <2>1. c \in DOMAIN certs
      <3>1. SUFFICES ASSUME c \notin DOMAIN certs PROVE FALSE
        OBVIOUS
      <3>2. DOMAIN Versions(c)' = {}
        BY <3>1 DEF Versions
      <3> QED BY <3>2
    <2>2. Versions(c)' = Versions(c)
      BY <2>1 DEF Versions
    <2> QED BY <1>1, <2>1, <2>2 DEF TablesSound, RowsKept
  <1>4. \A s \in Sites : \A b \in bound'[s] : b.cert \in DOMAIN certs'
    BY <1>1 DEF TablesSound, CertsKept
  <1> QED BY <1>2, <1>3, <1>4 DEF TablesSound

\* A step of a worker, and a step of a request, keep the types.
LEMMA WorkerKeepsTypes ==
    ASSUME TypeInv, NEW w \in Workers, OutsideWorker, RowsKept, CertsKept, TablesSound',
           worker' \in [Workers -> WorkerState],
           \A v \in Workers \ {w} : worker'[v] = worker[v], WorkerSound(w)',
           bound' \in [Sites -> SUBSET Binding], txt' \in SUBSET AcmeIds,
           acme' \in [AcmeIds -> AcmeStatus], stranded' \in SUBSET OrderIds,
           faults' \in 0..MaxFaults
    PROVE  TypeInv'
  <1>1. TypeOK
    BY DEF TypeInv
  <1>2. UNCHANGED <<provider, zone, req, raced, dues, requests>>
    BY DEF OutsideWorker
  <1>3. TypeOK'
    BY <1>1, <1>2 DEF TypeOK, RowsKept, CertsKept
  <1>4. \A v \in Workers : WorkerSound(v)'
    BY StillSound
  <1>5. \A a \in Admins : AdminSound(a)'
    BY <1>2, StillSound
  <1> QED BY <1>3, <1>4, <1>5 DEF TypeInv

LEMMA RequestKeepsTypes ==
    ASSUME TypeInv, NEW a \in Admins, RowsKept, CertsKept, TablesSound',
           UNCHANGED <<bound, worker, extVars, dues, faults>>,
           req' \in [Admins -> AdminState],
           \A b \in Admins \ {a} : req'[b] = req[b], AdminSound(a)',
           provider' \in [id: Ids \cup {Null}, usable: BOOLEAN],
           zone' \in [id: Ids \cup {Null}, active: BOOLEAN],
           raced' \in SUBSET OrderIds, stranded' \in SUBSET OrderIds,
           requests' \in 0..MaxRequests
    PROVE  TypeInv'
  <1>1. TypeOK
    BY DEF TypeInv
  <1>3. TypeOK'
    BY <1>1 DEF TypeOK, RowsKept, CertsKept, extVars
  <1>4. \A v \in Workers : WorkerSound(v)'
    BY StillSound
  <1>5. \A b \in Admins : AdminSound(b)'
    BY StillSound
  <1> QED BY <1>3, <1>4, <1>5 DEF TypeInv

\* Steps that leave a table alone.
LEMMA SameRows ==
    ASSUME TypeInv
    PROVE  /\ UNCHANGED orders => RowsKept
           /\ UNCHANGED certs => CertsKept
           /\ UNCHANGED <<orders, certs, bound>> => TablesSound'
  <1>1. UNCHANGED orders => RowsKept
    BY DEF TypeInv, TypeOK, RowsKept
  <1>2. UNCHANGED certs => CertsKept
    BY DEF TypeInv, TypeOK, CertsKept
  <1>3. UNCHANGED <<orders, certs, bound>> => TablesSound'
    BY <1>1, <1>2, StillStored
  <1> QED BY <1>1, <1>2, <1>3

\* The job a worker is at.
LEMMA JobFacts ==
    ASSUME TypeInv, NEW w \in Workers, worker[w].pc \in Challenge \cup Issuance
    PROVE  /\ worker[w] \in WorkerState /\ worker[w].jobs \in Seq(Job) /\ worker[w].jobs # <<>>
           /\ 1 \in DOMAIN worker[w].jobs /\ TheJob(w) = worker[w].jobs[1] /\ TheJob(w) \in Job
           /\ TheJob(w).order \in DOMAIN orders /\ TheJob(w).order \in Mine(w)
           /\ TheOrder(w) = orders[TheJob(w).order] /\ TheOrder(w) \in Order
           /\ TheOrder(w).cert \in DOMAIN certs
  <1>1. TypeOK /\ WorkerSound(w) /\ TablesSound
    BY DEF TypeInv
  <1>2. worker[w] \in WorkerState /\ worker[w].jobs \in Seq(Job) /\ worker[w].jobs # <<>>
    BY <1>1, WorkerFields DEF TypeOK, WorkerSound
  <1>3. 1 \in DOMAIN worker[w].jobs /\ TheJob(w) = worker[w].jobs[1] /\ TheJob(w) \in Job
    BY <1>2, JobsOf DEF TheJob
  <1>4. TheJob(w).order \in Mine(w) /\ TheJob(w).order \in DOMAIN orders
    BY <1>1, <1>3 DEF Mine, WorkerSound
  <1>5. TheOrder(w) = orders[TheJob(w).order] /\ TheOrder(w) \in Order
        /\ TheOrder(w).cert \in DOMAIN certs
    BY <1>1, <1>4, Rows DEF TheOrder, TablesSound
  <1> QED BY <1>2, <1>3, <1>4, <1>5

\* Where the job at hand stays the same, what the worker needs for it must be there.
LEMMA SameJobs ==
    ASSUME TypeInv, RowsKept, CertsKept, NEW w \in Workers,
           worker'[w].jobs = worker[w].jobs, worker'[w].due = worker[w].due,
           worker[w].pc \in Challenge \cup Issuance, worker'[w].pc \in Challenge \cup Issuance,
           worker'[w].pc \in {"present", "acknowledge", "payload"} => worker'[w].acme \in AcmeIds,
           worker'[w].pc \in {"cleanup", "persist", "commit"} => TheJob(w).payload \in AcmeIds,
           worker'[w].pc = "commit" => worker'[w].version > 0
    PROVE  WorkerSound(w)'
  <1>1. Mine(w)' = Mine(w) /\ TheJob(w)' = TheJob(w)
    BY DEF Mine, TheJob
  <1>2. WorkerSound(w)
    BY DEF TypeInv
  <1> QED BY <1>1, <1>2 DEF WorkerSound, RowsKept, CertsKept

\* So it does not matter where the next job, or none, is taken up.
LEMMA NextSound ==
    ASSUME TypeInv, RowsKept, CertsKept, NEW w \in Workers,
           worker[w].pc \in Challenge \cup Issuance,
           NEW first, NEW next, NextJob(w, first, next),
           \/ first = "prepare" /\ next = "ready"
           \/ first = "finalize" /\ next = "select"
    PROVE  WorkerSound(w)'
  <1>0. first \in PCs /\ next \in PCs
    BY DEF PCs
  <1>1. worker[w].jobs \in Seq(Job) /\ worker[w].jobs # <<>> /\ TypeOK /\ WorkerSound(w)
    BY JobFacts DEF TypeInv
  <1>2. /\ worker'[w].pc = (IF Len(worker[w].jobs) > 1 THEN first ELSE next)
        /\ worker'[w].due = {}
        /\ worker'[w].jobs = Tail(worker[w].jobs)
        /\ worker'[w].jobs # <<>> <=> Len(worker[w].jobs) > 1
    BY <1>0, <1>1, NextFacts
  <1>3. Mine(w)' \subseteq Mine(w)
    BY <1>1, <1>2, JobsOf DEF Mine
  <1>4. worker'[w].jobs # <<>> <=> worker'[w].pc \in Challenge \cup Issuance
    BY <1>2 DEF Challenge, Issuance
  <1>5. worker'[w].pc \notin {"present", "acknowledge", "payload", "cleanup", "persist", "commit"}
    BY <1>2
  <1> QED BY <1>1, <1>2, <1>3, <1>4, <1>5 DEF WorkerSound, RowsKept, CertsKept

LEMMA IdleSound ==
    ASSUME NEW w \in Workers, worker'[w] = Idle
    PROVE  WorkerSound(w)'
  <1>1. Idle.jobs = <<>> /\ Idle.pc = "select" /\ Idle.due = {}
    BY DEF Idle
  <1>2. Mine(w)' = {}
    BY <1>1 DEF Mine
  <1> QED BY <1>1, <1>2 DEF WorkerSound, Challenge, Issuance

\* A fault is counted.
LEMMA Faults ==
    ASSUME TypeInv
    PROVE  (Fault \/ UNCHANGED faults) => faults' \in 0..MaxFaults
  BY Constants DEF TypeInv, TypeOK, Fault

-----------------------------------------------------------------------------
(* The steps of a worker keep the types.                                   *)

\* Steps that change only the worker.
LEMMA SelectTypes ==
    ASSUME TypeInv, NEW w \in Workers, SelectDue(w)
    PROVE  TypeInv'
  <1>1. OutsideWorker /\ UNCHANGED <<orders, certs, bound, txt, acme, stranded, faults>>
    BY DEF SelectDue, extVars
  <1>2. RowsKept /\ CertsKept /\ TablesSound'
    BY <1>1, SameRows
  <1>3. PICK d \in SUBSET DOMAIN certs :
               Go(w, IF d = {} \/ ~zone.active
                        THEN [Idle EXCEPT !.pc = "pending"]
                        ELSE [Idle EXCEPT !.pc = "insert", !.due = d, !.zone = zone.id])
    BY DEF SelectDue
  <1>4. TypeOK /\ zone.id \in Ids \cup {Null} /\ d \subseteq CertIds
    BY Rows DEF TypeInv, TypeOK
  <1>5. PICK r : r = IF d = {} \/ ~zone.active
                        THEN [Idle EXCEPT !.pc = "pending"]
                        ELSE [Idle EXCEPT !.pc = "insert", !.due = d, !.zone = zone.id]
    OBVIOUS
  <1>6. /\ r \in WorkerState /\ r.jobs = <<>> /\ r.due \subseteq DOMAIN certs
        /\ r.pc \in {"pending", "insert"}
    BY <1>4, <1>5, IdleType DEF Idle, WorkerState, PCs
  <1>7. Go(w, r)
    BY <1>3, <1>5
  <1>8. /\ worker' \in [Workers -> WorkerState] /\ worker'[w] = r
        /\ \A v \in Workers \ {w} : worker'[v] = worker[v]
    BY <1>4, <1>6, <1>7, GoFacts
  <1>9. WorkerSound(w)'
    <2>1. Mine(w)' = {}
      BY <1>6, <1>8 DEF Mine
    <2> QED BY <1>1, <1>6, <1>8, <2>1 DEF WorkerSound, Challenge, Issuance
  <1>10. /\ bound' \in [Sites -> SUBSET Binding] /\ txt' \in SUBSET AcmeIds
         /\ acme' \in [AcmeIds -> AcmeStatus] /\ stranded' \in SUBSET OrderIds
         /\ faults' \in 0..MaxFaults
    BY <1>1, <1>4 DEF TypeOK
  <1> QED BY <1>1, <1>2, <1>8, <1>9, <1>10, WorkerKeepsTypes

\* A worker that goes on with the job at hand, whatever it did outside the hub.
LEMMA GoTypes ==
    ASSUME TypeInv, NEW w \in Workers, NEW r \in WorkerState, Go(w, r), OutsideWorker,
           RowsKept, TablesSound', UNCHANGED <<certs, bound, stranded>>,
           txt' \in SUBSET AcmeIds, acme' \in [AcmeIds -> AcmeStatus],
           Fault \/ UNCHANGED faults,
           worker[w].pc \in Challenge \cup Issuance, r.pc \in Challenge \cup Issuance,
           r.jobs = worker[w].jobs, r.due = worker[w].due,
           r.pc \in {"present", "acknowledge", "payload"} => r.acme \in AcmeIds,
           r.pc \in {"cleanup", "persist", "commit"} => TheJob(w).payload \in AcmeIds,
           r.pc = "commit" => r.version > 0
    PROVE  TypeInv'
  <1>1. TypeOK
    BY DEF TypeInv
  <1>2. /\ worker' \in [Workers -> WorkerState] /\ worker'[w] = r
        /\ \A v \in Workers \ {w} : worker'[v] = worker[v]
    BY <1>1, GoFacts
  <1>3. CertsKept
    BY SameRows
  <1>4. WorkerSound(w)'
    BY <1>2, <1>3, SameJobs
  <1>5. faults' \in 0..MaxFaults
    BY Faults
  <1>6. bound' \in [Sites -> SUBSET Binding] /\ stranded' \in SUBSET OrderIds
    BY <1>1 DEF TypeOK
  <1> QED BY <1>2, <1>3, <1>4, <1>5, <1>6, WorkerKeepsTypes

\* The places in a worker's loop, as states of the worker.
LEMMA GotoState ==
    ASSUME TypeInv, NEW w \in Workers, NEW pc \in PCs, Goto(w, pc)
    PROVE  \E r \in WorkerState :
              /\ Go(w, r) /\ r.pc = pc /\ r.jobs = worker[w].jobs /\ r.due = worker[w].due
              /\ r.acme = worker[w].acme
  <1>1. PICK r : r = [worker[w] EXCEPT !.pc = pc]
    OBVIOUS
  <1>2. /\ r \in WorkerState /\ r.pc = pc /\ r.jobs = worker[w].jobs
        /\ r.due = worker[w].due /\ r.acme = worker[w].acme
    <2>1. worker[w] \in WorkerState
      BY DEF TypeInv, TypeOK
    <2> QED BY <1>1, <2>1 DEF WorkerState
  <1> QED BY <1>1, <1>2 DEF Goto

LEMMA PrepareTypes ==
    ASSUME TypeInv, NEW w \in Workers, Prepare(w)
    PROVE  TypeInv'
  <1>1. /\ OutsideWorker /\ UNCHANGED <<orders, certs, bound, txt, stranded>>
        /\ worker[w].pc = "prepare"
    BY DEF Prepare, At
  <1>2. RowsKept /\ TablesSound'
    BY <1>1, SameRows
  <1>3. TypeOK /\ TheJob(w) \in Job /\ txt' \in SUBSET AcmeIds /\ worker[w] \in WorkerState
    BY <1>1, JobFacts DEF TypeInv, TypeOK, Challenge
  <1>4. /\ acme' \in [AcmeIds -> AcmeStatus]
        /\ Fault \/ UNCHANGED faults
        /\ \/ \E i \in AcmeIds : Go(w, [worker[w] EXCEPT !.pc = "present", !.acme = i])
           \/ Goto(w, "challenge_failed")
    BY <1>3 DEF Prepare, AcmeFails, TypeOK, AcmeStatus, Job
  <1>5. PICK r \in WorkerState : /\ Go(w, r) /\ r.jobs = worker[w].jobs /\ r.due = worker[w].due
                                 /\ \/ r.pc = "present" /\ r.acme \in AcmeIds
                                    \/ r.pc = "challenge_failed"
    <2>1. CASE Goto(w, "challenge_failed")
      BY <2>1, GotoState DEF PCs
    <2>2. ASSUME NEW i \in AcmeIds, Go(w, [worker[w] EXCEPT !.pc = "present", !.acme = i])
          PROVE  \E r \in WorkerState :
                    /\ Go(w, r) /\ r.jobs = worker[w].jobs /\ r.due = worker[w].due
                    /\ r.pc = "present" /\ r.acme \in AcmeIds
      <3>1. PICK r : r = [worker[w] EXCEPT !.pc = "present", !.acme = i]
        OBVIOUS
      <3>2. r \in WorkerState /\ r.jobs = worker[w].jobs /\ r.due = worker[w].due
            /\ r.pc = "present" /\ r.acme = i
        BY <1>3, <3>1 DEF WorkerState, PCs
      <3> QED BY <2>2, <3>1, <3>2
    <2> QED BY <1>4, <2>1, <2>2
  <1> QED BY <1>1, <1>2, <1>3, <1>4, <1>5, GoTypes DEF Challenge

LEMMA PresentTypes ==
    ASSUME TypeInv, NEW w \in Workers, Present(w)
    PROVE  TypeInv'
  <1>1. /\ OutsideWorker /\ UNCHANGED <<orders, certs, bound, acme, stranded>>
        /\ worker[w].pc = "present" /\ worker[w].acme \in AcmeIds
    BY DEF Present, At, TypeInv, WorkerSound
  <1>2. RowsKept /\ TablesSound' /\ acme' \in [AcmeIds -> AcmeStatus]
    BY <1>1, SameRows DEF TypeInv, TypeOK
  <1>3. /\ txt' \in SUBSET AcmeIds /\ (Fault \/ UNCHANGED faults)
        /\ Goto(w, "acknowledge") \/ Goto(w, "challenge_failed")
    BY <1>1 DEF Present, CreateRecord, DnsFails, TypeInv, TypeOK
  <1>4. PICK r \in WorkerState : /\ Go(w, r) /\ r.jobs = worker[w].jobs /\ r.due = worker[w].due
                                 /\ r.pc \in {"acknowledge", "challenge_failed"}
                                 /\ r.acme = worker[w].acme
    BY <1>3, GotoState DEF PCs
  <1> QED BY <1>1, <1>2, <1>3, <1>4, GoTypes DEF Challenge

LEMMA AcknowledgeTypes ==
    ASSUME TypeInv, NEW w \in Workers, Acknowledge(w)
    PROVE  TypeInv'
  <1>1. /\ OutsideWorker /\ UNCHANGED <<orders, certs, bound, txt, stranded>>
        /\ worker[w].pc = "acknowledge" /\ worker[w].acme \in AcmeIds
    BY DEF Acknowledge, At, TypeInv, WorkerSound
  <1>2. RowsKept /\ TablesSound' /\ txt' \in SUBSET AcmeIds
    BY <1>1, SameRows DEF TypeInv, TypeOK
  <1>3. /\ acme' \in [AcmeIds -> AcmeStatus] /\ (Fault \/ UNCHANGED faults)
        /\ Goto(w, "payload") \/ Goto(w, "challenge_failed")
    BY <1>1 DEF Acknowledge, AcmeFails, TypeInv, TypeOK, AcmeStatus
  <1>4. PICK r \in WorkerState : /\ Go(w, r) /\ r.jobs = worker[w].jobs /\ r.due = worker[w].due
                                 /\ r.pc \in {"payload", "challenge_failed"}
                                 /\ r.acme = worker[w].acme
    BY <1>3, GotoState DEF PCs
  <1> QED BY <1>1, <1>2, <1>3, <1>4, GoTypes DEF Challenge

LEMMA FinalizeTypes ==
    ASSUME TypeInv, NEW w \in Workers, Finalize(w)
    PROVE  TypeInv'
  <1>1. /\ OutsideWorker /\ UNCHANGED <<orders, certs, bound, txt, stranded>>
        /\ worker[w].pc = "finalize"
    BY DEF Finalize, At
  <1>2. RowsKept /\ TablesSound' /\ txt' \in SUBSET AcmeIds
    BY <1>1, SameRows DEF TypeInv, TypeOK
  <1>3. TheJob(w) \in Job /\ acme \in [AcmeIds -> AcmeStatus]
    BY <1>1, JobFacts DEF Issuance, TypeInv, TypeOK
  <1>4. /\ acme' \in [AcmeIds -> AcmeStatus] /\ (Fault \/ UNCHANGED faults)
        /\ \/ Goto(w, "cleanup") /\ TheJob(w).payload \in AcmeIds
           \/ Goto(w, "issue_failed")
    BY <1>3 DEF Finalize, Download, AcmeFails, AcmeStatus, Job
  <1>5. PICK r \in WorkerState : /\ Go(w, r) /\ r.jobs = worker[w].jobs /\ r.due = worker[w].due
                                 /\ \/ r.pc = "cleanup" /\ TheJob(w).payload \in AcmeIds
                                    \/ r.pc = "issue_failed"
    BY <1>4, GotoState DEF PCs
  <1> QED BY <1>1, <1>2, <1>4, <1>5, GoTypes DEF Issuance

LEMMA CleanupTypes ==
    ASSUME TypeInv, NEW w \in Workers, Cleanup(w)
    PROVE  TypeInv'
  <1>1. /\ OutsideWorker /\ UNCHANGED <<orders, certs, bound, acme, stranded>>
        /\ worker[w].pc = "cleanup" /\ TheJob(w).payload \in AcmeIds
    BY DEF Cleanup, At, TypeInv, WorkerSound
  <1>2. RowsKept /\ TablesSound' /\ acme' \in [AcmeIds -> AcmeStatus]
    BY <1>1, SameRows DEF TypeInv, TypeOK
  <1>3. /\ txt' \in SUBSET AcmeIds /\ (Fault \/ UNCHANGED faults)
        /\ \/ Goto(w, "persist")
           \/ Go(w, [worker[w] EXCEPT !.pc = "persist", !.warned = TRUE])
    BY <1>1 DEF Cleanup, DeleteRecord, DnsFails, TypeInv, TypeOK
  <1>4. worker[w] \in WorkerState
    BY DEF TypeInv, TypeOK
  <1>5. PICK r \in WorkerState : /\ Go(w, r) /\ r.jobs = worker[w].jobs /\ r.due = worker[w].due
                                 /\ r.pc = "persist"
    <2>1. CASE Goto(w, "persist")
      BY <2>1, GotoState DEF PCs
    <2>2. CASE Go(w, [worker[w] EXCEPT !.pc = "persist", !.warned = TRUE])
      <3>1. PICK r : r = [worker[w] EXCEPT !.pc = "persist", !.warned = TRUE]
        OBVIOUS
      <3>2. r \in WorkerState /\ r.jobs = worker[w].jobs /\ r.due = worker[w].due
            /\ r.pc = "persist"
        BY <1>4, <3>1 DEF WorkerState, PCs
      <3> QED BY <2>2, <3>1, <3>2
    <2> QED BY <1>3, <2>1, <2>2
  <1> QED BY <1>1, <1>2, <1>3, <1>5, GoTypes DEF Issuance

LEMMA ReadVersionTypes ==
    ASSUME TypeInv, NEW w \in Workers, ReadVersion(w)
    PROVE  TypeInv'
  <1>1. /\ OutsideWorker /\ UNCHANGED <<orders, certs, bound, txt, acme, stranded, faults>>
        /\ worker[w].pc = "persist" /\ TheJob(w).payload \in AcmeIds
    BY DEF ReadVersion, At, TypeInv, WorkerSound, extVars
  <1>2. /\ RowsKept /\ TablesSound' /\ acme' \in [AcmeIds -> AcmeStatus]
        /\ txt' \in SUBSET AcmeIds
    BY <1>1, SameRows DEF TypeInv, TypeOK
  <1>3. TheOrder(w) \in Order /\ TheOrder(w).cert \in DOMAIN certs /\ worker[w] \in WorkerState
    BY <1>1, JobFacts DEF Issuance
  <1>4. PICK v : v = Len(certs[TheOrder(w).cert].versions) + 1
    OBVIOUS
  <1>5. PICK t : t = Targets(TheOrder(w))
    OBVIOUS
  <1>6. PICK seen : seen = UNION {bound[s] : s \in Sites}
    OBVIOUS
  <1>7. v \in Nat /\ v > 0
    BY <1>3, <1>4, Rows DEF Cert, TypeInv
  <1>8. t \subseteq Sites
    BY <1>3, <1>5 DEF Targets, Order
  <1>9. seen \subseteq Binding
    BY <1>6 DEF TypeInv, TypeOK
  <1>10. PICK r : r = [worker[w] EXCEPT !.pc = "commit", !.version = v, !.targets = t, !.seen = seen]
    OBVIOUS
  <1>11. /\ r \in WorkerState /\ r.jobs = worker[w].jobs /\ r.due = worker[w].due
         /\ r.pc = "commit" /\ r.version = v
    BY <1>3, <1>7, <1>8, <1>9, <1>10 DEF WorkerState, PCs
  <1>12. Go(w, r)
    BY <1>4, <1>5, <1>6, <1>10 DEF ReadVersion
  <1> QED BY <1>1, <1>2, <1>7, <1>11, <1>12, GoTypes DEF Issuance

\* One row changes, to what is still an order for the same thing.
Only(o) == /\ DOMAIN orders' = DOMAIN orders
           /\ \A i \in DOMAIN orders \ {o} : orders'[i] = orders[i]

LEMMA RowSet ==
    ASSUME TypeInv, NEW o \in DOMAIN orders, NEW r \in Order,
           orders' = [orders EXCEPT ![o] = r],
           r.kind = orders[o].kind, r.site = orders[o].site, r.cert = orders[o].cert
    PROVE  /\ RowsKept /\ Only(o) /\ orders'[o] = r
           /\ UNCHANGED <<certs, bound>> => TablesSound'
  <1>1. /\ orders' \in Seq(Order) /\ Len(orders') = Len(orders) /\ DOMAIN orders' = DOMAIN orders
        /\ orders'[o] = r /\ \A i \in DOMAIN orders \ {o} : orders'[i] = orders[i]
    <2>1. orders \in Seq(Order) /\ o \in 1..Len(orders) /\ DOMAIN orders = 1..Len(orders)
          /\ Len(orders) \in Nat
      BY Rows DEF TypeInv, TypeOK
    <2>2. /\ orders' \in Seq(Order) /\ Len(orders') = Len(orders)
          /\ \A i \in 1..Len(orders) : orders'[i] = IF i = o THEN r ELSE orders[i]
      BY <2>1, ExceptSeq
    <2> QED BY <2>1, <2>2
  <1>2. RowsKept /\ Only(o)
    BY <1>1 DEF RowsKept, Only, TypeInv, TypeOK
  <1>3. ASSUME UNCHANGED <<certs, bound>> PROVE TablesSound'
    BY <1>1, <1>2, <1>3, SameRows, StillStored
  <1> QED BY <1>1, <1>2, <1>3

LEMMA StatusSet ==
    ASSUME TypeInv, NEW o \in DOMAIN orders, NEW st \in Statuses, SetStatus(o, st)
    PROVE  /\ RowsKept /\ Only(o)
           /\ UNCHANGED <<certs, bound>> => TablesSound'
           /\ orders'[o].status = st /\ orders'[o].payload = orders[o].payload
  <1>1. orders[o] \in Order
    BY Rows DEF TypeInv
  <1>2. PICK r : r = [orders[o] EXCEPT !.status = st]
    OBVIOUS
  <1>3. /\ r \in Order /\ r.kind = orders[o].kind /\ r.site = orders[o].site
        /\ r.cert = orders[o].cert /\ r.status = st /\ r.payload = orders[o].payload
    BY <1>1, <1>2 DEF Order
  <1>4. orders' = [orders EXCEPT ![o] = r]
    BY <1>2 DEF SetStatus
  <1> QED BY <1>3, <1>4, RowSet

LEMMA PayloadSet ==
    ASSUME TypeInv, NEW o \in DOMAIN orders, NEW p \in AcmeIds,
           orders' = [orders EXCEPT ![o].payload = p]
    PROVE  /\ RowsKept /\ Only(o)
           /\ UNCHANGED <<certs, bound>> => TablesSound'
           /\ orders'[o].status = orders[o].status /\ orders'[o].payload = p
  <1>1. orders[o] \in Order
    BY Rows DEF TypeInv
  <1>2. PICK r : r = [orders[o] EXCEPT !.payload = p]
    OBVIOUS
  <1>3. /\ r \in Order /\ r.kind = orders[o].kind /\ r.site = orders[o].site
        /\ r.cert = orders[o].cert /\ r.payload = p /\ r.status = orders[o].status
    BY <1>1, <1>2 DEF Order
  <1>4. orders' = [orders EXCEPT ![o] = r]
    BY <1>2
  <1> QED BY <1>3, <1>4, RowSet

\* A row is added.
LEMMA RowInserted ==
    ASSUME TypeInv, NEW r \in Order, orders' = Append(orders, r), Len(orders) < MaxOrders
    PROVE  /\ RowsKept
           /\ DOMAIN orders' = DOMAIN orders \cup {Len(orders) + 1}
           /\ orders'[Len(orders) + 1] = r /\ \A i \in DOMAIN orders : orders'[i] = orders[i]
           /\ Len(orders) + 1 \notin DOMAIN orders
  <1>1. /\ orders' \in Seq(Order) /\ Len(orders') = Len(orders) + 1
        /\ DOMAIN orders' = DOMAIN orders \cup {Len(orders) + 1}
        /\ orders'[Len(orders) + 1] = r /\ \A i \in DOMAIN orders : orders'[i] = orders[i]
        /\ Len(orders) + 1 \notin DOMAIN orders
    <2>1. orders \in Seq(Order) /\ Len(orders) \in Nat /\ DOMAIN orders = 1..Len(orders)
      BY Rows DEF TypeInv, TypeOK
    <2> QED BY <2>1, AppendProperties
  <1>2. Len(orders) \in Nat /\ MaxOrders \in Nat
    BY Rows, Constants DEF TypeInv
  <1> QED BY <1>1, <1>2 DEF RowsKept

\* The orders a claim takes are different ones, and none only if there is none.
LEMMA OldestFacts ==
    ASSUME TypeOK, NEW S \in SUBSET DOMAIN orders, NEW q \in Oldest(S)
    PROVE  /\ \E n \in Nat : q \in [1..n -> S] /\ (n = 0 <=> S = {})
           /\ \A i, j \in DOMAIN q : q[i] = q[j] => i = j
  <1>1. IsFiniteSet(S)
    <2>1. Len(orders) \in Nat /\ DOMAIN orders = 1..Len(orders)
      BY Rows
    <2>2. IsFiniteSet(1..Len(orders))
      BY <2>1, FS_Interval
    <2> QED BY <2>1, <2>2, FS_Subset
  <1>2. Cardinality(S) \in Nat /\ (Cardinality(S) = 0 <=> S = {})
    BY <1>1, FS_CardinalityType, FS_EmptySet
  <1>3. PICK n : n = IF Cardinality(S) < Batch THEN Cardinality(S) ELSE Batch
    OBVIOUS
  <1>4. n \in Nat /\ (n = 0 <=> S = {})
    BY <1>2, <1>3, Constants
  <1>5. q \in [1..n -> S] /\ \A i, j \in 1..n : i < j => q[i] < q[j]
    BY <1>3 DEF Oldest
  <1>6. S \subseteq Nat
    BY Rows
  <1>7. \A i, j \in 1..n : q[i] = q[j] => i = j
    BY <1>4, <1>5, <1>6
  <1> QED BY <1>4, <1>5, <1>7

\* What a claim hands out, and what it marks.
Claimed(w, from, to, first, next, jobs) ==
    /\ \A j \in DOMAIN jobs : /\ jobs[j].order \in DOMAIN orders
                              /\ orders[jobs[j].order].status = from
                              /\ jobs[j].payload = orders[jobs[j].order].payload
    /\ \A i, j \in DOMAIN jobs : jobs[i].order = jobs[j].order => i = j
    /\ DOMAIN orders' = DOMAIN orders
    /\ \A o \in DOMAIN orders :
         orders'[o] = IF \E j \in DOMAIN jobs : jobs[j].order = o
                        THEN [orders[o] EXCEPT !.status = to] ELSE orders[o]
    /\ worker' \in [Workers -> WorkerState]
    /\ \A v \in Workers \ {w} : worker'[v] = worker[v]
    /\ worker'[w].jobs = jobs /\ worker'[w].due = {}
    /\ worker'[w].pc = IF jobs = <<>> THEN next ELSE first

LEMMA ClaimFacts ==
    ASSUME TypeInv, NEW w \in Workers, NEW from, NEW to \in Statuses,
           NEW first \in PCs, NEW next \in PCs, Claim(w, from, to, first, next)
    PROVE  RowsKept /\ \E jobs \in Seq(Job) : Claimed(w, from, to, first, next, jobs)
  <1> DEFINE ready == {i \in DOMAIN orders : orders[i].status = from /\ orders[i].zone # Null}
             jobsOf(q) == [j \in DOMAIN q |->
                             [order |-> q[j], payload |-> orders[q[j]].payload,
                              usable |-> provider.usable]]
  <1>0. TypeOK /\ provider.usable \in BOOLEAN
    BY DEF TypeInv, TypeOK
  <1>1. PICK mine \in Oldest(ready) :
          /\ orders' = [i \in DOMAIN orders |->
                          IF \E j \in DOMAIN mine : mine[j] = i
                            THEN [orders[i] EXCEPT !.status = to] ELSE orders[i]]
          /\ Go(w, [Idle EXCEPT !.pc = IF ready = {} THEN next ELSE first,
                                !.jobs = jobsOf(mine)])
    BY DEF Claim
  <1>2. /\ \E n \in Nat : mine \in [1..n -> ready] /\ (n = 0 <=> ready = {})
        /\ \A i, j \in DOMAIN mine : mine[i] = mine[j] => i = j
    <2>1. ready \in SUBSET DOMAIN orders
      OBVIOUS
    <2> HIDE DEF ready
    <2> QED BY <1>0, <2>1, OldestFacts
  <1>3. PICK n \in Nat : mine \in [1..n -> ready] /\ (n = 0 <=> ready = {})
    BY <1>2
  <1>4. PICK jobs : jobs = jobsOf(mine)
    OBVIOUS
  <1>5. /\ DOMAIN jobs = 1..n /\ DOMAIN mine = 1..n
        /\ \A j \in 1..n : /\ mine[j] \in DOMAIN orders /\ orders[mine[j]].status = from
                           /\ jobs[j].order = mine[j]
                           /\ jobs[j].payload = orders[mine[j]].payload
    BY <1>3, <1>4
  <1>6. jobs \in Seq(Job)
    <2>1. ASSUME NEW j \in 1..n PROVE jobs[j] \in Job
      <3>1. mine[j] \in OrderIds /\ orders[mine[j]] \in Order
        BY <1>0, <1>5, Rows
      <3>2. orders[mine[j]].payload \in AcmeIds \cup {NoAcme}
        BY <3>1 DEF Order
      <3>3. jobs[j] = [order |-> mine[j], payload |-> orders[mine[j]].payload,
                       usable |-> provider.usable]
        BY <1>4, <1>5
      <3>4. PICK p \in AcmeIds \cup {NoAcme} : p = orders[mine[j]].payload
        BY <3>2
      <3>5. PICK u \in BOOLEAN : u = provider.usable
        BY <1>0
      <3>6. jobs[j] = [order |-> mine[j], payload |-> p, usable |-> u]
        BY <3>3, <3>4, <3>5, Zenon
      <3>7. CASE u = TRUE
        BY <3>1, <3>6, <3>7 DEF Job
      <3>8. CASE u = FALSE
        BY <3>1, <3>6, <3>8 DEF Job
      <3> QED BY <3>7, <3>8
    <2>2. jobs = [j \in 1..n |-> jobs[j]]
      BY <1>4, <1>5
    <2> QED BY <1>3, <2>1, <2>2, IsASeq
  <1>7. jobs = <<>> <=> ready = {}
    <2>1. jobs # <<>> <=> Len(jobs) > 0
      BY <1>6, JobsOf
    <2>2. DOMAIN jobs = 1..Len(jobs) /\ Len(jobs) \in Nat
      BY <1>6, JobsOf
    <2>3. Len(jobs) = n
      BY <1>3, <1>5, <2>2
    <2> QED BY <1>3, <2>1, <2>3
  <1>8. PICK r : r = [Idle EXCEPT !.pc = IF ready = {} THEN next ELSE first, !.jobs = jobs]
    OBVIOUS
  <1>9. /\ r \in WorkerState /\ r.jobs = jobs /\ r.due = {}
        /\ r.pc = IF jobs = <<>> THEN next ELSE first
    <2>1. PICK pc \in PCs : pc = IF ready = {} THEN next ELSE first
      OBVIOUS
    <2>2. r = [Idle EXCEPT !.pc = pc, !.jobs = jobs]
      BY <1>8, <2>1
    <2>3. r \in WorkerState /\ r.jobs = jobs /\ r.due = {} /\ r.pc = pc
      BY <1>6, <2>2, IdleType DEF Idle, WorkerState
    <2> QED BY <1>7, <2>1, <2>3
  <1>10. Go(w, r)
    BY <1>1, <1>4, <1>8
  <1>11. /\ worker' \in [Workers -> WorkerState] /\ worker'[w] = r
         /\ \A v \in Workers \ {w} : worker'[v] = worker[v]
    BY <1>0, <1>9, <1>10, GoFacts
  <1>12. /\ DOMAIN orders' = DOMAIN orders
         /\ \A o \in DOMAIN orders :
              orders'[o] = IF \E j \in DOMAIN jobs : jobs[j].order = o
                             THEN [orders[o] EXCEPT !.status = to] ELSE orders[o]
    BY <1>1, <1>5
  <1>13. Claimed(w, from, to, first, next, jobs)
    <2>1. \A i, j \in DOMAIN jobs : jobs[i].order = jobs[j].order => i = j
      BY <1>2, <1>5
    <2> QED BY <1>5, <1>9, <1>11, <1>12, <2>1 DEF Claimed
  <1>14. RowsKept
    <2>1. ASSUME NEW o \in DOMAIN orders
          PROVE  /\ orders'[o] \in Order /\ orders'[o].kind = orders[o].kind
                 /\ orders'[o].site = orders[o].site /\ orders'[o].cert = orders[o].cert
      <3>1. orders[o] \in Order
        BY <1>0, Rows
      <3> QED BY <1>12, <3>1 DEF Order
    <2>2. orders' = [o \in DOMAIN orders' |-> orders'[o]]
      BY <1>1
    <2>3. orders' \in Seq(Order) /\ Len(orders') = Len(orders)
      BY <1>0, <1>12, <2>1, <2>2, RowsChanged
    <2> QED BY <1>0, <1>12, <2>1, <2>3 DEF RowsKept, TypeOK
  <1> QED BY <1>6, <1>13, <1>14

\* A worker that exits, or comes to the end of a job.
LEMMA ExitTypes ==
    ASSUME TypeInv, NEW w \in Workers, Exit(w), OutsideWorker,
           UNCHANGED <<orders, certs, bound, txt, acme>>, Fault \/ UNCHANGED faults
    PROVE  TypeInv'
  <1>1. TypeOK
    BY DEF TypeInv
  <1>2. /\ worker' \in [Workers -> WorkerState] /\ worker'[w] = Idle
        /\ \A v \in Workers \ {w} : worker'[v] = worker[v]
        /\ stranded' \in SUBSET OrderIds
    BY <1>1, ExitFacts
  <1>3. RowsKept /\ CertsKept /\ TablesSound'
    BY SameRows
  <1>4. WorkerSound(w)'
    BY <1>2, IdleSound
  <1>5. faults' \in 0..MaxFaults
    BY Faults
  <1>6. /\ bound' \in [Sites -> SUBSET Binding] /\ txt' \in SUBSET AcmeIds
        /\ acme' \in [AcmeIds -> AcmeStatus]
    BY <1>1 DEF TypeOK
  <1> QED BY <1>2, <1>3, <1>4, <1>5, <1>6, WorkerKeepsTypes

LEMMA NextTypes ==
    ASSUME TypeInv, NEW w \in Workers, OutsideWorker, RowsKept, CertsKept, TablesSound',
           worker[w].pc \in Challenge \cup Issuance,
           NEW first, NEW next, NextJob(w, first, next),
           \/ first = "prepare" /\ next = "ready"
           \/ first = "finalize" /\ next = "select",
           bound' \in [Sites -> SUBSET Binding], UNCHANGED <<txt, acme, stranded, faults>>
    PROVE  TypeInv'
  <1>1. TypeOK /\ worker[w].jobs # <<>>
    BY JobFacts DEF TypeInv
  <1>2. first \in PCs /\ next \in PCs
    BY DEF PCs
  <1>3. /\ worker' \in [Workers -> WorkerState]
        /\ \A v \in Workers \ {w} : worker'[v] = worker[v]
    BY <1>1, <1>2, NextFacts
  <1>4. WorkerSound(w)'
    BY NextSound
  <1>5. /\ txt' \in SUBSET AcmeIds /\ acme' \in [AcmeIds -> AcmeStatus]
        /\ stranded' \in SUBSET OrderIds /\ faults' \in 0..MaxFaults
    BY <1>1 DEF TypeOK
  <1> QED BY <1>3, <1>4, <1>5, WorkerKeepsTypes

LEMMA CrashTypes ==
    ASSUME TypeInv, NEW w \in Workers, Crash(w)
    PROVE  TypeInv'
  <1>1. Exit(w) /\ OutsideWorker /\ UNCHANGED <<orders, certs, bound, txt, acme>> /\ Fault
    BY DEF Crash, extVars
  <1> QED BY <1>1, ExitTypes

LEMMA FailIssueTypes ==
    ASSUME TypeInv, NEW w \in Workers, FailIssue(w)
    PROVE  TypeInv'
  <1>1. /\ OutsideWorker /\ UNCHANGED <<certs, bound, txt, acme, stranded, faults>>
        /\ worker[w].pc = "issue_failed" /\ NextJob(w, "finalize", "select")
        /\ SetStatus(TheJob(w).order, "issue_failed")
    BY DEF FailIssue, At, extVars
  <1>2. TheJob(w).order \in DOMAIN orders
    BY <1>1, JobFacts DEF Issuance
  <1>3. RowsKept /\ TablesSound'
    BY <1>1, <1>2, StatusSet DEF Statuses, FailedStatuses
  <1>4. CertsKept /\ bound' \in [Sites -> SUBSET Binding]
    BY <1>1, SameRows DEF TypeInv, TypeOK
  <1> QED BY <1>1, <1>3, <1>4, NextTypes DEF Issuance

LEMMA EndChallengeTypes ==
    ASSUME TypeInv, NEW w \in Workers, EndChallenge(w)
    PROVE  TypeInv'
  <1>1. /\ OutsideWorker /\ UNCHANGED <<certs, bound, txt, acme, faults>>
        /\ worker[w].pc \in Challenge
    BY DEF EndChallenge, extVars, Challenge
  <1>2. CASE Exit(w) /\ UNCHANGED orders
    BY <1>1, <1>2, ExitTypes
  <1>3. CASE /\ \E st \in Statuses : SetStatus(TheJob(w).order, st)
             /\ NextJob(w, "prepare", "ready") /\ UNCHANGED stranded
    <2>1. TheJob(w).order \in DOMAIN orders
      BY <1>1, JobFacts
    <2>2. RowsKept /\ TablesSound'
      BY <1>1, <1>3, <2>1, StatusSet
    <2>3. CertsKept /\ bound' \in [Sites -> SUBSET Binding]
      BY <1>1, SameRows DEF TypeInv, TypeOK
    <2> QED BY <1>1, <1>3, <2>2, <2>3, NextTypes
  <1> QED BY <1>2, <1>3 DEF EndChallenge, Statuses, ActiveStatuses, FailedStatuses

LEMMA SavePayloadTypes ==
    ASSUME TypeInv, NEW w \in Workers, SavePayload(w)
    PROVE  TypeInv'
  <1>1. /\ OutsideWorker /\ UNCHANGED <<certs, bound, txt, acme, stranded, faults>>
        /\ worker[w].pc = "payload" /\ Goto(w, "presented")
        /\ orders' = [orders EXCEPT ![TheJob(w).order].payload = worker[w].acme]
        /\ worker[w].acme \in AcmeIds
    BY DEF SavePayload, At, extVars, TypeInv, WorkerSound
  <1>2. TheJob(w).order \in DOMAIN orders
    BY <1>1, JobFacts DEF Challenge
  <1>3. RowsKept /\ TablesSound'
    <2>1. PICK o \in DOMAIN orders : o = TheJob(w).order
      BY <1>2
    <2>2. PICK p \in AcmeIds : p = worker[w].acme
      BY <1>1
    <2>3. orders' = [orders EXCEPT ![o].payload = p]
      BY <1>1, <2>1, <2>2
    <2> QED BY <1>1, <2>3, PayloadSet
  <1>4. PICK r \in WorkerState : /\ Go(w, r) /\ r.jobs = worker[w].jobs /\ r.due = worker[w].due
                                 /\ r.pc = "presented"
    BY <1>1, GotoState DEF PCs
  <1>5. txt' \in SUBSET AcmeIds /\ acme' \in [AcmeIds -> AcmeStatus]
    BY <1>1 DEF TypeInv, TypeOK
  <1> QED BY <1>1, <1>3, <1>4, <1>5, GoTypes DEF Challenge

LEMMA ClaimTypes ==
    ASSUME TypeInv, NEW w \in Workers, ClaimPending(w) \/ ClaimReady(w)
    PROVE  TypeInv'
  <1>1. OutsideWorker /\ UNCHANGED <<certs, bound, txt, acme, stranded, faults>>
    BY DEF ClaimPending, ClaimReady, extVars
  <1>2. PICK from, to \in Statuses, first \in PCs, next \in PCs :
          /\ Claim(w, from, to, first, next)
          /\ \/ first = "prepare" /\ next = "ready"
             \/ first = "finalize" /\ next = "select"
    <2>1. ActiveStatuses \subseteq Statuses
          /\ {"pending_dns_challenge", "dns_challenge_presented", "dns_challenge_presenting",
              "issuing"} \subseteq ActiveStatuses
          /\ {"prepare", "ready", "finalize", "select"} \subseteq PCs
      BY DEF Statuses, ActiveStatuses, PCs
    <2>2. CASE ClaimPending(w)
      BY <2>1, <2>2 DEF ClaimPending
    <2>3. CASE ClaimReady(w)
      BY <2>1, <2>3 DEF ClaimReady
    <2> QED BY <2>2, <2>3
  <1>3. RowsKept /\ \E jobs \in Seq(Job) : Claimed(w, from, to, first, next, jobs)
    BY <1>2, ClaimFacts
  <1>4. PICK jobs \in Seq(Job) : Claimed(w, from, to, first, next, jobs)
    BY <1>3
  <1>5. /\ worker' \in [Workers -> WorkerState]
        /\ \A v \in Workers \ {w} : worker'[v] = worker[v]
        /\ worker'[w].jobs = jobs /\ worker'[w].due = {}
        /\ worker'[w].pc = IF jobs = <<>> THEN next ELSE first
        /\ \A j \in DOMAIN jobs : jobs[j].order \in DOMAIN orders
        /\ DOMAIN orders' = DOMAIN orders
    BY <1>4 DEF Claimed
  <1>6. WorkerSound(w)'
    <2>1. Mine(w)' \subseteq DOMAIN orders'
      BY <1>5 DEF Mine
    <2>2. worker'[w].jobs # <<>> <=> worker'[w].pc \in Challenge \cup Issuance
      BY <1>2, <1>5 DEF Challenge, Issuance
    <2>3. worker'[w].pc \in {"prepare", "ready", "finalize", "select"}
      BY <1>2, <1>5
    <2> QED BY <1>5, <2>1, <2>2, <2>3 DEF WorkerSound
  <1>7. CertsKept /\ TablesSound'
    BY <1>1, <1>3, <1>5, SameRows, StillStored
  <1>8. /\ bound' \in [Sites -> SUBSET Binding] /\ txt' \in SUBSET AcmeIds
        /\ acme' \in [AcmeIds -> AcmeStatus]
        /\ stranded' \in SUBSET OrderIds /\ faults' \in 0..MaxFaults
    BY <1>1 DEF TypeInv, TypeOK
  <1> QED BY <1>1, <1>3, <1>5, <1>6, <1>7, <1>8, WorkerKeepsTypes

\* A renewal is enqueued, or there is one already, or the worker exits.
LEMMA InsertFacts ==
    ASSUME TypeInv, NEW w \in Workers, InsertRenewal(w)
    PROVE  \/ Exit(w) /\ UNCHANGED orders
           \/ /\ UNCHANGED stranded
              /\ \E c \in worker[w].due :
                   \/ UNCHANGED orders
                   \/ /\ ~RenewalActive(c, NoOrder) /\ Len(orders) < MaxOrders
                      /\ orders' = Append(orders, NewOrder("renew", NoSite, c, zone.id))
              /\ \E r \in WorkerState :
                   Go(w, r) /\ r.jobs = <<>> /\ r.due \subseteq worker[w].due
                   /\ r.pc \in {"pending", "insert"}
  <1>1. worker[w] \in WorkerState /\ WorkerSound(w) /\ worker[w].pc = "insert"
        /\ worker[w].jobs = <<>>
    <2>1. worker[w] \in WorkerState /\ WorkerSound(w) /\ worker[w].pc = "insert"
      BY DEF TypeInv, TypeOK, InsertRenewal, At
    <2> QED BY <2>1 DEF WorkerSound, Challenge, Issuance
  <1>2. Len(orders) \in Nat /\ Len(orders) <= MaxOrders /\ MaxOrders \in Nat
    BY Rows, Constants DEF TypeInv, TypeOK
  <1>3. CASE Exit(w) /\ UNCHANGED orders
    BY <1>3
  <1>4. ASSUME NEW c \in worker[w].due,
               /\ orders' = IF RenewalActive(c, NoOrder) \/ Len(orders) = MaxOrders THEN orders
                             ELSE Append(orders, NewOrder("renew", NoSite, c, zone.id))
               /\ Go(w, IF worker[w].due = {c}
                           THEN [Idle EXCEPT !.pc = "pending"]
                           ELSE [worker[w] EXCEPT !.due = @ \ {c}])
               /\ UNCHANGED stranded
        PROVE  /\ \/ UNCHANGED orders
                  \/ /\ ~RenewalActive(c, NoOrder) /\ Len(orders) < MaxOrders
                     /\ orders' = Append(orders, NewOrder("renew", NoSite, c, zone.id))
               /\ \E r \in WorkerState :
                   Go(w, r) /\ r.jobs = <<>> /\ r.due \subseteq worker[w].due
                   /\ r.pc \in {"pending", "insert"}
    <2>1. \/ UNCHANGED orders
          \/ /\ ~RenewalActive(c, NoOrder) /\ Len(orders) < MaxOrders
             /\ orders' = Append(orders, NewOrder("renew", NoSite, c, zone.id))
      BY <1>2, <1>4
    <2>2. PICK r : r = IF worker[w].due = {c}
                           THEN [Idle EXCEPT !.pc = "pending"]
                           ELSE [worker[w] EXCEPT !.due = @ \ {c}]
      OBVIOUS
    <2>3. /\ r \in WorkerState /\ r.jobs = <<>> /\ r.due \subseteq worker[w].due
          /\ r.pc \in {"pending", "insert"}
      <3>1. CASE worker[w].due = {c}
        BY <2>2, <3>1, IdleType DEF Idle, WorkerState, PCs
      <3>2. CASE worker[w].due # {c}
        <4>1. r = [worker[w] EXCEPT !.due = worker[w].due \ {c}]
          BY <2>2, <3>2
        <4> QED BY <1>1, <4>1 DEF WorkerState
      <3> QED BY <3>1, <3>2
    <2>4. Go(w, r)
      BY <1>4, <2>2
    <2> QED BY <2>1, <2>3, <2>4
  <1> QED BY <1>3, <1>4 DEF InsertRenewal

LEMMA InsertTypes ==
    ASSUME TypeInv, NEW w \in Workers, InsertRenewal(w)
    PROVE  TypeInv'
  <1>1. OutsideWorker /\ UNCHANGED <<certs, bound, txt, acme, faults>>
    BY DEF InsertRenewal, extVars
  <1>2. CASE Exit(w) /\ UNCHANGED orders
    BY <1>1, <1>2, ExitTypes
  <1>3. ASSUME NEW c \in worker[w].due, NEW r \in WorkerState, UNCHANGED stranded,
               \/ UNCHANGED orders
               \/ /\ Len(orders) < MaxOrders
                  /\ orders' = Append(orders, NewOrder("renew", NoSite, c, zone.id)),
               Go(w, r) /\ r.jobs = <<>> /\ r.due \subseteq worker[w].due
                 /\ r.pc \in {"pending", "insert"}
        PROVE  TypeInv'
    <2>1. TypeOK /\ c \in DOMAIN certs /\ worker[w].due \subseteq DOMAIN certs /\ c \in CertIds
      BY Rows DEF TypeInv, WorkerSound
    <2>2. RowsKept /\ \A o \in DOMAIN orders' \ DOMAIN orders : orders'[o].cert = c
      <3>1. CASE UNCHANGED orders
        BY <3>1, SameRows
      <3>2. CASE Len(orders) < MaxOrders
                 /\ orders' = Append(orders, NewOrder("renew", NoSite, c, zone.id))
        <4>1. zone.id \in Ids \cup {Null}
          BY <2>1 DEF TypeOK
        <4>2. PICK n \in Order : n = NewOrder("renew", NoSite, c, zone.id)
          BY <2>1, <4>1, NewOrderType
        <4>3. n.cert = c
          BY <4>2 DEF NewOrder
        <4> QED BY <3>2, <4>2, <4>3, RowInserted
      <3> QED BY <1>3, <3>1, <3>2
    <2>3. CertsKept /\ TablesSound'
      BY <1>1, <2>1, <2>2, SameRows, StillStored
    <2>4. /\ worker' \in [Workers -> WorkerState] /\ worker'[w] = r
          /\ \A v \in Workers \ {w} : worker'[v] = worker[v]
      BY <1>3, <2>1, GoFacts
    <2>5. WorkerSound(w)'
      <3>1. Mine(w)' = {}
        BY <1>3, <2>4 DEF Mine
      <3> QED BY <1>1, <1>3, <2>1, <2>4, <3>1 DEF WorkerSound, Challenge, Issuance
    <2>6. /\ bound' \in [Sites -> SUBSET Binding] /\ txt' \in SUBSET AcmeIds
          /\ acme' \in [AcmeIds -> AcmeStatus]
          /\ stranded' \in SUBSET OrderIds /\ faults' \in 0..MaxFaults
      BY <1>1, <1>3, <2>1 DEF TypeOK
    <2> QED BY <1>1, <2>2, <2>3, <2>4, <2>5, <2>6, WorkerKeepsTypes
  <1> QED BY <1>2, <1>3, InsertFacts

\* What is stored when version v of certificate c was issued for order o.
Stored(w, o, c, v) ==
    /\ RowsKept /\ Only(o) /\ orders'[o].status = "issued"
    /\ orders'[o].payload = orders[o].payload
    /\ orders'[o].warned = worker[w].warned
    /\ CertsKept /\ DOMAIN certs' = DOMAIN certs
    /\ \A d \in DOMAIN certs \ {c} : certs'[d] = certs[d]
    /\ certs'[c].versions = Append(Versions(c), o)
    /\ bound' \in [Sites -> SUBSET Binding]
    /\ \A s \in Sites :
         bound'[s] = IF s \in worker[w].targets
                       THEN (bound[s] \ worker[w].seen) \cup {[cert |-> c, version |-> v]}
                       ELSE bound[s]

LEMMA CommitFacts ==
    ASSUME TypeInv, NEW w \in Workers, Commit(w)
    PROVE  \/ /\ Exit(w) /\ UNCHANGED <<orders, certs, bound>>
              /\ Len(Versions(TheOrder(w).cert)) >= worker[w].version
           \/ /\ NextJob(w, "finalize", "select") /\ UNCHANGED stranded
              /\ Len(Versions(TheOrder(w).cert)) < worker[w].version
              /\ Stored(w, TheJob(w).order, TheOrder(w).cert, worker[w].version)
  <1> DEFINE o == TheJob(w).order  c == TheOrder(w).cert  v == worker[w].version
  <1>1. worker[w].pc = "commit"
    BY DEF Commit, At
  <1>2. /\ o \in DOMAIN orders /\ orders[o] \in Order /\ c = orders[o].cert /\ c \in DOMAIN certs
        /\ worker[w] \in WorkerState /\ v \in Nat /\ v > 0 /\ TypeOK
    BY <1>1, JobFacts, WorkerFields DEF Issuance, TypeInv, WorkerSound
  <1>3. Versions(c) \in Seq(OrderIds) /\ Len(Versions(c)) \in Nat /\ certs[c] \in Cert
        /\ o \in OrderIds /\ c \in CertIds
    BY <1>2, Rows DEF Versions, Cert
  <1>4. CASE Len(certs[c].versions) >= v
    BY <1>4 DEF Commit, Versions
  <1>5. CASE Len(certs[c].versions) < v
    <2>1. /\ certs' = [certs EXCEPT ![c] = [active |-> TRUE, due |-> FALSE,
                                            versions |-> Append(certs[c].versions, o)]]
          /\ bound' = [s \in Sites |->
                         IF s \in worker[w].targets
                           THEN (bound[s] \ worker[w].seen) \cup {[cert |-> c, version |-> v]}
                           ELSE bound[s]]
          /\ orders' = [orders EXCEPT ![o].status = "issued", ![o].warned = worker[w].warned]
          /\ NextJob(w, "finalize", "select")
          /\ UNCHANGED stranded
      BY <1>2, <1>3, <1>5 DEF Commit, Versions
    <2>2. /\ RowsKept /\ Only(o) /\ orders'[o].status = "issued"
          /\ orders'[o].payload = orders[o].payload /\ orders'[o].warned = worker[w].warned
      <3>1. PICK b \in BOOLEAN : b = worker[w].warned
        BY <1>2, WorkerFields
      <3>2. PICK r : r = [orders[o] EXCEPT !.status = "issued", !.warned = b]
        OBVIOUS
      <3>3. /\ r \in Order /\ r.kind = orders[o].kind /\ r.site = orders[o].site
            /\ r.cert = orders[o].cert /\ r.payload = orders[o].payload
            /\ r.status = "issued" /\ r.warned = b
        <4>1. PICK x \in Order : x = orders[o]
          BY <1>2
        <4> HIDE DEF o, c, v
        <4>2. r = [x EXCEPT !.status = "issued", !.warned = b]
          BY <3>2, <4>1
        <4>3. /\ r \in Order /\ r.kind = x.kind /\ r.site = x.site
              /\ r.cert = x.cert /\ r.payload = x.payload
              /\ r.status = "issued" /\ r.warned = b
          BY <4>2, IssuedChange
        <4> QED BY <4>1, <4>3, Zenon
      <3> HIDE DEF o, c, v
      <3>4. orders' = [orders EXCEPT ![o].status = "issued", ![o].warned = b]
        BY <2>1, <3>1, Zenon
      <3>5. orders' = [orders EXCEPT ![o] = r]
        BY <1>2, <3>2, <3>4, Zenon
      <3> QED BY <1>2, <3>1, <3>3, <3>5, RowSet
    <2>3. /\ CertsKept /\ DOMAIN certs' = DOMAIN certs
          /\ \A d \in DOMAIN certs \ {c} : certs'[d] = certs[d]
          /\ certs'[c].versions = Append(Versions(c), o)
      <3>1. PICK n : n = [active |-> TRUE, due |-> FALSE, versions |-> Append(certs[c].versions, o)]
        OBVIOUS
      <3>2. n \in Cert /\ n.versions = Append(Versions(c), o)
        BY <1>2, <1>3, <3>1 DEF Cert, Versions
      <3>3. certs' = [certs EXCEPT ![c] = n]
        BY <2>1, <3>1
      <3>4. certs \in Seq(Cert) /\ c \in 1..Len(certs) /\ Len(certs) <= MaxOrders
            /\ DOMAIN certs = 1..Len(certs) /\ Len(certs) \in Nat
        BY <1>2, Rows DEF TypeOK
      <3>5. /\ certs' \in Seq(Cert) /\ Len(certs') = Len(certs)
            /\ \A d \in 1..Len(certs) : certs'[d] = IF d = c THEN n ELSE certs[d]
        BY <3>2, <3>3, <3>4, ExceptSeq
      <3> QED BY <3>2, <3>4, <3>5 DEF CertsKept
    <2>4. bound' \in [Sites -> SUBSET Binding]
      BY <1>2, <1>3, <2>1 DEF TypeOK, Binding
    <2>5. \A s \in Sites :
             bound'[s] = IF s \in worker[w].targets
                           THEN (bound[s] \ worker[w].seen) \cup {[cert |-> c, version |-> v]}
                           ELSE bound[s]
      BY <2>1
    <2>6. NextJob(w, "finalize", "select") /\ UNCHANGED stranded /\ Len(Versions(c)) < v
      BY <1>5, <2>1 DEF Versions
    <2>7. Stored(w, o, c, v)
      BY <2>2, <2>3, <2>4, <2>5, Zenon DEF Stored
    <2> QED BY <2>6, <2>7
  <1> QED BY <1>2, <1>3, <1>4, <1>5 DEF Versions

LEMMA CommitTypes ==
    ASSUME TypeInv, NEW w \in Workers, Commit(w)
    PROVE  TypeInv'
  <1> DEFINE o == TheJob(w).order  c == TheOrder(w).cert
  <1>1. /\ OutsideWorker /\ UNCHANGED <<txt, acme, faults>> /\ worker[w].pc = "commit"
    BY DEF Commit, At, extVars
  <1>2. /\ o \in DOMAIN orders /\ orders[o] \in Order /\ c = orders[o].cert /\ c \in DOMAIN certs
        /\ Versions(c) \in Seq(OrderIds)
    BY <1>1, JobFacts, Rows DEF Issuance, TypeInv, Versions, Cert
  <1>3. CASE Exit(w) /\ UNCHANGED <<orders, certs, bound>>
    BY <1>1, <1>3, ExitTypes
  <1>4. ASSUME NextJob(w, "finalize", "select"), UNCHANGED stranded,
               Stored(w, o, c, worker[w].version)
        PROVE  TypeInv'
    <2>0. /\ RowsKept /\ Only(o) /\ CertsKept /\ DOMAIN certs' = DOMAIN certs
          /\ \A d \in DOMAIN certs \ {c} : certs'[d] = certs[d]
          /\ certs'[c].versions = Append(Versions(c), o)
          /\ bound' \in [Sites -> SUBSET Binding]
      BY <1>4, Zenon DEF Stored
    <2>1. TablesSound
      BY DEF TypeInv
    <2>2. \A i \in DOMAIN orders' : orders'[i].cert \in DOMAIN certs'
      BY <2>0, <2>1 DEF TablesSound, RowsKept, Only
    <2>3. ASSUME NEW s \in Sites, NEW b \in bound'[s] PROVE b.cert \in DOMAIN certs'
      <3>1. CASE b \in bound[s]
        BY <2>0, <2>1, <3>1 DEF TablesSound
      <3>2. CASE b \notin bound[s]
        <4>1. b = [cert |-> c, version |-> worker[w].version]
          BY <1>4, <3>2 DEF Stored
        <4> QED BY <1>2, <2>0, <4>1
      <3> QED BY <3>1, <3>2
    <2>4. ASSUME NEW d \in DOMAIN certs', NEW k \in DOMAIN Versions(d)'
          PROVE  Versions(d)'[k] \in DOMAIN orders' /\ orders'[Versions(d)'[k]].cert = d
      <3>1. CASE d # c
        <4>1. Versions(d)' = Versions(d) /\ d \in DOMAIN certs
          BY <2>0, <3>1 DEF Versions
        <4> QED BY <2>0, <2>1, <4>1 DEF TablesSound, RowsKept
      <3>2. CASE d = c
        <4>1. Versions(d)' = Append(Versions(c), o)
          BY <2>0, <3>2 DEF Versions
        <4>2. \/ k \in DOMAIN Versions(c) /\ Versions(d)'[k] = Versions(c)[k]
              \/ Versions(d)'[k] = o
          BY <1>2, <4>1
        <4>3. /\ Versions(d)'[k] \in DOMAIN orders /\ orders[Versions(d)'[k]].cert = d
          BY <1>2, <2>1, <3>2, <4>2 DEF TablesSound
        <4> QED BY <2>0, <4>3 DEF RowsKept
      <3> QED BY <3>1, <3>2
    <2>5. TablesSound'
      BY <2>2, <2>3, <2>4 DEF TablesSound
    <2> QED BY <1>1, <1>4, <2>0, <2>5, NextTypes DEF Issuance
  <1> QED BY <1>3, <1>4, CommitFacts

-----------------------------------------------------------------------------
(* The steps of requests keep the types.                                   *)

LEMMA ThenFacts ==
    ASSUME TypeOK, NEW a \in Admins, NEW r \in AdminState, Then(a, r)
    PROVE  /\ req' \in [Admins -> AdminState] /\ req'[a] = r
           /\ \A b \in Admins \ {a} : req'[b] = req[b]
  BY DEF TypeOK, Then

LEMMA AskTypes ==
    ASSUME TypeInv, NEW a \in Admins, Ask(a)
    PROVE  requests' \in 0..MaxRequests /\ FreshId \in Ids
  BY Constants DEF TypeInv, TypeOK, Ask, FreshId, Ids

LEMMA AdminFields ==
    ASSUME TypeOK, NEW a \in Admins
    PROVE  /\ req[a] \in AdminState /\ req[a].op \in Ops /\ req[a].site \in Sites \cup {NoSite}
           /\ req[a].cert \in CertIds \cup {NoCert} /\ req[a].order \in OrderIds \cup {NoOrder}
           /\ req[a].read \in Seq(Order) /\ req[a].zone \in Ids \cup {Null}
           /\ req[a].provider \in Ids \cup {Null} /\ req[a].enable \in BOOLEAN
  BY DEF TypeOK, AdminState

\* A request that goes on and leaves orders and certificates as they are.
LEMMA QuietTypes ==
    ASSUME TypeInv, NEW a \in Admins, NEW r \in AdminState, Then(a, r), OutsideHub,
           UNCHANGED <<orders, certs, bound, raced>>,
           provider' \in [id: Ids \cup {Null}, usable: BOOLEAN],
           zone' \in [id: Ids \cup {Null}, active: BOOLEAN],
           requests' \in 0..MaxRequests,
           r.cert \in DOMAIN certs \cup {NoCert},
           r.op = "issue" => r.cert = NoCert,
           r.op \in {"check", "renew"} => r.site \in Sites,
           r.op = "requeue" => r.order \in DOMAIN orders /\ r.read = <<orders[r.order]>>
                               /\ orders[r.order].status # "issued"
    PROVE  TypeInv'
  <1>1. TypeOK
    BY DEF TypeInv
  <1>2. /\ req' \in [Admins -> AdminState] /\ req'[a] = r
        /\ \A b \in Admins \ {a} : req'[b] = req[b]
    BY <1>1, ThenFacts
  <1>3. RowsKept /\ CertsKept /\ TablesSound'
    BY SameRows
  <1>4. AdminSound(a)'
    <2>1. CASE r.op = "requeue"
      <3>1. Len(r.read) = 1 /\ r.read[1] = orders[r.order]
        BY <2>1
      <3> QED BY <1>2, <2>1, <3>1 DEF AdminSound
    <2>2. CASE r.op # "requeue"
      BY <1>2, <2>2 DEF AdminSound
    <2> QED BY <2>1, <2>2
  <1>5. /\ UNCHANGED <<bound, worker, extVars, dues, faults>>
        /\ raced' \in SUBSET OrderIds /\ stranded' \in SUBSET OrderIds
    BY <1>1 DEF OutsideHub, TypeOK
  <1> QED BY <1>2, <1>3, <1>4, <1>5, RequestKeepsTypes

LEMMA FinishTypes ==
    ASSUME TypeInv, NEW a \in Admins, Finish(a), OutsideHub,
           UNCHANGED <<orders, certs, bound, raced>>,
           provider' \in [id: Ids \cup {Null}, usable: BOOLEAN],
           zone' \in [id: Ids \cup {Null}, active: BOOLEAN],
           requests' \in 0..MaxRequests
    PROVE  TypeInv'
  <1>1. NoRequest.cert = NoCert /\ NoRequest.op = "none"
    BY DEF NoRequest
  <1>2. Then(a, NoRequest) /\ NoRequest \in AdminState
    BY IdleType DEF Finish
  <1> QED BY <1>1, <1>2, QuietTypes

LEMMA CreateTypes ==
    ASSUME TypeInv, NEW a \in Admins, NEW s \in Sites \cup {NoSite}, CreateOrder(a, s)
    PROVE  TypeInv'
  <1>1. /\ UNCHANGED <<provider, zone, orders, certs, bound, raced>> /\ OutsideHub
        /\ Then(a, [NoRequest EXCEPT !.op = "issue", !.site = s, !.zone = zone.id])
        /\ requests' \in 0..MaxRequests
    BY AskTypes DEF CreateOrder, dbVars
  <1>2. /\ provider' \in [id: Ids \cup {Null}, usable: BOOLEAN]
        /\ zone' \in [id: Ids \cup {Null}, active: BOOLEAN]
        /\ zone.id \in Ids \cup {Null}
    BY <1>1 DEF TypeInv, TypeOK
  <1>3. PICK r : r = [NoRequest EXCEPT !.op = "issue", !.site = s, !.zone = zone.id]
    OBVIOUS
  <1>4. r \in AdminState /\ r.op = "issue" /\ r.cert = NoCert
    BY <1>2, <1>3, IdleType DEF AdminState, NoRequest, Ops
  <1> QED BY <1>1, <1>2, <1>3, <1>4, QuietTypes

LEMMA RenewTypes ==
    ASSUME TypeInv, NEW a \in Admins, NEW s \in Sites, RenewSite(a, s)
    PROVE  TypeInv'
  <1>1. /\ UNCHANGED <<provider, zone, orders, certs, bound, raced>> /\ OutsideHub
        /\ requests' \in 0..MaxRequests
    BY AskTypes DEF RenewSite, dbVars
  <1>2. PICK c \in IF SiteCertificates(s) = {} THEN {NoCert} ELSE SiteCertificates(s) :
          Then(a, [NoRequest EXCEPT !.op = "check", !.site = s, !.cert = c])
    BY DEF RenewSite
  <1>3. c \in DOMAIN certs \cup {NoCert} /\ DOMAIN certs \subseteq CertIds
    BY Rows DEF SiteCertificates, TypeInv, TablesSound
  <1>4. /\ provider' \in [id: Ids \cup {Null}, usable: BOOLEAN]
        /\ zone' \in [id: Ids \cup {Null}, active: BOOLEAN]
    BY <1>1 DEF TypeInv, TypeOK
  <1>5. PICK r : r = [NoRequest EXCEPT !.op = "check", !.site = s, !.cert = c]
    OBVIOUS
  <1>6. r \in AdminState /\ r.op = "check" /\ r.cert = c /\ r.site = s
    BY <1>3, <1>5, IdleType DEF AdminState, NoRequest, Ops
  <1> QED BY <1>1, <1>2, <1>3, <1>4, <1>5, <1>6, QuietTypes

LEMMA CheckTypes ==
    ASSUME TypeInv, NEW a \in Admins, CheckRenewal(a)
    PROVE  TypeInv'
  <1>1. /\ UNCHANGED <<provider, zone, orders, certs, bound, raced, requests>> /\ OutsideHub
        /\ req[a].op = "check"
        /\ Then(a, [req[a] EXCEPT !.op = "renew", !.zone = zone.id]) \/ Finish(a)
    BY DEF CheckRenewal, dbVars
  <1>2. /\ provider' \in [id: Ids \cup {Null}, usable: BOOLEAN]
        /\ zone' \in [id: Ids \cup {Null}, active: BOOLEAN]
        /\ zone.id \in Ids \cup {Null} /\ requests' \in 0..MaxRequests
        /\ req[a] \in AdminState /\ AdminSound(a)
    BY <1>1 DEF TypeInv, TypeOK
  <1>3. CASE Finish(a)
    BY <1>1, <1>2, <1>3, FinishTypes
  <1>4. CASE Then(a, [req[a] EXCEPT !.op = "renew", !.zone = zone.id])
    <2>1. PICK r : r = [req[a] EXCEPT !.op = "renew", !.zone = zone.id]
      OBVIOUS
    <2>2. r \in AdminState /\ r.op = "renew" /\ r.cert = req[a].cert /\ r.site = req[a].site
      BY <1>2, <2>1 DEF AdminState, Ops
    <2> QED BY <1>1, <1>2, <1>4, <2>1, <2>2, QuietTypes DEF AdminSound
  <1> QED BY <1>1, <1>3, <1>4

LEMMA ReadTypes ==
    ASSUME TypeInv, NEW a \in Admins, NEW o \in OrderIds, RetryOrder(a, o) \/ ResetOrder(a, o)
    PROVE  TypeInv'
  <1>1. /\ UNCHANGED <<provider, zone, orders, certs, bound, raced>> /\ OutsideHub
        /\ requests' \in 0..MaxRequests /\ o \in DOMAIN orders /\ orders[o].status # "issued"
        /\ Then(a, [NoRequest EXCEPT !.op = "requeue", !.order = o, !.read = <<orders[o]>>])
    BY AskTypes DEF RetryOrder, ResetOrder, ReadOrder, dbVars, FailedStatuses
  <1>2. /\ provider' \in [id: Ids \cup {Null}, usable: BOOLEAN]
        /\ zone' \in [id: Ids \cup {Null}, active: BOOLEAN]
        /\ orders[o] \in Order
    BY <1>1, Rows DEF TypeInv, TypeOK
  <1>3. PICK q : q = <<orders[o]>>
    OBVIOUS
  <1>4. q \in Seq(Order)
    BY <1>2, <1>3
  <1>5. PICK r : r = [NoRequest EXCEPT !.op = "requeue", !.order = o, !.read = q]
    OBVIOUS
  <1>6. r \in AdminState /\ r.op = "requeue" /\ r.order = o /\ r.read = q /\ r.cert = NoCert
    BY <1>4, <1>5, IdleType DEF AdminState, NoRequest, Ops
  <1> QED BY <1>1, <1>2, <1>3, <1>5, <1>6, QuietTypes

LEMMA ReadZoneTypes ==
    ASSUME TypeInv, NEW a \in Admins, NEW enable \in BOOLEAN, ReadZone(a, enable)
    PROVE  TypeInv'
  <1>1. /\ UNCHANGED <<provider, zone, orders, certs, bound, raced>> /\ OutsideHub
        /\ requests' \in 0..MaxRequests
        /\ Then(a, [NoRequest EXCEPT !.op = "zone", !.enable = enable, !.zone = zone.id,
                                     !.provider = provider.id])
    BY AskTypes DEF ReadZone, dbVars
  <1>2. /\ provider' \in [id: Ids \cup {Null}, usable: BOOLEAN]
        /\ zone' \in [id: Ids \cup {Null}, active: BOOLEAN]
        /\ zone.id \in Ids \cup {Null} /\ provider.id \in Ids \cup {Null}
    BY <1>1 DEF TypeInv, TypeOK
  <1>3. PICK r \in AdminState : Then(a, r) /\ r.op = "zone" /\ r.cert = NoCert
    <2>1. CASE enable = TRUE
      <3>1. PICK r : r = [NoRequest EXCEPT !.op = "zone", !.enable = TRUE, !.zone = zone.id,
                                           !.provider = provider.id]
        OBVIOUS
      <3>2. r \in AdminState /\ r.op = "zone" /\ r.cert = NoCert
        BY <1>2, <3>1, IdleType DEF AdminState, NoRequest, Ops
      <3>3. Then(a, r)
        BY <1>1, <2>1, <3>1, Zenon
      <3> QED BY <3>2, <3>3
    <2>2. CASE enable = FALSE
      <3>1. PICK r : r = [NoRequest EXCEPT !.op = "zone", !.enable = FALSE, !.zone = zone.id,
                                           !.provider = provider.id]
        OBVIOUS
      <3>2. r \in AdminState /\ r.op = "zone" /\ r.cert = NoCert
        BY <1>2, <3>1, IdleType DEF AdminState, NoRequest, Ops
      <3>3. Then(a, r)
        BY <1>1, <2>2, <3>1, Zenon
      <3> QED BY <3>2, <3>3
    <2> QED BY <2>1, <2>2
  <1> QED BY <1>1, <1>2, <1>3, QuietTypes

LEMMA CheckDeletionTypes ==
    ASSUME TypeInv, NEW a \in Admins, CheckZone(a) \/ CheckProvider(a)
    PROVE  TypeInv'
  <1>1. /\ UNCHANGED <<provider, zone, orders, certs, bound, raced>> /\ OutsideHub
        /\ requests' \in 0..MaxRequests
        /\ \/ Then(a, [NoRequest EXCEPT !.op = "delete_zone", !.zone = zone.id])
           \/ Then(a, [NoRequest EXCEPT !.op = "delete_provider", !.provider = provider.id])
    BY AskTypes DEF CheckZone, CheckProvider, dbVars
  <1>2. /\ provider' \in [id: Ids \cup {Null}, usable: BOOLEAN]
        /\ zone' \in [id: Ids \cup {Null}, active: BOOLEAN]
        /\ zone.id \in Ids \cup {Null} /\ provider.id \in Ids \cup {Null}
    BY <1>1 DEF TypeInv, TypeOK
  <1>3. PICK r \in AdminState : Then(a, r) /\ r.op \in {"delete_zone", "delete_provider"}
                                /\ r.cert = NoCert
    <2>1. PICK r1 : r1 = [NoRequest EXCEPT !.op = "delete_zone", !.zone = zone.id]
      OBVIOUS
    <2>2. r1 \in AdminState /\ r1.op = "delete_zone" /\ r1.cert = NoCert
      BY <1>2, <2>1, IdleType DEF AdminState, NoRequest, Ops
    <2>3. PICK r2 : r2 = [NoRequest EXCEPT !.op = "delete_provider", !.provider = provider.id]
      OBVIOUS
    <2>4. r2 \in AdminState /\ r2.op = "delete_provider" /\ r2.cert = NoCert
      BY <1>2, <2>3, IdleType DEF AdminState, NoRequest, Ops
    <2> QED BY <1>1, <2>1, <2>2, <2>3, <2>4
  <1> QED BY <1>1, <1>2, <1>3, QuietTypes

\* The rows of the provider and of the zone.
LEMMA ZoneRow ==
    ASSUME TypeInv, NEW id \in Ids \cup {Null}, NEW active \in BOOLEAN
    PROVE  /\ StoreZone(id, active) => zone' \in [id: Ids \cup {Null}, active: BOOLEAN]
           /\ StoreProvider(active) /\ FreshId \in Ids
                => provider' \in [id: Ids \cup {Null}, usable: BOOLEAN]
  <1>1. PICK z \in Ids \cup {Null} : z = IF zone.id = Null THEN id ELSE zone.id
    BY DEF TypeInv, TypeOK
  <1>2. ASSUME FreshId \in Ids
        PROVE  \E p \in Ids \cup {Null} : p = IF provider.id = Null THEN FreshId ELSE provider.id
    BY <1>2 DEF TypeInv, TypeOK
  <1>3. ASSUME StoreZone(id, active) PROVE zone' \in [id: Ids \cup {Null}, active: BOOLEAN]
    <2>1. zone' = [id |-> z, active |-> active]
      BY <1>1, <1>3 DEF StoreZone
    <2> QED BY <2>1, Zenon
  <1>4. ASSUME StoreProvider(active), FreshId \in Ids
        PROVE  provider' \in [id: Ids \cup {Null}, usable: BOOLEAN]
    <2>1. PICK p \in Ids \cup {Null} : p = IF provider.id = Null THEN FreshId ELSE provider.id
      BY <1>2, <1>4
    <2>2. provider' = [id |-> p, usable |-> active]
      BY <1>4, <2>1 DEF StoreProvider
    <2> QED BY <2>2, Zenon
  <1> QED BY <1>3, <1>4

LEMMA SaveRowTypes ==
    ASSUME TypeInv, NEW a \in Admins,
           (\E usable \in BOOLEAN : SaveProvider(a, usable)) \/ SyncZone(a)
    PROVE  TypeInv'
  <1>1. /\ UNCHANGED <<orders, certs, bound, req, raced>> /\ OutsideHub
        /\ requests' \in 0..MaxRequests /\ FreshId \in Ids
    BY AskTypes DEF SaveProvider, SyncZone
  <1>2. /\ provider' \in [id: Ids \cup {Null}, usable: BOOLEAN]
        /\ zone' \in [id: Ids \cup {Null}, active: BOOLEAN]
    <2>1. ASSUME NEW usable \in BOOLEAN, SaveProvider(a, usable)
          PROVE  /\ provider' \in [id: Ids \cup {Null}, usable: BOOLEAN]
                 /\ zone' \in [id: Ids \cup {Null}, active: BOOLEAN]
      <3>1. StoreProvider(usable) /\ UNCHANGED zone
        BY <2>1 DEF SaveProvider
      <3>2. provider' \in [id: Ids \cup {Null}, usable: BOOLEAN]
        BY <1>1, <3>1, ZoneRow
      <3> QED BY <3>1, <3>2 DEF TypeInv, TypeOK
    <2>2. CASE SyncZone(a)
      <3>1. StoreZone(FreshId, TRUE) /\ UNCHANGED provider
        BY <2>2 DEF SyncZone
      <3>2. PICK z : z = IF zone.id = Null THEN FreshId ELSE zone.id
        OBVIOUS
      <3>3. z \in Ids \cup {Null} /\ zone' = [id |-> z, active |-> TRUE]
        BY <1>1, <3>1, <3>2 DEF StoreZone, TypeInv, TypeOK
      <3> QED BY <3>1, <3>3 DEF TypeInv, TypeOK
    <2> QED BY <2>1, <2>2
  <1>3. TypeOK /\ AdminSound(a)'
    BY <1>1, SameRows, StillSound DEF TypeInv
  <1>4. /\ UNCHANGED <<bound, worker, extVars, dues, faults>>
        /\ raced' \in SUBSET OrderIds /\ stranded' \in SUBSET OrderIds
        /\ req' \in [Admins -> AdminState]
    BY <1>1, <1>3 DEF OutsideHub, TypeOK
  <1>5. RowsKept /\ CertsKept /\ TablesSound'
    BY <1>1, SameRows
  <1> QED BY <1>1, <1>2, <1>3, <1>4, <1>5, RequestKeepsTypes

LEMMA SaveZoneTypes ==
    ASSUME TypeInv, NEW a \in Admins, SaveZone(a)
    PROVE  TypeInv'
  <1>1. /\ UNCHANGED <<provider, orders, certs, bound, raced, requests>> /\ OutsideHub /\ Finish(a)
        /\ StoreZone(req[a].zone, req[a].enable) \/ UNCHANGED zone
    BY DEF SaveZone
  <1>2. TypeOK
    BY DEF TypeInv
  <1>3. PICK z \in Ids \cup {Null} : z = req[a].zone
    BY <1>2, AdminFields
  <1>4. PICK e \in BOOLEAN : e = req[a].enable
    BY <1>2, AdminFields
  <1>5. StoreZone(z, e) \/ UNCHANGED zone
    BY <1>1, <1>3, <1>4, Zenon
  <1>6. zone' \in [id: Ids \cup {Null}, active: BOOLEAN]
    BY <1>2, <1>5, ZoneRow DEF TypeOK
  <1>7. provider' \in [id: Ids \cup {Null}, usable: BOOLEAN] /\ requests' \in 0..MaxRequests
    BY <1>1, <1>2 DEF TypeOK
  <1> QED BY <1>1, <1>6, <1>7, FinishTypes

\* issue_certificate_order: the certificate, if it is new, and the order.
LEMMA IssueFacts ==
    ASSUME TypeInv, NEW a \in Admins, IssueOrder(a)
    PROVE  \E c \in DOMAIN certs' :
             /\ \/ req[a].cert = NoCert /\ c \notin DOMAIN certs
                \/ req[a].cert = c /\ UNCHANGED certs /\ c \in DOMAIN certs /\ req[a].op = "renew"
             /\ CertsKept
             /\ \A d \in DOMAIN certs : certs'[d] = certs[d]
             /\ \A d \in DOMAIN certs' \ DOMAIN certs : certs'[d].versions = <<>> /\ ~certs'[d].active
             /\ \/ UNCHANGED orders
                \/ /\ Len(orders) < MaxOrders
                   /\ req[a].op = "renew" => ~RenewalActive(c, NoOrder)
                   /\ NewOrder(req[a].op, req[a].site, c, req[a].zone) \in Order
                   /\ orders' = Append(orders, NewOrder(req[a].op, req[a].site, c, req[a].zone))
  <1> DEFINE c == IF req[a].cert = NoCert THEN Len(certs) + 1 ELSE req[a].cert
             r == NewOrder(req[a].op, req[a].site, c, req[a].zone)
  <1>1. /\ TypeOK /\ AdminSound(a) /\ req[a].op \in {"issue", "renew"}
        /\ Len(certs) \in Nat /\ DOMAIN certs = 1..Len(certs) /\ DOMAIN certs \subseteq CertIds
        /\ certs \in Seq(Cert) /\ Len(certs) <= MaxOrders /\ MaxOrders \in Nat
    BY Rows, Constants DEF TypeInv, TypeOK, IssueOrder
  <1>2. /\ Len(orders) < MaxOrders
        /\ req[a].cert = NoCert => Len(certs) < MaxOrders
        /\ IF req[a].cert = NoCert THEN StoreCertificate ELSE UNCHANGED certs
        /\ orders' = IF Storable(r, NoOrder) THEN Append(orders, r) ELSE orders
    BY DEF IssueOrder
  <1>3. PICK e : e = c
    OBVIOUS
  <1>4. /\ e \in DOMAIN certs' /\ e \in CertIds
        /\ \/ req[a].cert = NoCert /\ e \notin DOMAIN certs
           \/ req[a].cert = e /\ UNCHANGED certs /\ e \in DOMAIN certs /\ req[a].op = "renew"
        /\ CertsKept
        /\ \A d \in DOMAIN certs : certs'[d] = certs[d]
        /\ \A d \in DOMAIN certs' \ DOMAIN certs : certs'[d].versions = <<>> /\ ~certs'[d].active
    <2>1. CASE req[a].cert = NoCert
      <3>1. PICK n : n = [active |-> FALSE, due |-> FALSE, versions |-> <<>>]
        OBVIOUS
      <3>2. n \in Cert /\ n.versions = <<>> /\ ~n.active
        BY <3>1 DEF Cert
      <3>3. certs' = Append(certs, n) /\ e = Len(certs) + 1 /\ Len(certs) < MaxOrders
        BY <1>2, <1>3, <2>1, <3>1 DEF StoreCertificate
      <3>4. /\ certs' \in Seq(Cert) /\ Len(certs') = Len(certs) + 1
            /\ DOMAIN certs' = 1..Len(certs) + 1 /\ certs'[Len(certs) + 1] = n
            /\ \A d \in 1..Len(certs) : certs'[d] = certs[d]
        BY <1>1, <3>2, <3>3, AppendProperties
      <3>5. DOMAIN certs' = DOMAIN certs \cup {e} /\ e \notin DOMAIN certs /\ e \in CertIds
        BY <1>1, <3>3, <3>4 DEF CertIds
      <3>6. \A d \in DOMAIN certs : certs'[d] = certs[d]
        BY <1>1, <3>4
      <3>7. Len(certs') <= MaxOrders
        BY <1>1, <3>3, <3>4
      <3>8. CertsKept
        BY <3>4, <3>5, <3>6, <3>7, <1>1 DEF CertsKept
      <3>9. certs'[e] = n
        BY <3>3, <3>4
      <3>10. \A d \in DOMAIN certs' \ DOMAIN certs : certs'[d].versions = <<>> /\ ~certs'[d].active
        BY <3>2, <3>5, <3>9, Zenon
      <3> QED BY <2>1, <3>5, <3>6, <3>8, <3>10
    <2>2. CASE req[a].cert # NoCert
      <3>1. UNCHANGED certs /\ e = req[a].cert /\ e \in DOMAIN certs /\ req[a].op = "renew"
        BY <1>1, <1>2, <1>3, <2>2 DEF AdminSound
      <3> QED BY <1>1, <3>1, SameRows
    <2> QED BY <2>1, <2>2
  <1>5. PICK n : n = NewOrder(req[a].op, req[a].site, e, req[a].zone)
    OBVIOUS
  <1>6. n \in Order
    BY <1>1, <1>4, <1>5, AdminFields, NewOrderType
  <1>7. n = r
    BY <1>3, <1>5
  <1>8. ASSUME Storable(n, NoOrder), req[a].op = "renew" PROVE ~RenewalActive(e, NoOrder)
    <2>1. n.kind = "renew" /\ n.cert = e
      BY <1>5, <1>8 DEF NewOrder
    <2> QED BY <1>8, <2>1 DEF Storable
  <1>9. \/ UNCHANGED orders
        \/ /\ Len(orders) < MaxOrders
           /\ req[a].op = "renew" => ~RenewalActive(e, NoOrder)
           /\ n \in Order /\ orders' = Append(orders, n)
    <2> HIDE DEF r
    <2> QED BY <1>2, <1>6, <1>7, <1>8
  <1> QED BY <1>4, <1>5, <1>9

LEMMA IssueTypes ==
    ASSUME TypeInv, NEW a \in Admins, IssueOrder(a)
    PROVE  TypeInv'
  <1>1. /\ UNCHANGED <<provider, zone, bound, raced, requests>> /\ OutsideHub /\ Finish(a)
    BY DEF IssueOrder
  <1>2. PICK c \in DOMAIN certs' :
          /\ CertsKept /\ \A d \in DOMAIN certs : certs'[d] = certs[d]
          /\ \A d \in DOMAIN certs' \ DOMAIN certs : certs'[d].versions = <<>> /\ ~certs'[d].active
          /\ \/ UNCHANGED orders
             \/ /\ Len(orders) < MaxOrders
                /\ NewOrder(req[a].op, req[a].site, c, req[a].zone) \in Order
                /\ orders' = Append(orders, NewOrder(req[a].op, req[a].site, c, req[a].zone))
    BY IssueFacts
  <1>3. RowsKept /\ \A o \in DOMAIN orders' \ DOMAIN orders : orders'[o].cert = c
    <2>1. CASE UNCHANGED orders
      BY <2>1, SameRows
    <2>2. CASE ~UNCHANGED orders
      <3>1. PICK n \in Order : /\ n = NewOrder(req[a].op, req[a].site, c, req[a].zone)
                               /\ orders' = Append(orders, n) /\ Len(orders) < MaxOrders
        BY <1>2, <2>2
      <3>2. n.cert = c
        BY <3>1 DEF NewOrder
      <3> QED BY <3>1, <3>2, RowInserted
    <2> QED BY <2>1, <2>2
  <1>4. TablesSound'
    BY <1>1, <1>2, <1>3, StillStored
  <1>5. TypeOK /\ NoRequest \in AdminState /\ Then(a, NoRequest)
    BY <1>1, IdleType DEF TypeInv, Finish
  <1>6. /\ req' \in [Admins -> AdminState] /\ req'[a] = NoRequest
        /\ \A b \in Admins \ {a} : req'[b] = req[b]
    BY <1>5, ThenFacts
  <1>7. AdminSound(a)'
    BY <1>6 DEF AdminSound, NoRequest
  <1>8. /\ UNCHANGED <<bound, worker, extVars, dues, faults>>
        /\ provider' \in [id: Ids \cup {Null}, usable: BOOLEAN]
        /\ zone' \in [id: Ids \cup {Null}, active: BOOLEAN]
        /\ raced' \in SUBSET OrderIds /\ stranded' \in SUBSET OrderIds
        /\ requests' \in 0..MaxRequests
    BY <1>1, <1>5 DEF OutsideHub, TypeOK
  <1> QED BY <1>2, <1>3, <1>4, <1>6, <1>7, <1>8, RequestKeepsTypes

\* requeue_certificate_order: nothing, or the row as it was read, as pending.
LEMMA RequeueFacts ==
    ASSUME TypeInv, NEW a \in Admins, RequeueOrder(a)
    PROVE  /\ req[a].op = "requeue" /\ req[a].order \in DOMAIN orders
           /\ RowsKept /\ Only(req[a].order)
           /\ \/ UNCHANGED <<orders, stranded, raced>>
              \/ LET o == req[a].order IN
                 /\ orders'[o].status = "pending_dns_challenge" /\ orders'[o].payload = NoAcme
                 /\ orders[o].kind = "renew" => ~RenewalActive(orders[o].cert, o)
                 /\ stranded' = stranded \ {o}
                 /\ raced \subseteq raced' /\ raced' \subseteq raced \cup {o}
                 /\ o \notin raced' => /\ \A w \in Workers : o \notin Mine(w)
                                       /\ orders[o].status # "issued"
  <1> DEFINE o == req[a].order
             r == [req[a].read[1] EXCEPT !.status = "pending_dns_challenge",
                                         !.payload = NoAcme, !.warned = FALSE]
  <1>1. /\ req[a].op = "requeue" /\ TypeOK /\ AdminSound(a)
    BY DEF TypeInv, RequeueOrder
  <1>2. /\ o \in DOMAIN orders /\ req[a].read[1] \in Order
        /\ req[a].read[1].kind = orders[o].kind /\ req[a].read[1].site = orders[o].site
        /\ req[a].read[1].cert = orders[o].cert /\ req[a].read[1].status # "issued"
    <2>1. req[a].read \in Seq(Order)
      BY <1>1, AdminFields
    <2> QED BY <1>1, <2>1 DEF AdminSound
  <1>3. /\ orders' = IF Storable(r, o) THEN [orders EXCEPT ![o] = r] ELSE orders
        /\ stranded' = IF Storable(r, o) THEN stranded \ {o} ELSE stranded
        /\ raced' = IF Storable(r, o) /\ (orders[o] # req[a].read[1] \/ Held(o) # {})
                      THEN raced \cup {o} ELSE raced
    BY DEF RequeueOrder
  <1>4. PICK n : n = r
    OBVIOUS
  <1>5. /\ n \in Order /\ n.status = "pending_dns_challenge" /\ n.payload = NoAcme
        /\ n.kind = orders[o].kind /\ n.site = orders[o].site /\ n.cert = orders[o].cert
    BY <1>2, <1>4, RequeueChange DEF Order
  <1> HIDE DEF r
  <1>6. CASE ~Storable(n, o)
    <2>1. UNCHANGED <<orders, stranded, raced>>
      BY <1>3, <1>4, <1>6
    <2> QED BY <1>1, <1>2, <2>1, SameRows DEF Only
  <1>7. CASE Storable(n, o)
    <2>1. orders' = [orders EXCEPT ![o] = n] /\ stranded' = stranded \ {o}
      BY <1>3, <1>4, <1>7
    <2>2. RowsKept /\ Only(o) /\ orders'[o] = n
      BY <1>2, <1>5, <2>1, RowSet
    <2>3. orders[o].kind = "renew" => ~RenewalActive(orders[o].cert, o)
      BY <1>5, <1>7 DEF Storable
    <2>4. raced \subseteq raced' /\ raced' \subseteq raced \cup {o}
      BY <1>3
    <2>5. ASSUME o \notin raced'
          PROVE  (\A w \in Workers : o \notin Mine(w)) /\ orders[o].status # "issued"
      <3>1. orders[o] = req[a].read[1] /\ Held(o) = {}
        BY <1>3, <1>4, <1>7, <2>5
      <3> QED BY <1>2, <3>1 DEF Held, Mine
    <2> QED BY <1>1, <1>2, <1>5, <2>1, <2>2, <2>3, <2>4, <2>5
  <1> QED BY <1>6, <1>7

LEMMA RequeueTypes ==
    ASSUME TypeInv, NEW a \in Admins, RequeueOrder(a)
    PROVE  TypeInv'
  <1>1. /\ UNCHANGED <<provider, zone, certs, bound, requests, worker, extVars, dues, faults>>
        /\ Finish(a)
    BY DEF RequeueOrder
  <1>2. /\ req[a].order \in DOMAIN orders /\ RowsKept /\ Only(req[a].order)
        /\ raced' \subseteq raced \cup {req[a].order} /\ stranded' \subseteq stranded
    BY RequeueFacts
  <1>3. TypeOK /\ NoRequest \in AdminState /\ Then(a, NoRequest)
    BY <1>1, IdleType DEF TypeInv, Finish
  <1>4. CertsKept /\ TablesSound'
    BY <1>1, <1>2, SameRows, StillStored DEF Only
  <1>5. /\ req' \in [Admins -> AdminState] /\ req'[a] = NoRequest
        /\ \A b \in Admins \ {a} : req'[b] = req[b]
    BY <1>3, ThenFacts
  <1>6. AdminSound(a)'
    BY <1>5 DEF AdminSound, NoRequest
  <1>7. /\ provider' \in [id: Ids \cup {Null}, usable: BOOLEAN]
        /\ zone' \in [id: Ids \cup {Null}, active: BOOLEAN]
        /\ raced' \in SUBSET OrderIds /\ stranded' \in SUBSET OrderIds
        /\ requests' \in 0..MaxRequests
    BY <1>1, <1>2, <1>3, Rows DEF TypeOK
  <1> QED BY <1>1, <1>2, <1>4, <1>5, <1>6, <1>7, RequestKeepsTypes

\* A zone is deleted under its orders.
LEMMA DropFacts ==
    ASSUME TypeInv, NEW there \in BOOLEAN, DropZone(there)
    PROVE  /\ RowsKept /\ DOMAIN orders' = DOMAIN orders
           /\ \A o \in DOMAIN orders : /\ orders'[o].status = orders[o].status
                                       /\ orders'[o].payload = orders[o].payload
                                       /\ orders'[o].warned = orders[o].warned
           /\ zone' \in [id: Ids \cup {Null}, active: BOOLEAN]
  <1>1. TypeOK /\ orders \in Seq(Order)
    BY DEF TypeInv, TypeOK
  <1>2. CASE there
    <2>1. /\ zone' = [id |-> Null, active |-> FALSE]
          /\ orders' = [i \in DOMAIN orders |-> [orders[i] EXCEPT !.zone = Null]]
      BY <1>2 DEF DropZone
    <2>2. ASSUME NEW o \in DOMAIN orders
          PROVE  /\ orders'[o] \in Order /\ orders'[o].kind = orders[o].kind
                 /\ orders'[o].site = orders[o].site /\ orders'[o].cert = orders[o].cert
                 /\ orders'[o].status = orders[o].status
                 /\ orders'[o].payload = orders[o].payload
                 /\ orders'[o].warned = orders[o].warned
      <3>1. PICK r : r = orders[o]
        OBVIOUS
      <3>2. PICK n : n = [r EXCEPT !.zone = Null]
        OBVIOUS
      <3>3. r \in Order /\ orders'[o] = n
        BY <1>1, <2>1, <3>1, <3>2, Rows
      <3>4. /\ n \in Order /\ n.kind = r.kind /\ n.site = r.site /\ n.cert = r.cert
            /\ n.status = r.status /\ n.payload = r.payload
        BY <3>2, <3>3 DEF Order, Null
      <3>5. n.warned = r.warned
        BY <3>2, <3>3, Zenon DEF Order
      <3> QED BY <3>1, <3>3, <3>4, <3>5, Zenon
    <2>3. DOMAIN orders' = DOMAIN orders /\ orders' = [i \in DOMAIN orders' |-> orders'[i]]
      BY <2>1
    <2>4. orders' \in Seq(Order) /\ Len(orders') = Len(orders)
      BY <1>1, <2>2, <2>3, RowsChanged
    <2>5. RowsKept
      BY <1>1, <2>2, <2>3, <2>4 DEF RowsKept, TypeOK
    <2>6. zone' \in [id: Ids \cup {Null}, active: BOOLEAN]
      BY <2>1
    <2> QED BY <2>2, <2>3, <2>5, <2>6
  <1>3. CASE ~there
    <2>1. UNCHANGED <<zone, orders>>
      BY <1>3 DEF DropZone
    <2> QED BY <1>1, <2>1, SameRows DEF TypeOK
  <1> QED BY <1>2, <1>3

LEMMA DeleteTypes ==
    ASSUME TypeInv, NEW a \in Admins, DeleteZone(a) \/ DeleteProvider(a)
    PROVE  TypeInv'
  <1>1. /\ UNCHANGED <<certs, bound, raced, requests>> /\ OutsideHub /\ Finish(a)
        /\ \E there \in BOOLEAN : DropZone(there)
    BY DEF DeleteZone, DeleteProvider
  <1>2. RowsKept /\ DOMAIN orders' = DOMAIN orders
        /\ zone' \in [id: Ids \cup {Null}, active: BOOLEAN]
    BY <1>1, DropFacts
  <1>3. TypeOK /\ NoRequest \in AdminState /\ Then(a, NoRequest)
    BY <1>1, IdleType DEF TypeInv, Finish
  <1>4. CertsKept /\ TablesSound'
    BY <1>1, <1>2, SameRows, StillStored
  <1>5. /\ req' \in [Admins -> AdminState] /\ req'[a] = NoRequest
        /\ \A b \in Admins \ {a} : req'[b] = req[b]
    BY <1>3, ThenFacts
  <1>6. AdminSound(a)'
    BY <1>5 DEF AdminSound, NoRequest
  <1>7. provider' \in [id: Ids \cup {Null}, usable: BOOLEAN]
    <2>1. provider' = provider \/ provider' = [id |-> Null, usable |-> FALSE]
      BY DEF DeleteZone, DeleteProvider
    <2>2. CASE provider' = provider
      BY <1>3, <2>2 DEF TypeOK
    <2>3. CASE provider' = [id |-> Null, usable |-> FALSE]
      BY <2>3
    <2> QED BY <2>1, <2>2, <2>3
  <1>8. /\ UNCHANGED <<bound, worker, extVars, dues, faults>>
        /\ raced' \in SUBSET OrderIds /\ stranded' \in SUBSET OrderIds
        /\ requests' \in 0..MaxRequests
    BY <1>1, <1>3 DEF OutsideHub, TypeOK
  <1> QED BY <1>2, <1>4, <1>5, <1>6, <1>7, <1>8, RequestKeepsTypes

\* The ACME server's answer, and a certificate that comes due.
LEMMA OutsideTypes ==
    ASSUME TypeInv, (\E a \in AcmeIds : Validate(a)) \/ (\E c \in CertIds : ComesDue(c))
    PROVE  TypeInv'
  <1>1. TypeOK
    BY DEF TypeInv
  <1>2. ASSUME NEW a \in AcmeIds, Validate(a) PROVE TypeInv'
    <2>1. UNCHANGED <<provider, zone, orders, certs, bound, req, worker, txt, raced, stranded,
                      dues, requests>> /\ (Fault \/ UNCHANGED faults)
      BY <1>2 DEF Validate, dbVars, history
    <2>2. acme' \in [AcmeIds -> AcmeStatus]
      BY <1>1, <1>2 DEF Validate, TypeOK, AcmeStatus
    <2>3. faults' \in 0..MaxFaults
      BY <2>1, Faults
    <2>4. TypeOK'
      BY <1>1, <2>1, <2>2, <2>3 DEF TypeOK
    <2> QED BY <2>1, <2>4, SameRows, StillSound DEF TypeInv
  <1>3. ASSUME NEW c \in CertIds, ComesDue(c) PROVE TypeInv'
    <2>1. /\ UNCHANGED <<provider, zone, orders, bound, req, worker, txt, acme, raced, stranded,
                         requests, faults>>
          /\ c \in DOMAIN certs /\ certs' = [certs EXCEPT ![c].due = TRUE]
          /\ dues < MaxDue /\ dues' = dues + 1
      BY <1>3 DEF ComesDue, extVars, history
    <2>2. /\ CertsKept /\ DOMAIN certs' = DOMAIN certs
          /\ \A d \in DOMAIN certs : certs'[d].versions = certs[d].versions
      <3>1. /\ certs \in Seq(Cert) /\ c \in 1..Len(certs) /\ DOMAIN certs = 1..Len(certs)
            /\ Len(certs) \in Nat /\ Len(certs) <= MaxOrders /\ certs[c] \in Cert
        BY <1>1, <2>1, Rows DEF TypeOK
      <3>2. PICK n : n = [certs[c] EXCEPT !.due = TRUE]
        OBVIOUS
      <3>3. n \in Cert /\ n.versions = certs[c].versions
        BY <3>1, <3>2 DEF Cert
      <3>4. certs' = [certs EXCEPT ![c] = n]
        BY <2>1, <3>2
      <3>5. /\ certs' \in Seq(Cert) /\ Len(certs') = Len(certs)
            /\ \A d \in 1..Len(certs) : certs'[d] = IF d = c THEN n ELSE certs[d]
        BY <3>1, <3>3, <3>4, ExceptSeq
      <3> QED BY <3>1, <3>3, <3>5 DEF CertsKept
    <2>3. RowsKept
      BY <2>1, SameRows
    <2>4. TablesSound'
      BY <2>1, <2>2, <2>3, StillStored
    <2>5. dues' \in 0..MaxDue
      BY <1>1, <2>1, Constants DEF TypeOK
    <2>6. TypeOK'
      BY <1>1, <2>1, <2>2, <2>5 DEF TypeOK, CertsKept
    <2> QED BY <2>1, <2>2, <2>3, <2>4, <2>6, StillSound DEF TypeInv
  <1> QED BY <1>2, <1>3

LEMMA TypeInit == Init => TypeInv
  <1> SUFFICES ASSUME Init PROVE TypeInv
    OBVIOUS
  <1>1. TypeOK
    <2>1. 1 \in Ids
      BY Constants DEF Ids
    <2>2. provider \in [id: Ids \cup {Null}, usable: BOOLEAN]
          /\ zone \in [id: Ids \cup {Null}, active: BOOLEAN]
      BY <2>1 DEF Init
    <2>3. req \in [Admins -> AdminState] /\ worker \in [Workers -> WorkerState]
      BY IdleType DEF Init
    <2> QED BY <2>2, <2>3, Constants DEF Init, TypeOK, AcmeStatus
  <1>2. TablesSound
    BY DEF Init, TablesSound
  <1>3. ASSUME NEW w \in Workers PROVE WorkerSound(w)
    <2>1. worker[w] = Idle /\ Idle.jobs = <<>> /\ Idle.pc = "select" /\ Idle.due = {}
      BY DEF Init, Idle
    <2>2. Mine(w) = {}
      BY <2>1 DEF Mine
    <2> QED BY <2>1, <2>2 DEF WorkerSound, Challenge, Issuance
  <1>4. ASSUME NEW a \in Admins PROVE AdminSound(a)
    BY DEF Init, AdminSound, NoRequest
  <1> QED BY <1>1, <1>2, <1>3, <1>4 DEF TypeInv

LEMMA TypeStep == TypeInv /\ [Next]_vars => TypeInv'
  <1> SUFFICES ASSUME TypeInv, [Next]_vars PROVE TypeInv'
    OBVIOUS
  <1>1. ASSUME NEW a \in Admins, Request(a) PROVE TypeInv'
    BY <1>1, CreateTypes, RenewTypes, CheckTypes, IssueTypes, ReadTypes, RequeueTypes,
       SaveRowTypes, SaveZoneTypes, ReadZoneTypes, CheckDeletionTypes, DeleteTypes DEF Request
  <1>2. ASSUME NEW w \in Workers, WorkerStep(w) \/ Crash(w) PROVE TypeInv'
    BY <1>2, SelectTypes, InsertTypes, ClaimTypes, PrepareTypes, PresentTypes,
       AcknowledgeTypes, SavePayloadTypes, EndChallengeTypes, FinalizeTypes, CleanupTypes,
       ReadVersionTypes, CommitTypes, FailIssueTypes, CrashTypes DEF WorkerStep
  <1>3. CASE (\E a \in AcmeIds : Validate(a)) \/ (\E c \in CertIds : ComesDue(c))
    BY <1>3, OutsideTypes
  <1>4. CASE UNCHANGED vars
    <2>1. UNCHANGED <<provider, zone, orders, certs, bound, req, worker, txt, acme, raced,
                      stranded, dues, requests, faults>>
      BY <1>4 DEF vars, dbVars, extVars, history, counts
    <2>2. TypeOK'
      BY <2>1 DEF TypeInv, TypeOK
    <2> QED BY <2>1, <2>2, SameRows, StillSound DEF TypeInv
  <1> QED BY <1>1, <1>2, <1>3, <1>4 DEF Next

LEMMA TypesHold == Spec => []TypeInv
  BY TypeInit, TypeStep, PTL DEF Spec

\* The rows, the jobs the workers hold and the requests under way always have the
\* types of the schema and refer to rows that are there, whatever is deleted,
\* requeued or committed between a handler's or a worker's read and its write.
THEOREM TypeCorrect == Spec => []TypeOK
  <1>1. TypeInv => TypeOK
    BY DEF TypeInv
  <1> QED BY <1>1, TypesHold, PTL

=============================================================
