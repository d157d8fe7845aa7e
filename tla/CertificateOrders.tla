-------------------------- MODULE CertificateOrders --------------------------
(***************************************************************************)
(* Certificate orders: administrators create, retry and reset them through *)
(* the hub (apps/hub-api/src/service.rs and store.rs), which also keeps    *)
(* the dns provider and the dns zone they use; any number of dns-workers   *)
(* (apps/dns-worker) queue renewals, claim orders, present the ACME dns-01 *)
(* challenge at the dns provider (crates/dns-provider) and store the       *)
(* issued certificate.                                                     *)
(*                                                                         *)
(* There is one provider with one zone, which covers every domain; either  *)
(* may be deleted and created again, under another id.  Orders and         *)
(* certificates are numbered in the order they are stored, ACME orders     *)
(* in the order the ACME server creates them: the number of an ACME order  *)
(* stands for its urls and for the content of its TXT record, so a payload *)
(* is that number, or NoAcme before prepare_dns01_challenge filled it in.  *)
(* The mock ACME client is left out: it answers at once.                   *)
(***************************************************************************)
EXTENDS Naturals, Sequences, FiniteSets

CONSTANTS
    Workers,      \* dns-worker processes
    Admins,       \* administrators, each with one request at a time
    Sites,        \* https sites
    NoSite,       \* the site_id of an order that names no site
    Batch,        \* PINGORAHUB_DNS_WORKER_BATCH_SIZE
    MaxOrders,    \* bound: orders, and certificates, created
    MaxAcme,      \* bound: orders the ACME server accepts
    MaxDue,       \* bound: times a certificate comes within its renewal period
    MaxRequests,  \* bound: administrators' requests
    MaxFaults     \* bound: failed external calls and crashes

ASSUME CertificatesAssumption ==
    /\ NoSite \notin Sites
    /\ Batch \in Nat \ {0}
    /\ MaxOrders \in Nat /\ MaxAcme \in Nat /\ MaxDue \in Nat
    /\ MaxRequests \in Nat /\ MaxFaults \in Nat

VARIABLES
    provider,  \* the dns_providers row, and whether a client can be built from it
    zone,      \* the dns_zones row
    orders,    \* certificate_orders, oldest first
    certs,     \* certificates, each with the orders its versions came from
    bound,     \* site_cert_bindings with is_default, by site: [cert, version]
    req,       \* the request each administrator waits for
    worker,    \* where each dns-worker is in its loop
    txt,       \* TXT records in the zone at the dns provider
    acme,      \* the ACME server's orders
    raced,     \* history: orders requeued from a stale read or under a worker
    stranded,  \* history: orders a worker held when it exited
    dues, requests, faults  \* counters, bounded

dbVars  == <<provider, zone, orders, certs, bound>>
extVars == <<txt, acme>>
history == <<raced, stranded>>
counts  == <<dues, requests, faults>>
vars    == <<dbVars, req, worker, extVars, history, counts>>

OrderIds == 1..MaxOrders
CertIds  == 1..MaxOrders
AcmeIds  == 1..MaxAcme
NoOrder  == 0
NoCert   == 0
NoAcme   == 0
Null     == 0    \* the id of a row that is not there
Ids      == 1..MaxRequests + 2

ActiveStatuses == {"pending_dns_challenge", "dns_challenge_presenting",
                   "dns_challenge_presented", "issuing"}
FailedStatuses == {"dns_challenge_failed", "issue_failed"}
Statuses       == ActiveStatuses \cup FailedStatuses \cup {"issued"}

\* A row of certificate_orders.  zone may be NULL (its zone was deleted); warned:
\* it was issued with the error_message that its record was not cleaned up.
Order == [kind: {"issue", "renew"}, site: Sites \cup {NoSite}, cert: CertIds,
          zone: Ids \cup {Null}, status: Statuses, payload: AcmeIds \cup {NoAcme},
          warned: BOOLEAN]

NewOrder(kind, site, c, z) ==
    [kind |-> kind, site |-> site, cert |-> c, zone |-> z,
     status |-> "pending_dns_challenge", payload |-> NoAcme, warned |-> FALSE]

\* A row of certificates, with the orders its versions came from.
Cert == [active: BOOLEAN, due: BOOLEAN, versions: Seq(OrderIds)]

Binding == [cert: CertIds, version: Nat \ {0}]

\* What a claim hands a worker: the order, and what the row held by then.
Job == [order: OrderIds, payload: AcmeIds \cup {NoAcme}, usable: BOOLEAN]

Idle == [pc |-> "select", due |-> {}, zone |-> Null, jobs |-> <<>>, acme |-> NoAcme,
         warned |-> FALSE, version |-> 0, targets |-> {}, seen |-> {}]

NoRequest == [op |-> "none", site |-> NoSite, cert |-> NoCert, order |-> NoOrder,
              read |-> <<>>, zone |-> Null, provider |-> Null, enable |-> FALSE]

PCs == {"select", "insert", "pending", "prepare", "present", "acknowledge", "payload",
        "presented", "challenge_failed", "ready", "finalize", "cleanup", "persist",
        "commit", "issue_failed"}
WorkerState == [pc: PCs, due: SUBSET CertIds, zone: Ids \cup {Null}, jobs: Seq(Job),
                acme: AcmeIds \cup {NoAcme}, warned: BOOLEAN, version: Nat,
                targets: SUBSET Sites, seen: SUBSET Binding]

Ops == {"none", "issue", "check", "renew", "requeue", "zone", "delete_zone",
        "delete_provider"}
AdminState == [op: Ops, site: Sites \cup {NoSite}, cert: CertIds \cup {NoCert},
               order: OrderIds \cup {NoOrder}, read: Seq(Order), zone: Ids \cup {Null},
               provider: Ids \cup {Null}, enable: BOOLEAN]

AcmeStatus == {"none", "new", "acknowledged", "valid", "invalid", "finalized"}

TypeOK ==
    /\ provider \in [id: Ids \cup {Null}, usable: BOOLEAN]
    /\ zone \in [id: Ids \cup {Null}, active: BOOLEAN]
    /\ orders \in Seq(Order) /\ Len(orders) <= MaxOrders
    /\ certs \in Seq(Cert) /\ Len(certs) <= MaxOrders
    /\ bound \in [Sites -> SUBSET Binding]
    /\ req \in [Admins -> AdminState]
    /\ worker \in [Workers -> WorkerState]
    /\ txt \in SUBSET AcmeIds
    /\ acme \in [AcmeIds -> AcmeStatus]
    /\ raced \in SUBSET OrderIds /\ stranded \in SUBSET OrderIds
    /\ dues \in 0..MaxDue /\ requests \in 0..MaxRequests /\ faults \in 0..MaxFaults

\* A provider with a synced zone, and nothing ordered yet.
Init ==
    /\ provider = [id |-> 1, usable |-> TRUE]
    /\ zone = [id |-> 1, active |-> TRUE]
    /\ orders = <<>> /\ certs = <<>>
    /\ bound = [s \in Sites |-> {}]
    /\ req = [a \in Admins |-> NoRequest]
    /\ worker = [w \in Workers |-> Idle]
    /\ txt = {} /\ acme = [i \in AcmeIds |-> "none"]
    /\ raced = {} /\ stranded = {}
    /\ dues = 0 /\ requests = 0 /\ faults = 0

----------------------------------------------------------------------------
(* The tables.                                                             *)

\* Mutant of RenewalActive: the index leaves out renewals that are being issued.
RenewalActiveUnissued(c, o) ==
    \E i \in DOMAIN orders : /\ i # o
                             /\ orders[i].kind = "renew" /\ orders[i].cert = c
                             /\ orders[i].status \in ActiveStatuses \ {"issuing"}

\* idx_certificate_orders_one_active_renew: certificate c has a renewal under
\* way, other than order o.
RenewalActive(c, o) ==
    \E i \in DOMAIN orders : /\ i # o
                             /\ orders[i].kind = "renew" /\ orders[i].cert = c
                             /\ orders[i].status \in ActiveStatuses

\* list_certificate_orders decodes zone_id into a Uuid: a row whose zone_id is
\* NULL makes the call panic, and the request ends there.
OrdersDecode == \A i \in DOMAIN orders : orders[i].zone # Null

\* The zone's row goes, and with it (ON DELETE SET NULL) the zone_id of the
\* orders that use it.
DropZone(there) ==
    /\ zone' = IF there THEN [id |-> Null, active |-> FALSE] ELSE zone
    /\ orders' = IF there THEN [i \in DOMAIN orders |-> [orders[i] EXCEPT !.zone = Null]]
                          ELSE orders

\* The id of the row this request inserts: no two rows share one.
FreshId == requests + 2

\* save_dns_provider and save_dns_zone upsert, the zone by provider and name.
StoreProvider(usable) ==
    provider' = [id |-> IF provider.id = Null THEN FreshId ELSE provider.id, usable |-> usable]
StoreZone(id, active) ==
    zone' = [id |-> IF zone.id = Null THEN id ELSE zone.id, active |-> active]

\* list_dns_zones, and the zone that serves a domain.
ZoneServes == zone.active

\* site_certificates: the certificates bound to the site by default.
SiteCertificates(s) == {b.cert : b \in bound[s]}

\* save_certificate inserts a certificate that has no version yet.
StoreCertificate == certs' = Append(certs, [active |-> FALSE, due |-> FALSE, versions |-> <<>>])

\* save_certificate_order: refused when the zone is gone (the foreign key) or the
\* certificate has another active renewal (the unique index).
Storable(r, o) == zone.id = r.zone /\ ~(r.kind = "renew" /\ RenewalActive(r.cert, o))

\* Mutant of SetStatus: a failure is stored under a name nobody looks for.
SetStatusMisnamed(o, s) ==
    orders' = [orders EXCEPT ![o].status = IF s = "issue_failed" THEN "failed" ELSE s]

SetStatus(o, s) == orders' = [orders EXCEPT ![o].status = s]

UnderWay(o) == o \in DOMAIN orders /\ orders[o].status \in ActiveStatuses

Held(o) == {w \in Workers : \E j \in DOMAIN worker[w].jobs : worker[w].jobs[j].order = o}

----------------------------------------------------------------------------
(* Requests of administrators.                                             *)

Ask(a) ==
    /\ req[a].op = "none"
    /\ requests < MaxRequests
    /\ requests' = requests + 1

Then(a, r)   == req' = [req EXCEPT ![a] = r]
Finish(a)    == Then(a, NoRequest)
OutsideHub   == UNCHANGED <<worker, extVars, stranded, dues, faults>>

\* create_certificate_order: the zone is checked; the rows are saved later.
CreateOrder(a, s) ==
    /\ Ask(a)
    /\ ZoneServes
    /\ Then(a, [NoRequest EXCEPT !.op = "issue", !.site = s, !.zone = zone.id])
    /\ UNCHANGED <<dbVars, raced>> /\ OutsideHub

\* renew_site_certificate: the first of the site's default certificates is
\* read, then the orders and the zones.
RenewSite(a, s) ==
    /\ Ask(a)
    /\ \E c \in IF SiteCertificates(s) = {} THEN {NoCert} ELSE SiteCertificates(s) :
         Then(a, [NoRequest EXCEPT !.op = "check", !.site = s, !.cert = c])
    /\ UNCHANGED <<dbVars, raced>> /\ OutsideHub

CheckRenewal(a) ==
    /\ req[a].op = "check"
    /\ IF /\ OrdersDecode
          /\ \A i \in DOMAIN orders :
               orders[i].site = req[a].site \/ orders[i].cert = req[a].cert
                 => orders[i].status \notin ActiveStatuses
          /\ ZoneServes
         THEN Then(a, [req[a] EXCEPT !.op = "renew", !.zone = zone.id])
         ELSE Finish(a)
    /\ UNCHANGED <<dbVars, raced, requests>> /\ OutsideHub

\* issue_certificate_order: a certificate unless there is one, then the order;
\* when that is refused the new certificate stays.
IssueOrder(a) ==
    /\ req[a].op \in {"issue", "renew"}
    /\ LET fresh == req[a].cert = NoCert
           c     == IF fresh THEN Len(certs) + 1 ELSE req[a].cert
           r     == NewOrder(req[a].op, req[a].site, c, req[a].zone)
       IN  /\ Len(orders) < MaxOrders
           /\ fresh => Len(certs) < MaxOrders
           /\ IF fresh THEN StoreCertificate ELSE UNCHANGED certs
           /\ orders' = IF Storable(r, NoOrder) THEN Append(orders, r) ELSE orders
    /\ Finish(a)
    /\ UNCHANGED <<provider, zone, bound, raced, requests>> /\ OutsideHub

\* retry_certificate_order and reset_certificate_order read the order and
\* check its status; requeue_certificate_order saves what was read as pending.
ReadOrder(a, o, allowed) ==
    /\ Ask(a)
    /\ o \in DOMAIN orders
    /\ orders[o].zone # Null
    /\ orders[o].status \in allowed
    /\ Then(a, [NoRequest EXCEPT !.op = "requeue", !.order = o, !.read = <<orders[o]>>])
    /\ UNCHANGED <<dbVars, raced>> /\ OutsideHub

RetryOrder(a, o) == ReadOrder(a, o, FailedStatuses)
ResetOrder(a, o) == ReadOrder(a, o, Statuses \ {"issued"})

RequeueOrder(a) ==
    /\ req[a].op = "requeue"
    /\ LET o == req[a].order
           r == [req[a].read[1] EXCEPT !.status = "pending_dns_challenge",
                                       !.payload = NoAcme, !.warned = FALSE]
           saved == Storable(r, o)
           late  == orders[o] # req[a].read[1] \/ Held(o) # {}
       IN  /\ orders' = IF saved THEN [orders EXCEPT ![o] = r] ELSE orders
           /\ stranded' = IF saved THEN stranded \ {o} ELSE stranded
           /\ raced' = IF saved /\ late THEN raced \cup {o} ELSE raced
    /\ Finish(a)
    /\ UNCHANGED <<provider, zone, certs, bound, requests, worker, extVars, dues, faults>>

\* create_dns_provider and update_dns_provider: the type is one of six, of
\* which build_provider knows three.
SaveProvider(a, usable) ==
    /\ Ask(a)
    /\ StoreProvider(usable)
    /\ UNCHANGED <<zone, orders, certs, bound, req, raced>> /\ OutsideHub

\* sync_dns_zones: the provider is asked for its zones and the row is upserted
\* by name, active again whatever it was; from the read of the provider to the
\* save is one step.
SyncZone(a) ==
    /\ Ask(a)
    /\ provider.usable
    /\ StoreZone(FreshId, TRUE)
    /\ UNCHANGED <<provider, orders, certs, bound, req, raced>> /\ OutsideHub

\* update_dns_zone_status reads the zone and saves it with its new status: an
\* upsert by provider and name, which brings back a zone deleted in between.
ReadZone(a, enable) ==
    /\ Ask(a)
    /\ zone.id # Null
    /\ Then(a, [NoRequest EXCEPT !.op = "zone", !.enable = enable, !.zone = zone.id,
                                 !.provider = provider.id])
    /\ UNCHANGED <<dbVars, raced>> /\ OutsideHub

SaveZone(a) ==
    /\ req[a].op = "zone"
    /\ IF provider.id = req[a].provider THEN StoreZone(req[a].zone, req[a].enable)
                                        ELSE UNCHANGED zone
    /\ Finish(a)
    /\ UNCHANGED <<provider, orders, certs, bound, raced, requests>> /\ OutsideHub

\* delete_dns_zone: no order may refer to the zone; it is deleted afterwards.
CheckZone(a) ==
    /\ Ask(a)
    /\ zone.id # Null
    /\ OrdersDecode
    /\ \A i \in DOMAIN orders : orders[i].zone # zone.id
    /\ Then(a, [NoRequest EXCEPT !.op = "delete_zone", !.zone = zone.id])
    /\ UNCHANGED <<dbVars, raced>> /\ OutsideHub

DeleteZone(a) ==
    /\ req[a].op = "delete_zone"
    /\ DropZone(zone.id = req[a].zone)
    /\ Finish(a)
    /\ UNCHANGED <<provider, certs, bound, raced, requests>> /\ OutsideHub

\* delete_dns_provider: it may own no zone; it is deleted afterwards, with
\* (ON DELETE CASCADE) the zone it owns by then.
CheckProvider(a) ==
    /\ Ask(a)
    /\ provider.id # Null /\ zone.id = Null
    /\ Then(a, [NoRequest EXCEPT !.op = "delete_provider", !.provider = provider.id])
    /\ UNCHANGED <<dbVars, raced>> /\ OutsideHub

DeleteProvider(a) ==
    /\ req[a].op = "delete_provider"
    /\ LET there == provider.id = req[a].provider
       IN  /\ provider' = IF there THEN [id |-> Null, usable |-> FALSE] ELSE provider
           /\ DropZone(there)
    /\ Finish(a)
    /\ UNCHANGED <<certs, bound, raced, requests>> /\ OutsideHub

Request(a) ==
    \/ \E s \in Sites \cup {NoSite} : CreateOrder(a, s)
    \/ \E s \in Sites : RenewSite(a, s)
    \/ CheckRenewal(a) \/ IssueOrder(a)
    \/ \E o \in OrderIds : RetryOrder(a, o) \/ ResetOrder(a, o)
    \/ RequeueOrder(a)
    \/ \E usable \in BOOLEAN : SaveProvider(a, usable)
    \/ SyncZone(a) \/ SaveZone(a)
    \/ \E enable \in BOOLEAN : ReadZone(a, enable)
    \/ CheckZone(a) \/ DeleteZone(a)
    \/ CheckProvider(a) \/ DeleteProvider(a)

----------------------------------------------------------------------------
(* The dns-worker.                                                         *)

At(w, pc)     == worker[w].pc = pc
Go(w, r)      == worker' = [worker EXCEPT ![w] = r]
Goto(w, pc)   == Go(w, [worker[w] EXCEPT !.pc = pc])
TheJob(w)     == Head(worker[w].jobs)
TheOrder(w)   == orders[TheJob(w).order]
OutsideWorker == UNCHANGED <<provider, zone, req, raced, dues, requests>>

\* provider_from_config: a client for the provider as the claim read it.
BuildProvider(w) == TheJob(w).usable

\* The next job of the batch starts at first; after the last one the worker
\* goes on to next.
NextJob(w, first, next) ==
    Go(w, [Idle EXCEPT !.pc = IF Len(worker[w].jobs) > 1 THEN first ELSE next,
                       !.jobs = Tail(worker[w].jobs)])

\* The process ends, by a kill or by a database error that every caller passes
\* on with ?, and is started again.  The jobs it held are nobody's.
Exit(w) ==
    /\ Go(w, Idle)
    /\ stranded' = stranded \cup {worker[w].jobs[j].order : j \in DOMAIN worker[w].jobs}

\* A call to the ACME server, or to the dns provider, fails.
Fault    == faults < MaxFaults /\ faults' = faults + 1
AcmeFails == Fault
DnsFails  == Fault

\* enqueue_due_renewal_orders: the certificates that are due and have no active
\* renewal, at most Batch of them, and the zone; an insert for each.
SelectDue(w) ==
    /\ At(w, "select")
    /\ LET due == {c \in DOMAIN certs : certs[c].active /\ certs[c].due
                                          /\ ~RenewalActive(c, NoOrder)}
       IN  \E d \in SUBSET due :
             /\ Cardinality(d) = IF Cardinality(due) < Batch THEN Cardinality(due) ELSE Batch
             /\ Go(w, IF d = {} \/ ~zone.active
                        THEN [Idle EXCEPT !.pc = "pending"]
                        ELSE [Idle EXCEPT !.pc = "insert", !.due = d, !.zone = zone.id])
    /\ UNCHANGED <<orders, certs, bound, extVars, stranded, faults>> /\ OutsideWorker

\* ON CONFLICT DO NOTHING: the index may have got a renewal since the select.
\* The foreign key of a zone deleted since then ends the process.
InsertRenewal(w) ==
    /\ At(w, "insert")
    /\ \E c \in worker[w].due :
         IF zone.id # worker[w].zone
           THEN Exit(w) /\ UNCHANGED orders
           ELSE /\ orders' = IF RenewalActive(c, NoOrder) \/ Len(orders) = MaxOrders THEN orders
                             ELSE Append(orders, NewOrder("renew", NoSite, c, zone.id))
                /\ Go(w, IF worker[w].due = {c}
                           THEN [Idle EXCEPT !.pc = "pending"]
                           ELSE [worker[w] EXCEPT !.due = @ \ {c}])
                /\ UNCHANGED stranded
    /\ UNCHANGED <<certs, bound, extVars, faults>> /\ OutsideWorker

\* The oldest Batch of the orders S, oldest first, as a set of one sequence.
Oldest(S) ==
    LET n == IF Cardinality(S) < Batch THEN Cardinality(S) ELSE Batch
    IN  {q \in [1..n -> S] : /\ \A i, j \in 1..n : i < j => q[i] < q[j]
                             /\ \A o \in S, i \in 1..n :
                                  o < q[i] => \E j \in 1..n : q[j] = o}

\* Mutant of Claim: the claim hands the orders out and does not mark them.
ClaimUnmarked(w, from, to, first, next) ==
    LET ready == {i \in DOMAIN orders : orders[i].status = from /\ orders[i].zone # Null}
    IN  \E mine \in Oldest(ready) :
          /\ Go(w, [Idle EXCEPT
                      !.pc = IF ready = {} THEN next ELSE first,
                      !.jobs = [j \in DOMAIN mine |->
                                  [order |-> mine[j], payload |-> orders[mine[j]].payload,
                                   usable |-> provider.usable]]])
          /\ UNCHANGED orders

\* claim_pending_dns_orders and claim_ready_issuance_orders: in one transaction
\* the oldest Batch orders in status from become to; SKIP LOCKED leaves out what
\* another claim has locked.  (The lock has no OF and takes in the joined zone,
\* provider and certificate rows, so a claim that overlaps another one may find
\* fewer orders or none; here claims do not overlap.)
Claim(w, from, to, first, next) ==
    LET ready == {i \in DOMAIN orders : orders[i].status = from /\ orders[i].zone # Null}
    IN  \E mine \in Oldest(ready) :
          /\ orders' = [i \in DOMAIN orders |->
                          IF \E j \in DOMAIN mine : mine[j] = i
                            THEN [orders[i] EXCEPT !.status = to] ELSE orders[i]]
          /\ Go(w, [Idle EXCEPT
                      !.pc = IF ready = {} THEN next ELSE first,
                      !.jobs = [j \in DOMAIN mine |->
                                  [order |-> mine[j], payload |-> orders[mine[j]].payload,
                                   usable |-> provider.usable]]])

ClaimPending(w) ==
    /\ At(w, "pending")
    /\ Claim(w, "pending_dns_challenge", "dns_challenge_presenting", "prepare", "ready")
    /\ UNCHANGED <<certs, bound, extVars, stranded, faults>> /\ OutsideWorker

\* prepare_dns01_challenge: an order already prepared keeps its payload, another
\* gets an ACME order, unless the server refuses one.
Prepare(w) ==
    /\ At(w, "prepare")
    /\ LET i == CHOOSE n \in 1..MaxAcme + 1 :
                  /\ n \in AcmeIds => acme[n] = "none"
                  /\ \A m \in 1..n - 1 : acme[m] # "none"
       IN  \/ /\ TheJob(w).payload # NoAcme
              /\ Go(w, [worker[w] EXCEPT !.pc = "present", !.acme = TheJob(w).payload])
              /\ UNCHANGED <<acme, faults>>
           \/ /\ TheJob(w).payload = NoAcme /\ i \in AcmeIds
              /\ acme' = [acme EXCEPT ![i] = "new"]
              /\ \/ /\ Go(w, [worker[w] EXCEPT !.pc = "present", !.acme = i])
                    /\ UNCHANGED faults
                 \/ Goto(w, "challenge_failed") /\ AcmeFails
           \/ /\ TheJob(w).payload = NoAcme /\ i \notin AcmeIds
              /\ Goto(w, "challenge_failed")
              /\ UNCHANGED <<acme, faults>>
    /\ UNCHANGED <<orders, certs, bound, txt, stranded>> /\ OutsideWorker

\* The provider's records: create_record, refused for a content that is there
\* already, and delete_record, which finds the record by its content.
CreateRecord(a) == a \notin txt /\ txt' = txt \cup {a}
DeleteRecord(a) == txt' = txt \ {a}

\* process_dns_challenge: provider_from_config, then present_dns01_challenge.
Present(w) ==
    /\ At(w, "present")
    /\ LET a == worker[w].acme
       IN  \/ /\ BuildProvider(w) /\ CreateRecord(a)
              /\ \/ Goto(w, "acknowledge") /\ UNCHANGED faults
                 \/ Goto(w, "challenge_failed") /\ DnsFails
           \/ /\ BuildProvider(w) => a \in txt
              /\ Goto(w, "challenge_failed")
              /\ UNCHANGED <<txt, faults>>
    /\ UNCHANGED <<orders, certs, bound, acme, stranded>> /\ OutsideWorker

\* acknowledge_dns01_challenge: the server may look for the record from now on.
Acknowledge(w) ==
    /\ At(w, "acknowledge")
    /\ acme' = [acme EXCEPT ![worker[w].acme] = IF @ = "new" THEN "acknowledged" ELSE @]
    /\ \/ Goto(w, "payload") /\ UNCHANGED faults
       \/ Goto(w, "challenge_failed") /\ AcmeFails
    /\ UNCHANGED <<orders, certs, bound, txt, stranded>> /\ OutsideWorker

\* process_pending_certificate_orders, after process_dns_challenge.
SavePayload(w) ==
    /\ At(w, "payload")
    /\ orders' = [orders EXCEPT ![TheJob(w).order].payload = worker[w].acme]
    /\ Goto(w, "presented")
    /\ UNCHANGED <<certs, bound, extVars, stranded, faults>> /\ OutsideWorker

\* The index refuses to make a renewal active again next to another one.
EndChallenge(w) ==
    /\ worker[w].pc \in {"presented", "challenge_failed"}
    /\ IF /\ At(w, "presented")
          /\ TheOrder(w).kind = "renew"
          /\ RenewalActive(TheOrder(w).cert, TheJob(w).order)
         THEN Exit(w) /\ UNCHANGED orders
         ELSE /\ SetStatus(TheJob(w).order,
                           IF At(w, "presented") THEN "dns_challenge_presented"
                                                 ELSE "dns_challenge_failed")
              /\ NextJob(w, "prepare", "ready")
              /\ UNCHANGED stranded
    /\ UNCHANGED <<certs, bound, extVars, faults>> /\ OutsideWorker

ClaimReady(w) ==
    /\ At(w, "ready")
    /\ Claim(w, "dns_challenge_presented", "issuing", "finalize", "select")
    /\ UNCHANGED <<certs, bound, extVars, stranded, faults>> /\ OutsideWorker

\* poll_authorization_valid ends when the server has decided; an ACME order that
\* was finalized cannot be finalized again.
Authorized(a)      == acme[a] = "valid"
NeverAuthorized(a) == acme[a] \in {"invalid", "finalized"}

\* finalize_and_download_certificate.
Download(a) == acme' = [acme EXCEPT ![a] = "finalized"]

\* finalize_certificate_order: the client and the challenge are built, the
\* authorization is awaited, the certificate ordered and downloaded.
Finalize(w) ==
    /\ At(w, "finalize")
    /\ LET a == TheJob(w).payload
           ready == BuildProvider(w) /\ a # NoAcme
       IN  \/ /\ ready /\ Authorized(a) /\ Download(a)
              /\ \/ Goto(w, "cleanup") /\ UNCHANGED faults
                 \/ Goto(w, "issue_failed") /\ AcmeFails
           \/ /\ ready => NeverAuthorized(a)
              /\ Goto(w, "issue_failed")
              /\ UNCHANGED <<acme, faults>>
           \/ /\ ready /\ acme[a] = "acknowledged"   \* the poll's deadline passes
              /\ Goto(w, "issue_failed") /\ AcmeFails
              /\ UNCHANGED acme
    /\ UNCHANGED <<orders, certs, bound, txt, stranded>> /\ OutsideWorker

\* Mutant of Cleanup: the record is found by its name, which all orders share.
CleanupByName(w) ==
    /\ At(w, "cleanup")
    /\ txt' = {}
    /\ Goto(w, "persist")
    /\ UNCHANGED <<orders, certs, bound, acme, stranded, faults>> /\ OutsideWorker

\* Mutant of Cleanup: a failure is only logged.
CleanupUnreported(w) ==
    /\ At(w, "cleanup")
    /\ \/ txt' = txt \ {TheJob(w).payload} /\ UNCHANGED faults
       \/ UNCHANGED txt /\ DnsFails
    /\ Goto(w, "persist")
    /\ UNCHANGED <<orders, certs, bound, acme, stranded>> /\ OutsideWorker

\* cleanup_dns01_challenge; a failure becomes the order's warning.
Cleanup(w) ==
    /\ At(w, "cleanup")
    /\ \/ /\ DeleteRecord(TheJob(w).payload)
          /\ Goto(w, "persist") /\ UNCHANGED faults
       \/ /\ DeleteRecord(TheJob(w).payload) \/ UNCHANGED txt
          /\ Go(w, [worker[w] EXCEPT !.pc = "persist", !.warned = TRUE])
          /\ DnsFails
    /\ UNCHANGED <<orders, certs, bound, acme, stranded>> /\ OutsideWorker

\* Mutant of Targets: a renewal without a site looks for no bindings.
TargetsOfSite(o) == IF o.site # NoSite THEN {o.site} ELSE {}

\* persist_issued_certificate: what its transaction reads, all of it with the
\* version, which the code reads first.  The sites are the order's own, or those a
\* renewal finds the certificate bound to.
Targets(o) ==
    IF o.site # NoSite THEN {o.site}
    ELSE IF o.kind = "renew" THEN {s \in Sites : \E b \in bound[s] : b.cert = o.cert}
    ELSE {}

ReadVersion(w) ==
    /\ At(w, "persist")
    /\ Go(w, [worker[w] EXCEPT !.pc = "commit",
                               !.version = Len(certs[TheOrder(w).cert].versions) + 1,
                               !.targets = Targets(TheOrder(w)),
                               !.seen = UNION {bound[s] : s \in Sites}])
    /\ UNCHANGED <<orders, certs, bound, extVars, stranded, faults>> /\ OutsideWorker

\* Mutant of Commit: the order is not part of the transaction.
CommitWithoutOrder(w) ==
    /\ At(w, "commit")
    /\ LET c == TheOrder(w).cert
       IN  /\ certs' = [certs EXCEPT ![c].versions = Append(@, TheJob(w).order)]
           /\ UNCHANGED <<orders, bound, stranded>>
    /\ NextJob(w, "finalize", "select")
    /\ UNCHANGED <<extVars, faults>> /\ OutsideWorker

\* What it writes.  The certificate's row is locked until the commit, and the
\* version is unique: a version stored since the read ends the process.  The
\* default bindings it saw at its targets are replaced by its own.
Commit(w) ==
    /\ At(w, "commit")
    /\ LET o == TheJob(w).order
           c == TheOrder(w).cert
           v == worker[w].version
       IN  IF Len(certs[c].versions) >= v
             THEN Exit(w) /\ UNCHANGED <<orders, certs, bound>>
             ELSE /\ certs' = [certs EXCEPT ![c] = [active |-> TRUE, due |-> FALSE,
                                                   versions |-> Append(@.versions, o)]]
                  /\ bound' = [s \in Sites |->
                                 IF s \in worker[w].targets
                                   THEN (bound[s] \ worker[w].seen)
                                          \cup {[cert |-> c, version |-> v]}
                                   ELSE bound[s]]
                  /\ orders' = [orders EXCEPT ![o].status = "issued",
                                              ![o].warned = worker[w].warned]
                  /\ NextJob(w, "finalize", "select")
                  /\ UNCHANGED stranded
    /\ UNCHANGED <<extVars, faults>> /\ OutsideWorker

\* Mutant of FailIssue: the error is logged and the order left as it is.
FailIssueUnrecorded(w) ==
    /\ At(w, "issue_failed")
    /\ NextJob(w, "finalize", "select")
    /\ UNCHANGED <<orders, certs, bound, extVars, stranded, faults>> /\ OutsideWorker

FailIssue(w) ==
    /\ At(w, "issue_failed")
    /\ SetStatus(TheJob(w).order, "issue_failed")
    /\ NextJob(w, "finalize", "select")
    /\ UNCHANGED <<certs, bound, extVars, stranded, faults>> /\ OutsideWorker

Crash(w) ==
    /\ worker[w] # Idle
    /\ Fault
    /\ Exit(w)
    /\ UNCHANGED <<orders, certs, bound, extVars>> /\ OutsideWorker

WorkerStep(w) ==
    \/ SelectDue(w) \/ InsertRenewal(w)
    \/ ClaimPending(w) \/ Prepare(w) \/ Present(w) \/ Acknowledge(w)
    \/ SavePayload(w) \/ EndChallenge(w)
    \/ ClaimReady(w) \/ Finalize(w) \/ Cleanup(w) \/ ReadVersion(w) \/ Commit(w)
    \/ FailIssue(w)

----------------------------------------------------------------------------
(* The ACME server and the passing of time.                                *)

\* The server looks the record up; it may miss one that is there.
Validate(a) ==
    /\ acme[a] = "acknowledged"
    /\ \/ /\ acme' = [acme EXCEPT ![a] = IF a \in txt THEN "valid" ELSE "invalid"]
          /\ UNCHANGED faults
       \/ /\ a \in txt
          /\ acme' = [acme EXCEPT ![a] = "invalid"] /\ Fault
    /\ UNCHANGED <<dbVars, req, worker, txt, history, dues, requests>>

\* A certificate comes within PINGORAHUB_CERT_AUTO_RENEW_BEFORE_DAYS of its end.
ComesDue(c) ==
    /\ dues < MaxDue
    /\ c \in DOMAIN certs /\ certs[c].active /\ ~certs[c].due
    /\ certs' = [certs EXCEPT ![c].due = TRUE]
    /\ dues' = dues + 1
    /\ UNCHANGED <<provider, zone, orders, bound, req, worker, extVars, history,
                   requests, faults>>

Next ==
    \/ \E a \in Admins : Request(a)
    \/ \E w \in Workers : WorkerStep(w) \/ Crash(w)
    \/ \E a \in AcmeIds : Validate(a)
    \/ \E c \in CertIds : ComesDue(c)

Spec == Init /\ [][Next]_vars

\* A worker's loop waits for nobody but the ACME server, which answers; nothing
\* makes an administrator act or a certificate run out.
FairSpec == /\ Spec
            /\ \A w \in Workers : WF_vars(WorkerStep(w))
            /\ WF_vars(\E a \in AcmeIds : Validate(a))

----------------------------------------------------------------------------
(* Properties.                                                             *)

\* OneWorker: an order is in the hands of at most one dns-worker, unless an
\* administrator requeued it from a stale read or under a worker.  It rests on
\* the claims being transactions that also change the status.
OneWorker == \A o \in OrderIds \ raced : Cardinality(Held(o)) <= 1

\* IssuedOnce: an order that was not requeued in that way is issued exactly when
\* its certificate has one version that came from it; crashes, retries and the
\* claims of several workers included.
IssuedOnce ==
    \A o \in DOMAIN orders \ raced :
      LET from == {v \in DOMAIN certs[orders[o].cert].versions :
                     certs[orders[o].cert].versions[v] = o}
      IN  IF orders[o].status = "issued" THEN Cardinality(from) = 1 ELSE from = {}

\* RecordStaysUntilChecked: while the ACME server still has to look for a
\* challenge's TXT record, the record is there: it is created before the
\* challenge is acknowledged and only the order that was finalized removes it,
\* by its content, although all orders of a domain share the record's name.
RecordStaysUntilChecked == \A a \in AcmeIds : acme[a] = "acknowledged" => a \in txt

\* IssuedIsClean: when an order is issued without a warning, the TXT record of
\* the attempt that was issued (the one in the row's payload) is gone and does not
\* come back, unless the order was requeued in a race.  It says nothing of
\* earlier attempts: one that failed after its record was created leaves it at
\* the provider, whatever becomes of the order.
IssuedIsClean ==
    \A o \in DOMAIN orders \ raced :
      orders[o].status = "issued" /\ ~orders[o].warned => orders[o].payload \notin txt

\* DefaultIsNewest: the version a site is bound to is the newest one of its
\* certificate, so a release compiled from the bindings never ships a version
\* that was renewed; whichever worker commits last.
DefaultIsNewest ==
    \A s \in Sites : \A b \in bound[s] : b.version = Len(certs[b.cert].versions)

\* VersionsNeverClash: two workers never store the same version of the same
\* certificate (the later one would exit on the unique key and strand its
\* batch), unless an order of theirs was requeued under them.
VersionsNeverClash ==
    \A v, w \in Workers :
      /\ v # w /\ At(v, "commit") /\ At(w, "commit")
      /\ {TheJob(v).order, TheJob(w).order} \cap raced = {}
      => TheOrder(v).cert # TheOrder(w).cert

\* IssuedNeverReset: "issued certificate orders cannot be reset"
\* (apps/hub-api/src/service.rs, reset_certificate_order).
IssuedNeverReset ==
    [][\A o \in DOMAIN orders :
         orders[o].status = "issued" => orders'[o].status # "pending_dns_challenge"]_vars

\* OrdersEnd: an order under way is issued or fails in the end, unless the
\* worker that held it exited, or its zone was deleted under it.
OrdersEnd ==
    \A o \in OrderIds :
      UnderWay(o) ~> (~UnderWay(o) \/ o \in stranded \/ orders[o].zone = Null)

====
