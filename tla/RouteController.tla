--------------------------- MODULE RouteController ---------------------------
(***************************************************************************)
(* The Route controller of src/pkg/controllers/route/route.go: the         *)
(* per-key handler handle() that drives one managed Route through the ACME *)
(* order state machine, together with the parts of its environment the    *)
(* handler races with:                                                     *)
(*   - the object store (the Route as stored) and the informer cache the   *)
(*     handler reads from (routeReadOnly), which may lag behind it;        *)
(*   - the rate-limited work queue and handleErr's retry policy;           *)
(*   - the ACME CA, which advances orders and challenges on its own;       *)
(*   - the responder objects (exposer Route, ReplicaSet, Service);         *)
(*   - time (order timeout, certificate ageing), users and process crashes.*)
(* One handler run is one atomic step: the work queue never runs a key    *)
(* twice at once, and a crash in the middle of a run is a run that failed *)
(* at that call followed by a Restart.                                     *)
(***************************************************************************)
EXTENDS Integers

CONSTANTS
    Hosts,       \* host names a Route may carry
    InitHost,    \* the Route's host when the controller first sees it
    NoHost,      \* the host of an exposer Route that does not exist
    MaxOrders,   \* orders the CA accepts before rate limiting (bound)
    MaxEdits     \* host edits a user makes (bound)

ASSUME HostsAssumption == InitHost \in Hosts /\ NoHost \notin Hosts
ASSUME OrdersAssumption == MaxOrders \in Nat \ {0}
ASSUME EditsAssumption == MaxEdits \in Nat

\* route.go:53
MaxRetries == 2

Orders == 1..MaxOrders
NoOrder == 0
\* Certificate 0 was on the Route before the controller ran; o was issued for order o.
CertIds == 0..MaxOrders
NoCert == -1

OrderStatus == {"pending", "ready", "processing", "valid", "invalid"}
CAStatus == OrderStatus \cup {"none", "gone"}      \* "none": not created, "gone": 404
ChalStatus == {"pending", "processing", "valid", "invalid"}
Phases == {"fresh", "proactive", "renewal", "expired"}
NextPhase == [fresh |-> "proactive", proactive |-> "renewal", renewal |-> "expired"]
Outcomes == {"none", "ok", "fault", "conflict", "collision", "error", "crash"}

\* api.Status.ProvisioningStatus; active = FALSE is the nil pointer.
ProvStatus == [active: BOOLEAN, uri: {NoOrder} \cup Orders, ostatus: OrderStatus \cup {""}]
Idle == [active |-> FALSE, uri |-> NoOrder, ostatus |-> ""]

\* The fields of a Route this controller reads or writes. statusAnn: the status
\* annotation is present; otherAnn: the Route carries other annotations;
\* obsCurrent: the status' observedGeneration equals the Route's generation.
RouteObj == [exists: BOOLEAN, host: Hosts, admitted: BOOLEAN,
             cert: CertIds \cup {NoCert}, statusAnn: BOOLEAN, otherAnn: BOOLEAN,
             status: ProvStatus, obsCurrent: BOOLEAN]

VARIABLES
    route,      \* the Route in the object store
    cache,      \* the informer's copy of it, read by handle() as routeReadOnly
    synced,     \* no write to the Route since the cache copy (resourceVersions agree)
    queued,     \* the key is in the work queue
    requeues,   \* queue.NumRequeues(key)
    strayItem,  \* the queue holds a *Route object the processing branch added
    ca,         \* the CA's orders: status, identifier and http-01 challenge status
    nextOrder,  \* the next order the CA hands out
    overdue,    \* orders whose started_at + orderTimeout lies in the past
    certPhase,  \* where now lies in each certificate's lifetime
    expRoute,   \* host of the exposer Route of each order, or NoHost
    expRS,      \* orders whose exposer ReplicaSet exists
    expSvc,     \* orders whose exposer Service exists
    edits,      \* host edits made so far
    outcome     \* what the last handler run returned (history, for properties)

storeVars == <<route, synced>>
queueVars == <<queued, requeues, strayItem>>
caVars == <<ca, nextOrder>>
timeVars == <<overdue, certPhase>>
expVars == <<expRoute, expRS, expSvc>>
vars == <<route, cache, synced, queued, requeues, strayItem, ca, nextOrder, overdue,
          certPhase, expRoute, expRS, expSvc, edits, outcome>>

TypeOK ==
    /\ route \in RouteObj
    /\ cache \in RouteObj
    /\ synced \in BOOLEAN
    /\ queued \in BOOLEAN
    /\ requeues \in 0..MaxRetries
    /\ strayItem \in BOOLEAN
    /\ ca \in [Orders -> [status: CAStatus, domain: Hosts, chal: ChalStatus]]
    /\ nextOrder \in 1..(MaxOrders + 1)
    /\ overdue \subseteq Orders
    /\ certPhase \in [CertIds -> Phases]
    /\ expRoute \in [Orders -> Hosts \cup {NoHost}]
    /\ expRS \subseteq Orders
    /\ expSvc \subseteq Orders
    /\ edits \in 0..MaxEdits
    /\ outcome \in Outcomes

\* A managed Route as a user creates it: with or without a certificate and other
\* annotations, and with no status or one left by an earlier run (active, no order).
Init ==
    /\ route \in {r \in RouteObj :
                    /\ r.exists /\ r.host = InitHost
                    /\ r.cert \in {NoCert, 0}
                    /\ r.status \in {Idle, [Idle EXCEPT !.active = TRUE]}
                    /\ ~r.statusAnn => r.status = Idle /\ ~r.obsCurrent
                    /\ r.statusAnn => ~r.otherAnn}
    /\ cache = route
    /\ synced = TRUE
    /\ queued = TRUE
    /\ requeues = 0
    /\ strayItem = FALSE
    /\ ca = [o \in Orders |-> [status |-> "none", domain |-> InitHost, chal |-> "pending"]]
    /\ nextOrder = 1
    /\ overdue = {}
    /\ certPhase \in {f \in [CertIds -> Phases] :
                        \A c \in CertIds : c # route.cert => f[c] = "fresh"}
    /\ expRoute = [o \in Orders |-> NoHost]
    /\ expRS = {}
    /\ expSvc = {}
    /\ edits = 0
    /\ outcome = "none"

-----------------------------------------------------------------------------
(* Helpers translated from route.go                                        *)

\* certHost: the host a certificate was issued for.
CertHost(c) == IF c = 0 THEN InitHost ELSE ca[c].domain

\* needsCertKey (route.go:264-311): the reasons it may return for Route r now;
\* "error" is its error return, "" no renewal. In the proactive band the
\* time-seeded normal draw decides, so both answers are possible.
NeedsCertKey(r) ==
    IF r.cert = NoCert THEN {"missing"}
    ELSE IF CertHost(r.cert) # r.host THEN {"error"}
    ELSE CASE certPhase[r.cert] = "expired"   -> {"expired"}
           [] certPhase[r.cert] = "renewal"   -> {"renewal"}
           [] certPhase[r.cert] = "proactive" -> {"proactive", ""}
           [] certPhase[r.cert] = "fresh"     -> {""}

\* getStatus (route.go:313-328): json.Unmarshal of a missing annotation fails
\* whenever the Route has an annotation map at all.
StatusReadable(r) == r.statusAnn \/ ~r.otherAnn

\* Mutant of Finish: the retry budget test off by one (<= MaxRetries).
FinishOffByOne(res, again) ==
    /\ outcome' = res
    /\ strayItem' = (strayItem \/ again)
    /\ IF res = "ok" \/ requeues > MaxRetries
         THEN queued' = FALSE /\ requeues' = 0
         ELSE queued' = TRUE /\ requeues' = requeues + 1

\* handleErr (route.go:879-901) after handle returned res: Forget the key on
\* success or once MaxRetries requeues are spent, else AddRateLimited. again:
\* the run called queue.AddAfter(routeReadOnly, ...) (route.go:766), which adds
\* the *Route object, not its key, to the queue.
Finish(res, again) ==
    /\ outcome' = res
    /\ strayItem' = (strayItem \/ again)
    /\ IF res = "ok" \/ requeues >= MaxRetries
         THEN queued' = FALSE /\ requeues' = 0
         ELSE queued' = TRUE /\ requeues' = requeues + 1

\* setStatus (route.go:330-343) on the cached copy.
Annotated(ps) == [cache EXCEPT !.status = ps, !.statusAnn = TRUE, !.obsCurrent = TRUE]

\* updateStatus (route.go:345-363): write only when the object changed; the
\* write carries routeReadOnly's resourceVersion and conflicts if it is stale.
Persist(ps, again) ==
    LET new == Annotated(ps) IN
    \/ /\ new = cache
       /\ UNCHANGED storeVars
       /\ Finish("ok", again)
    \/ /\ new # cache
       /\ synced
       /\ route' = new
       /\ synced' = FALSE
       /\ Finish("ok", again)
    \/ /\ new # cache
       /\ ~synced
       /\ UNCHANGED storeVars
       /\ Finish("conflict", again)

\* Mutant of NewCAOrder: the CA hands out the same order URI again.
NewCAOrderReuse(h) ==
    /\ nextOrder <= MaxOrders
    /\ ca' = [ca EXCEPT ![nextOrder] = [status |-> "pending", domain |-> h, chal |-> "pending"]]
    /\ UNCHANGED nextOrder

\* AuthorizeOrder(ctx, acme.DomainIDs(h)) as the CA executes it.
NewCAOrder(h) ==
    /\ nextOrder <= MaxOrders
    /\ ca' = [ca EXCEPT ![nextOrder] = [status |-> "pending", domain |-> h, chal |-> "pending"]]
    /\ nextOrder' = nextOrder + 1

\* The process dies and comes back: the informers re-list and enqueue every
\* managed Route, the in-memory queue and its retry history are gone.
Restarted ==
    /\ cache' = route
    /\ synced' = TRUE
    /\ queued' = route.exists
    /\ requeues' = 0
    /\ strayItem' = FALSE

\* The handler proceeds past its early returns (route.go:388-417).
Ready ==
    /\ queued
    /\ cache.exists
    /\ cache.admitted
    /\ StatusReadable(cache)

-----------------------------------------------------------------------------
(* The handler, one action per branch of handle() (route.go:369-780)       *)

\* Route gone, being deleted or not admitted: return nil (route.go:388-404).
HandleSkip ==
    /\ queued
    /\ ~cache.exists \/ ~cache.admitted
    /\ Finish("ok", FALSE)
    /\ UNCHANGED <<route, cache, synced, caVars, timeVars, expVars, edits>>

\* getStatus fails on a Route with annotations but no status (route.go:414-417).
HandleStatusUnreadable ==
    /\ queued
    /\ cache.exists /\ cache.admitted
    /\ ~StatusReadable(cache)
    /\ Finish("error", FALSE)
    /\ UNCHANGED <<route, cache, synced, caVars, timeVars, expVars, edits>>

\* No provisioning in progress (route.go:419-447). Without a renewal reason the
\* status is persisted. With one, the code falls through to AuthorizeOrder and
\* then assigns through the nil ProvisioningStatus: the goroutine panics, and
\* HandleCrash re-panics, so the process dies with the new order unrecorded.
HandleIdle ==
    /\ Ready
    /\ ~cache.status.active
    /\ \E reason \in NeedsCertKey(cache) :
          \/ /\ reason = "error"
             /\ Finish("error", FALSE)
             /\ UNCHANGED <<route, cache, synced, caVars>>
          \/ /\ reason = ""
             /\ Persist(cache.status, FALSE)
             /\ UNCHANGED <<cache, caVars>>
          \/ /\ reason \notin {"", "error"}
             /\ NewCAOrder(cache.host)
             /\ Restarted
             /\ outcome' = "crash"
             /\ UNCHANGED route
          \/ /\ reason \notin {"", "error"}
             /\ nextOrder > MaxOrders
             /\ Finish("error", FALSE)
             /\ UNCHANGED <<route, cache, synced, caVars>>
    /\ UNCHANGED <<timeVars, expVars, edits>>

\* Mutant of HandleNewOrder: the status records the URI after the one created.
HandleNewOrderNextUri ==
    /\ Ready
    /\ cache.status.active
    /\ cache.status.uri = NoOrder
    /\ \/ /\ NewCAOrder(cache.host)
          /\ Persist([cache.status EXCEPT !.uri = nextOrder + 1], FALSE)
       \/ /\ nextOrder > MaxOrders
          /\ Finish("error", FALSE)
          /\ UNCHANGED <<route, synced, caVars>>
    /\ UNCHANGED <<cache, timeVars, expVars, edits>>

\* NEW_ORDER: create the order and persist its URI at once (route.go:436-448).
HandleNewOrder ==
    /\ Ready
    /\ cache.status.active
    /\ cache.status.uri = NoOrder
    /\ \/ /\ NewCAOrder(cache.host)
          /\ Persist([cache.status EXCEPT !.uri = nextOrder], FALSE)
       \/ /\ nextOrder > MaxOrders
          /\ Finish("error", FALSE)
          /\ UNCHANGED <<route, synced, caVars>>
    /\ UNCHANGED <<cache, timeVars, expVars, edits>>

\* Mutant of HandleStuck: the stuck-order branch left out.
HandleStuckDropped == FALSE

\* STUCK: the order outlived orderTimeout, drop it (route.go:450-455).
HandleStuck ==
    /\ Ready
    /\ cache.status.active
    /\ cache.status.uri \in overdue
    /\ Persist(Idle, FALSE)
    /\ UNCHANGED <<cache, caVars, timeVars, expVars, edits>>

\* The handler polls order o (route.go:457).
Polling(o) ==
    /\ Ready
    /\ cache.status.active
    /\ cache.status.uri = o
    /\ o \notin overdue

\* status.ProvisioningStatus.OrderStatus = order.Status (route.go:470).
Recorded(o) == [cache.status EXCEPT !.ostatus = ca[o].status]

\* GetOrder returns 404: forget the URI (route.go:458-468).
HandleOrderGone(o) ==
    /\ Polling(o)
    /\ ca[o].status = "gone"
    /\ Persist([cache.status EXCEPT !.uri = NoOrder], FALSE)
    /\ UNCHANGED <<cache, caVars, timeVars, expVars, edits>>

\* Mutant of CallPos: the challenge accepted before the responder is created.
CallPosAcceptEarly == [route |-> 1, accept |-> 2, replicaset |-> 3, service |-> 4]

\* The calls of the pending-challenge branch, in the order the code makes
\* them: exposer Route (544), ReplicaSet (609), Service (654), Accept (688).
CallPos == [route |-> 1, replicaset |-> 2, service |-> 3, accept |-> 4]
AllCalls == 5

\* The state changes of the calls that returned before the call at position
\* stop failed (stop = AllCalls: none failed).
\* The objects' name, getTemporaryName (route.go:950-952), is "acme-exposer-"
\* followed by the raw bytes of a SHA-512 sum, which the API server's name
\* validation refuses; the model lets every Create succeed, a superset of
\* what the cluster allows, so what holds here holds there.
ExposerEffects(o, stop) ==
    /\ expRoute' = IF CallPos.route < stop THEN [expRoute EXCEPT ![o] = cache.host] ELSE expRoute
    /\ expRS' = IF CallPos.replicaset < stop THEN expRS \cup {o} ELSE expRS
    /\ expSvc' = IF CallPos.service < stop THEN expSvc \cup {o} ELSE expSvc
    /\ ca' = IF CallPos.accept < stop THEN [ca EXCEPT ![o].chal = "processing"] ELSE ca

\* An existing ReplicaSet or Service is adopted only if IsControlledBy the
\* parent Route (route.go:618, 663); they carry a non-controller owner
\* reference to the exposer Route, so the check fails on every existing one.
Adoptable(o, stop) ==
    /\ CallPos.replicaset < stop => o \notin expRS
    /\ CallPos.service < stop => o \notin expSvc
Collides(o, stop) ==
    \/ stop = CallPos.replicaset /\ o \in expRS
    \/ stop = CallPos.service /\ o \in expSvc

\* PENDING with a pending challenge: expose it, accept it, persist
\* (route.go:474-704), or stop at the first colliding object.
HandlePendingChallenge(o) ==
    /\ Polling(o)
    /\ ca[o].status = "pending"
    /\ ca[o].chal = "pending"
    /\ \/ /\ Adoptable(o, AllCalls)
          /\ ExposerEffects(o, AllCalls)
          /\ Persist(Recorded(o), FALSE)
       \/ \E stop \in 2..4 :
             /\ Collides(o, stop)
             /\ Adoptable(o, stop)
             /\ ExposerEffects(o, stop)
             /\ Finish("collision", FALSE)
             /\ UNCHANGED storeVars
    /\ UNCHANGED <<cache, nextOrder, timeVars, edits>>

\* PENDING with the challenge already processing: nothing to do but persist
\* (route.go:693-697, 704).
HandlePendingBusy(o) ==
    /\ Polling(o)
    /\ ca[o].status = "pending"
    /\ ca[o].chal = "processing"
    /\ Persist(Recorded(o), FALSE)
    /\ UNCHANGED <<cache, caVars, timeVars, expVars, edits>>

\* The CA finalizes only a ready order whose identifier the CSR names.
FinalizeAccepted(o) == ca[o].status = "ready" /\ ca[o].domain = cache.host

\* The Route with the new key and certificate (route.go:744-753); changing
\* spec.tls bumps the generation.
InstallCert(o) == [cache EXCEPT !.cert = o, !.obsCurrent = FALSE]

\* Mutant of InstallWrite: the write retried on conflict against a fresh read of
\* the Route (retry.RetryOnConflict around Get and Update).
InstallWriteRefetched(o) ==
    /\ route' = [route EXCEPT !.cert = o, !.obsCurrent = FALSE]
    /\ synced' = FALSE

\* Write the Route with the certificate, carrying routeReadOnly's resourceVersion
\* (route.go:755-758).
InstallWrite(o) ==
    /\ synced
    /\ route' = InstallCert(o)
    /\ synced' = FALSE

\* READY or VALID: finalize with a CSR for routeReadOnly's host, write the
\* certificate onto the Route with routeReadOnly's resourceVersion, then clear
\* the status through updateStatus(routeReadOnly.DeepCopy()) (route.go:706-762).
\* That second write carries the resourceVersion the first one just replaced,
\* so it always conflicts.
HandleFinalize(o) ==
    /\ Polling(o)
    /\ ca[o].status \in {"ready", "valid"}
    /\ \/ /\ FinalizeAccepted(o)
          /\ ca' = [ca EXCEPT ![o].status = "valid"]
          /\ certPhase' = [certPhase EXCEPT ![o] = "fresh"]
          /\ \/ InstallWrite(o)
             \/ /\ ~synced
                /\ UNCHANGED storeVars
          /\ Finish("conflict", FALSE)
       \/ /\ ~FinalizeAccepted(o)
          /\ Finish("error", FALSE)
          /\ UNCHANGED <<route, synced, ca, certPhase>>
    /\ UNCHANGED <<cache, nextOrder, overdue, expVars, edits>>

\* PROCESSING: re-add after 15s and persist (route.go:764-770).
HandleProcessing(o) ==
    /\ Polling(o)
    /\ ca[o].status = "processing"
    /\ Persist(Recorded(o), TRUE)
    /\ UNCHANGED <<cache, caVars, timeVars, expVars, edits>>

\* INVALID: emit an event, persist, keep the order until it is stuck
\* (route.go:772-775).
HandleInvalid(o) ==
    /\ Polling(o)
    /\ ca[o].status = "invalid"
    /\ Persist(Recorded(o), FALSE)
    /\ UNCHANGED <<cache, caVars, timeVars, expVars, edits>>

\* Every branch, as the code runs it when no call fails transiently.
Reconcile ==
    \/ HandleSkip
    \/ HandleStatusUnreadable
    \/ HandleIdle
    \/ HandleNewOrder
    \/ HandleStuck
    \/ \E o \in Orders :
          \/ HandleOrderGone(o)
          \/ HandlePendingChallenge(o)
          \/ HandlePendingBusy(o)
          \/ HandleFinalize(o)
          \/ HandleProcessing(o)
          \/ HandleInvalid(o)

\* A call fails transiently (transport error, 60s deadline) before the run
\* changed anything: GetClient, AuthorizeOrder, GetOrder, GetAuthorization.
HandleFault ==
    /\ queued
    /\ cache.exists /\ cache.admitted
    /\ Finish("fault", FALSE)
    /\ UNCHANGED <<route, cache, synced, caVars, timeVars, expVars, edits>>

\* A later call of the pending-challenge branch fails transiently.
HandleExposeFault(o) ==
    /\ Polling(o)
    /\ ca[o].status = "pending"
    /\ ca[o].chal = "pending"
    /\ \E stop \in 2..4 :
          /\ ~Collides(o, stop)
          /\ Adoptable(o, stop)
          /\ ExposerEffects(o, stop)
    /\ Finish("fault", FALSE)
    /\ UNCHANGED <<route, cache, synced, nextOrder, timeVars, edits>>

\* CreateOrderCert hits its deadline after the CA accepted the CSR: the CA goes
\* on to issue, the handler returns an error.
HandleFinalizeTimeout(o) ==
    /\ Polling(o)
    /\ FinalizeAccepted(o)
    /\ ca' = [ca EXCEPT ![o].status = "processing"]
    /\ Finish("fault", FALSE)
    /\ UNCHANGED <<route, cache, synced, nextOrder, timeVars, expVars, edits>>

Handle ==
    \/ Reconcile
    \/ HandleFault
    \/ \E o \in Orders : HandleExposeFault(o) \/ HandleFinalizeTimeout(o)

-----------------------------------------------------------------------------
(* The informer, the queue and the process                                 *)

\* The informer catches up with the store and delivers the update or delete
\* event; updateRoute/deleteRoute enqueue the key (route.go:153-191).
CacheSync ==
    /\ ~synced
    /\ cache' = route
    /\ synced' = TRUE
    /\ queued' = TRUE
    /\ UNCHANGED <<route, requeues, strayItem, caVars, timeVars, expVars, edits, outcome>>

\* The periodic resync replays the cached Route through updateRoute.
Resync ==
    /\ cache.exists
    /\ ~queued
    /\ queued' = TRUE
    /\ UNCHANGED <<route, cache, synced, requeues, strayItem, caVars, timeVars, expVars, edits, outcome>>

\* A worker takes the *Route object from the queue; processNextItem's
\* key.(string) panics and HandleCrash re-panics: the process dies
\* (route.go:903-915).
ProcessStrayItem ==
    /\ strayItem
    /\ Restarted
    /\ outcome' = "crash"
    /\ UNCHANGED <<route, caVars, timeVars, expVars, edits>>

\* The controller process crashes and restarts.
Restart ==
    /\ Restarted
    /\ UNCHANGED <<route, caVars, timeVars, expVars, edits, outcome>>

-----------------------------------------------------------------------------
(* Users, the router and the garbage collector                             *)

\* A user changes the Route's host; the router has to admit it again.
EditHost(h) ==
    /\ route.exists
    /\ edits < MaxEdits
    /\ h # route.host
    /\ route' = [route EXCEPT !.host = h, !.admitted = FALSE, !.obsCurrent = FALSE]
    /\ synced' = FALSE
    /\ edits' = edits + 1
    /\ UNCHANGED <<cache, queueVars, caVars, timeVars, expVars, outcome>>

\* The router admits the Route.
Admit ==
    /\ route.exists
    /\ ~route.admitted
    /\ route' = [route EXCEPT !.admitted = TRUE]
    /\ synced' = FALSE
    /\ UNCHANGED <<cache, queueVars, caVars, timeVars, expVars, edits, outcome>>

\* A user deletes the Route.
Delete ==
    /\ route.exists
    /\ route' = [route EXCEPT !.exists = FALSE]
    /\ synced' = FALSE
    /\ UNCHANGED <<cache, queueVars, caVars, timeVars, expVars, edits, outcome>>

\* The garbage collector cascades the deletion to the exposer objects.
GC ==
    /\ ~route.exists
    /\ expRoute # [o \in Orders |-> NoHost] \/ expRS # {} \/ expSvc # {}
    /\ expRoute' = [o \in Orders |-> NoHost]
    /\ expRS' = {}
    /\ expSvc' = {}
    /\ UNCHANGED <<route, cache, synced, queueVars, caVars, timeVars, edits, outcome>>

-----------------------------------------------------------------------------
(* The CA (RFC 8555) and time                                              *)

\* The responder for o answers the CA on the order's domain.
Serving(o) ==
    /\ expRoute[o] = ca[o].domain
    /\ o \in expRS
    /\ o \in expSvc

\* The CA validates an accepted challenge that is being served.
CAValidate(o) ==
    /\ ca[o].status = "pending"
    /\ ca[o].chal = "processing"
    /\ Serving(o)
    /\ ca' = [ca EXCEPT ![o].chal = "valid", ![o].status = "ready"]
    /\ UNCHANGED <<storeVars, cache, queueVars, nextOrder, timeVars, expVars, edits, outcome>>

\* The CA gives up on an accepted challenge nobody serves.
CAReject(o) ==
    /\ ca[o].status = "pending"
    /\ ca[o].chal = "processing"
    /\ ~Serving(o)
    /\ ca' = [ca EXCEPT ![o].chal = "invalid", ![o].status = "invalid"]
    /\ UNCHANGED <<storeVars, cache, queueVars, nextOrder, timeVars, expVars, edits, outcome>>

\* The CA finishes issuing a certificate after a finalize call timed out.
CAIssue(o) ==
    /\ ca[o].status = "processing"
    /\ ca' = [ca EXCEPT ![o].status = "valid"]
    /\ certPhase' = [certPhase EXCEPT ![o] = "fresh"]
    /\ UNCHANGED <<storeVars, cache, queueVars, nextOrder, overdue, expVars, edits, outcome>>

\* An order that never completed expires.
CAExpire(o) ==
    /\ ca[o].status \in {"pending", "ready"}
    /\ ca' = [ca EXCEPT ![o].status = "invalid"]
    /\ UNCHANGED <<storeVars, cache, queueVars, nextOrder, timeVars, expVars, edits, outcome>>

\* The CA forgets an order; GetOrder answers 404.
CAForget(o) ==
    /\ ca[o].status \notin {"none", "gone"}
    /\ ca' = [ca EXCEPT ![o].status = "gone"]
    /\ UNCHANGED <<storeVars, cache, queueVars, nextOrder, timeVars, expVars, edits, outcome>>

\* orderTimeout passes since order o was created.
OrderTimesOut(o) ==
    /\ ca[o].status # "none"
    /\ o \notin overdue
    /\ overdue' = overdue \cup {o}
    /\ UNCHANGED <<storeVars, cache, queueVars, caVars, certPhase, expVars, edits, outcome>>

\* The installed certificate ages into its next renewal band.
CertAges ==
    /\ route.cert # NoCert
    /\ certPhase[route.cert] # "expired"
    /\ certPhase' = [certPhase EXCEPT ![route.cert] = NextPhase[@]]
    /\ UNCHANGED <<storeVars, cache, queueVars, caVars, overdue, expVars, edits, outcome>>

Environment ==
    \/ CacheSync \/ Resync \/ ProcessStrayItem \/ Restart
    \/ \E h \in Hosts : EditHost(h)
    \/ Admit \/ Delete \/ GC
    \/ CertAges
    \/ \E o \in Orders :
          \/ CAValidate(o) \/ CAReject(o) \/ CAIssue(o) \/ CAExpire(o) \/ CAForget(o)
          \/ OrderTimesOut(o)

Next == Handle \/ Environment

\* The handler is eventually run without a transient fault whenever the key is
\* repeatedly queued; the informer keeps up and resyncs; an item added with
\* AddAfter is taken by a worker once its delay passes; the router admits;
\* the garbage collector runs; time passes.
Fairness ==
    /\ SF_vars(Reconcile)
    /\ WF_vars(CacheSync)
    /\ WF_vars(Resync)
    /\ WF_vars(ProcessStrayItem)
    /\ WF_vars(Admit)
    /\ WF_vars(GC)
    /\ \A o \in Orders : WF_vars(OrderTimesOut(o))

Spec == Init /\ [][Next]_vars
FairSpec == Spec /\ Fairness

-----------------------------------------------------------------------------
(* Properties                                                              *)

\* Every challenge the controller has accepted is served: once Accept has been
\* called for an order's challenge, its exposer Route, ReplicaSet and Service
\* all exist while the parent Route does (the call order of route.go:544-688).
ExposedBeforeAccept ==
    \A o \in Orders :
        (ca[o].chal # "pending" /\ route.exists) =>
            /\ expRoute[o] # NoHost
            /\ o \in expRS
            /\ o \in expSvc

\* A certificate written onto the Route was issued for the host the Route has
\* after the write, even when a user edits the host while the order runs and
\* the informer cache is behind (route.go:711-757).
CertForOwnHost ==
    [][route'.cert # route.cert => CertHost(route'.cert) = route'.host]_vars

\* No order stays recorded in the Route's status for ever: it is completed,
\* replaced or cleared as stuck (route.go:436-468, 760) while the Route exists.
OrderEventuallyReleased ==
    \A o \in Orders :
        (route.exists /\ route.status.active /\ route.status.uri = o)
            ~> (~route.exists \/ ~route.status.active \/ route.status.uri # o)

\* Spec scenario 1: an admitted Route without a certificate and without a
\* provisioning status eventually has an order recorded in its status
\* (route.go:419-447).
FirstOrderRecorded ==
    (/\ route.exists /\ route.admitted /\ route.cert = NoCert
     /\ ~route.status.active /\ StatusReadable(route))
        ~> (~route.exists \/ (route.status.active /\ route.status.uri # NoOrder))

\* Every item in the work queue is a namespace/name key that processNextItem
\* can hand to handle: the processing branch re-enqueues the Route so that the
\* order is polled again 15 s later (spec, PROCESSING row) without a crash.
OnlyKeysQueued == ~strayItem

\* A handler run's write is refused for a stale resourceVersion only when the
\* informer copy it started from was already stale: a run never conflicts with
\* its own earlier write (updateStatus after the certificate Update, route.go:755-762).
NoSelfConflict ==
    [][Handle => (outcome' = "conflict" => ~synced)]_vars


\* Every order the Route's stored provisioning status records is one the CA
\* created (spec section 3, provisioning status): NEW_ORDER persists the URI
\* AuthorizeOrder returned, and a write from a stale informer copy only ever
\* re-records an order that copy already held (route.go:436-448, 345-363).
RecordedOrderKnown ==
    (route.status.active /\ route.status.uri # NoOrder) =>
        ca[route.status.uri].status # "none"

\* The abstract provisioning specification under the refinement mapping: the
\* CA's created orders and their identifiers, the certificates it holds, the
\* order the stored status records, and the stored Route's certificate and host.
Provisioning == INSTANCE RouteProvisioning
    WITH Orders <- Orders, Hosts <- Hosts, NoHost <- NoHost, NoOrder <- NoOrder,
         NoCert <- NoCert, InitCert <- 0,
         domain <- [o \in Orders |-> IF ca[o].status = "none" THEN NoHost ELSE ca[o].domain],
         valid <- {o \in Orders : ca[o].status = "valid"},
         recorded <- IF route.status.active THEN route.status.uri ELSE NoOrder,
         cert <- route.cert,
         host <- route.host

\* The Route controller implements the provisioning specification: orders are
\* created once and recorded only once created, and a certificate reaches the
\* stored Route only as the CA issues it for the host the Route has then
\* (route.go:369-780 with the CA, the informer and user edits).
ImplementsProvisioning == Provisioning!Spec

=============================================================================
