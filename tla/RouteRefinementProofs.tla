------------------------ MODULE RouteRefinementProofs ------------------------
(* RouteController implements RouteProvisioning, and what follows from it,   *)
(* for every value of the constants.                                         *)
EXTENDS RouteControllerProofs

\* The abstract variables, as the refinement mapping computes them.
ADomain == [o \in Orders |-> IF ca[o].status = "none" THEN NoHost ELSE ca[o].domain]
AValid == {o \in Orders : ca[o].status = "valid"}
ARecorded == IF route.status.active THEN route.status.uri ELSE NoOrder

\* The CA has created exactly the orders below nextOrder.
OrdersFresh == \A o \in Orders : ca[o].status = "none" <=> nextOrder <= o

\* A provisioning status records no order, or one the CA created.
StatusKnown(ps) == (ps.active /\ ps.uri # NoOrder) => ca[ps.uri].status # "none"

\* The inductive invariant behind the refinement: the stored Route's status
\* and the informer copy's both name created orders.
RInv ==
    /\ TypeOK
    /\ CacheCoherent
    /\ OrdersFresh
    /\ StatusKnown(route.status)
    /\ StatusKnown(cache.status)


\* A step that creates no order, issues or forgets no certificate and moves
\* no order's identifier: every order keeps being created or not, and valid
\* or not.
CAQuiet ==
    \A o \in Orders :
        /\ (ca'[o].status = "none") = (ca[o].status = "none")
        /\ (ca'[o].status = "valid") = (ca[o].status = "valid")
        /\ ca'[o].domain = ca[o].domain

\* A step that leaves the stored Route's certificate, host and status alone.
RouteQuiet ==
    /\ route'.cert = route.cert
    /\ route'.host = route.host
    /\ route'.status = route.status

\* The part of RInv the refinement adds to IInv's, and what each step must
\* show: it keeps that part and is a step or a stutter of the abstract spec.
KnownRest == OrdersFresh /\ StatusKnown(route.status) /\ StatusKnown(cache.status)
RefStep == KnownRest' /\ [Provisioning!Next]_Provisioning!vars

USE DEF ProvStatus

-----------------------------------------------------------------------------
(* Lemmas about the mapping                                                *)

\* The abstract variables stay put when what they are computed from does.
LEMMA ProvStutter ==
    ASSUME ADomain' = ADomain, AValid' = AValid, ARecorded' = ARecorded,
           route'.cert = route.cert, route'.host = route.host
    PROVE  UNCHANGED Provisioning!vars
BY DEF Provisioning!vars, ADomain, AValid, ARecorded

\* A quiet CA step leaves the abstract domains and certificates alone.
LEMMA CAQuietMapped ==
    ASSUME CAQuiet
    PROVE  ADomain' = ADomain /\ AValid' = AValid
BY DEF CAQuiet, ADomain, AValid

\* A quiet CA step keeps a status known.
LEMMA CAQuietKnown ==
    ASSUME TypeOK, CAQuiet, NEW ps \in ProvStatus, StatusKnown(ps)
    PROVE  StatusKnown(ps)'
BY DEF CAQuiet, StatusKnown, TypeOK

\* A status naming a created order names an abstract created order.
LEMMA KnownCreated ==
    ASSUME TypeOK, NEW ps \in ProvStatus, StatusKnown(ps), ps.active
    PROVE  ps.uri \in Provisioning!Created \cup {NoOrder}
<1>1. CASE ps.uri = NoOrder
  BY <1>1
<1>2. CASE ps.uri # NoOrder
  <2>1. ps.uri \in Orders /\ ca[ps.uri].status # "none"
    BY <1>2 DEF StatusKnown
  <2>2. ca[ps.uri].domain \in Hosts
    BY <2>1 DEF TypeOK
  <2>3. QED
    BY <2>1, <2>2, HostsAssumption DEF Provisioning!Created
<1>3. QED
  BY <1>1, <1>2

\* A step that touches neither the created orders, the certificates, nor the
\* stored Route's certificate, host and status is an abstract stutter.
LEMMA QuietStep ==
    ASSUME TypeOK, KnownRest, CAQuiet, RouteQuiet, nextOrder' = nextOrder,
           cache'.status \in {cache.status, route.status}
    PROVE  RefStep
<1>1. route.status \in ProvStatus /\ cache.status \in ProvStatus
  BY DEF TypeOK, RouteObj
<1>2. OrdersFresh'
  BY DEF CAQuiet, OrdersFresh, KnownRest
<1>3. StatusKnown(route.status)' /\ StatusKnown(cache.status)'
  <2>2. StatusKnown(route.status)'
    BY <1>1, CAQuietKnown DEF RouteQuiet, KnownRest, StatusKnown
  <2>3. StatusKnown(cache.status)'
    BY <1>1, CAQuietKnown DEF KnownRest, StatusKnown
  <2>4. QED
    BY <2>2, <2>3
<1>4. UNCHANGED Provisioning!vars
  BY CAQuietMapped, ProvStutter DEF RouteQuiet, ARecorded
<1>5. QED
  BY <1>2, <1>3, <1>4 DEF RefStep, KnownRest


\* No step takes back the creation of an order.
CAMono == \A o \in Orders : ca[o].status # "none" => ca'[o].status # "none"

\* A status naming a created order keeps naming one.
LEMMA KnownMono ==
    ASSUME TypeOK, CAMono, NEW ps \in ProvStatus, StatusKnown(ps)
    PROVE  StatusKnown(ps)'
BY DEF CAMono, StatusKnown, TypeOK

\* updateStatus, with the CA quiet: the write, when it happens, stores the
\* informer copy, which is then the stored Route, with status ps; recording a
\* known order is an abstract Record.
LEMMA PersistStep ==
    ASSUME TypeOK, CacheCoherent, KnownRest, CAQuiet, nextOrder' = nextOrder,
           NEW ps \in ProvStatus, NEW again \in BOOLEAN, StatusKnown(ps),
           Persist(ps, again), UNCHANGED cache
    PROVE  RefStep
<1>1. CASE Annotated(ps) # cache /\ synced
  <2>1. route' = Annotated(ps) /\ cache = route
    BY <1>1 DEF Persist, CacheCoherent
  <2>2. /\ route'.cert = route.cert /\ route'.host = route.host
        /\ route'.status = ps
    BY <2>1 DEF Annotated, TypeOK, RouteObj
  <2>3. KnownRest'
    <3>1. OrdersFresh'
      BY DEF CAQuiet, OrdersFresh, KnownRest
    <3>2. StatusKnown(ps)' /\ StatusKnown(cache.status)'
      <4>1. cache.status \in ProvStatus
        BY DEF TypeOK, RouteObj
      <4>2. QED
        BY <4>1, CAQuietKnown DEF KnownRest
    <3>3. QED
      BY <2>2, <3>1, <3>2 DEF KnownRest, StatusKnown
  <2>4. ARecorded' \in Provisioning!Created \cup {NoOrder}
    <3>1. CASE ps.active
      BY <2>2, <3>1, KnownCreated DEF ARecorded
    <3>2. CASE ~ps.active
      BY <2>2, <3>2 DEF ARecorded
    <3>3. QED
      BY <3>1, <3>2
  <2>5. Provisioning!Record(ARecorded')
    BY <2>2, <2>4, CAQuietMapped DEF Provisioning!Record, ARecorded, ADomain, AValid
  <2>6. \E u \in Orders \cup {NoOrder} : Provisioning!Record(u)
    BY <2>4, <2>5 DEF Provisioning!Record, Provisioning!Created
  <2>7. Provisioning!Next
    BY <2>6 DEF Provisioning!Next
  <2>8. QED
    BY <2>3, <2>7 DEF RefStep
<1>2. CASE ~(Annotated(ps) # cache /\ synced)
  <2>1. UNCHANGED storeVars
    BY <1>2 DEF Persist
  <2>2. QED
    BY <2>1, QuietStep DEF storeVars, RouteQuiet
<1>3. QED
  BY <1>1, <1>2

\* AuthorizeOrder: the CA creates order nextOrder, which was not created, for
\* identifier h; no certificate is issued or forgotten.
LEMMA NewCAOrderMapped ==
    ASSUME TypeOK, OrdersFresh, NEW h \in Hosts, NewCAOrder(h)
    PROVE  /\ nextOrder \in Orders
           /\ ADomain[nextOrder] = NoHost
           /\ ADomain' = [ADomain EXCEPT ![nextOrder] = h]
           /\ AValid' = AValid
           /\ OrdersFresh'
           /\ CAMono
           /\ ca'[nextOrder].status # "none"
<1>1. nextOrder \in Orders /\ nextOrder' = nextOrder + 1
  BY DEF NewCAOrder, TypeOK, Orders
<1>2. ca[nextOrder].status = "none"
  BY <1>1 DEF OrdersFresh, Orders
<1>3. ca' = [ca EXCEPT ![nextOrder] = [status |-> "pending", domain |-> h, chal |-> "pending"]]
  BY DEF NewCAOrder
<1>4. ADomain[nextOrder] = NoHost
  BY <1>1, <1>2 DEF ADomain
<1>5. ADomain' = [ADomain EXCEPT ![nextOrder] = h]
  BY <1>1, <1>3 DEF ADomain, TypeOK
<1>6. AValid' = AValid
  BY <1>1, <1>2, <1>3 DEF AValid, TypeOK
<1>7. OrdersFresh'
  BY <1>1, <1>3 DEF OrdersFresh, TypeOK, Orders
<1>8. CAMono /\ ca'[nextOrder].status # "none"
  BY <1>1, <1>3 DEF CAMono, TypeOK
<1>9. QED
  BY <1>1, <1>4, <1>5, <1>6, <1>7, <1>8


\* A run that has the CA create an order for h and then records it from the
\* stored Route, or records nothing, is an abstract CreateOrder.
LEMMA CreateStep ==
    ASSUME TypeOK, CacheCoherent, KnownRest, NEW h \in Hosts, NewCAOrder(h),
           \/ route' = route
           \/ /\ cache = route /\ cache.status.active
              /\ route' = Annotated([cache.status EXCEPT !.uri = nextOrder]),
           cache'.status \in {cache.status, route.status}
    PROVE  RefStep
<1>1. /\ nextOrder \in Orders
      /\ ADomain[nextOrder] = NoHost
      /\ ADomain' = [ADomain EXCEPT ![nextOrder] = h]
      /\ AValid' = AValid
      /\ OrdersFresh'
      /\ CAMono
      /\ ca'[nextOrder].status # "none"
  BY NewCAOrderMapped DEF KnownRest
<1>2. route.status \in ProvStatus /\ cache.status \in ProvStatus
  BY DEF TypeOK, RouteObj
<1>3. StatusKnown(cache.status)'
  BY <1>1, <1>2 DEF KnownRest, StatusKnown, CAMono
<1>4. /\ route'.cert = route.cert /\ route'.host = route.host
      /\ ARecorded' \in {ARecorded, nextOrder}
      /\ StatusKnown(route.status)'
  <2>1. CASE route' = route
    BY <1>1, <1>2, <2>1 DEF KnownRest, StatusKnown, CAMono, ARecorded
  <2>2. CASE route' # route
    <3>1. cache = route /\ cache.status.active
          /\ route' = Annotated([cache.status EXCEPT !.uri = nextOrder])
      BY <2>2
    <3>2. /\ route'.cert = route.cert /\ route'.host = route.host
          /\ route'.status = [cache.status EXCEPT !.uri = nextOrder]
      BY <3>1 DEF Annotated, TypeOK, RouteObj
    <3>3. route'.status.active /\ route'.status.uri = nextOrder
      BY <1>2, <3>1, <3>2
    <3>4. QED
      BY <1>1, <3>2, <3>3 DEF ARecorded, StatusKnown
  <2>3. QED
    BY <2>1, <2>2
<1>5. KnownRest'
  BY <1>1, <1>3, <1>4 DEF KnownRest
<1>6. Provisioning!CreateOrder(nextOrder, h)
  BY <1>1, <1>4 DEF Provisioning!CreateOrder, ADomain, AValid, ARecorded
<1>7. \E o \in Orders, g \in Hosts : Provisioning!CreateOrder(o, g)
  BY <1>1, <1>6 DEF Provisioning!CreateOrder
<1>8. Provisioning!Next
  BY <1>7 DEF Provisioning!Next
<1>9. QED
  BY <1>5, <1>8 DEF RefStep


\* The CA turns created order o valid, and the stored Route may get o's
\* certificate if o's identifier is its host: an abstract Issue.
LEMMA IssueStep ==
    ASSUME TypeOK, KnownRest, NEW o \in Orders, ca[o].status # "none",
           ca' = [ca EXCEPT ![o].status = "valid"], nextOrder' = nextOrder,
           route'.host = route.host, route'.status = route.status,
           \/ route'.cert = route.cert
           \/ ca[o].domain = route.host /\ route'.cert = o,
           cache'.status = cache.status
    PROVE  RefStep
<1>1. ADomain' = ADomain /\ ADomain[o] = ca[o].domain
  BY DEF ADomain, TypeOK
<1>2. AValid' = AValid \cup {o}
  BY DEF AValid, TypeOK
<1>3. o \in Provisioning!Created
  BY <1>1, HostsAssumption DEF Provisioning!Created, TypeOK
<1>4. KnownRest'
  <2>1. CAMono
    BY DEF CAMono, TypeOK
  <2>2. OrdersFresh'
    BY DEF OrdersFresh, KnownRest, TypeOK
  <2>3. route.status \in ProvStatus /\ cache.status \in ProvStatus
    BY DEF TypeOK, RouteObj
  <2>4. QED
    BY <2>1, <2>2, <2>3 DEF KnownRest, StatusKnown, CAMono
<1>5. Provisioning!Issue(o)
  BY <1>1, <1>2, <1>3 DEF Provisioning!Issue, ADomain, AValid, ARecorded
<1>6. Provisioning!Next
  <2>1. \E p \in Orders : Provisioning!Issue(p) \/ Provisioning!Forget(p)
    BY <1>5 DEF Provisioning!Issue
  <2>2. QED
    BY <2>1 DEF Provisioning!Next
<1>7. QED
  BY <1>4, <1>6 DEF RefStep

\* The CA forgets order o: an abstract Forget.
LEMMA ForgetStep ==
    ASSUME TypeOK, KnownRest, NEW o \in Orders, CAForget(o)
    PROVE  RefStep
<1>1. ca' = [ca EXCEPT ![o].status = "gone"] /\ ca[o].status # "none"
      /\ UNCHANGED <<route, cache, nextOrder>>
  BY DEF CAForget, storeVars
<1>2. ADomain' = ADomain /\ AValid' = AValid \ {o}
  BY <1>1 DEF ADomain, AValid, TypeOK
<1>3. KnownRest'
  <2>1. CAMono
    BY <1>1 DEF CAMono, TypeOK
  <2>2. OrdersFresh'
    BY <1>1 DEF OrdersFresh, KnownRest, TypeOK
  <2>3. route.status \in ProvStatus /\ cache.status \in ProvStatus
    BY DEF TypeOK, RouteObj
  <2>4. QED
    BY <1>1, <2>1, <2>2, <2>3 DEF KnownRest, StatusKnown, CAMono
<1>4. Provisioning!Forget(o)
  BY <1>1, <1>2 DEF Provisioning!Forget, ADomain, AValid, ARecorded
<1>5. Provisioning!Next
  <2>1. \E p \in Orders : Provisioning!Issue(p) \/ Provisioning!Forget(p)
    BY <1>4 DEF Provisioning!Forget
  <2>2. QED
    BY <2>1 DEF Provisioning!Next
<1>6. QED
  BY <1>3, <1>5 DEF RefStep

\* A user's host edit: an abstract EditHost.
LEMMA EditHostStep ==
    ASSUME TypeOK, KnownRest, NEW h \in Hosts, EditHost(h)
    PROVE  RefStep
<1>1. /\ route' = [route EXCEPT !.host = h, !.admitted = FALSE, !.obsCurrent = FALSE]
      /\ UNCHANGED <<cache, ca, nextOrder>>
  BY DEF EditHost, caVars
<1>2. /\ route'.host = h /\ route'.cert = route.cert /\ route'.status = route.status
  BY <1>1 DEF TypeOK, RouteObj
<1>3. KnownRest'
  BY <1>1, <1>2 DEF KnownRest, StatusKnown, OrdersFresh
<1>4. Provisioning!EditHost(h)
  BY <1>1, <1>2 DEF Provisioning!EditHost, ADomain, AValid, ARecorded
<1>5. Provisioning!Next
  <2>1. \E g \in Hosts : Provisioning!EditHost(g)
    BY <1>4 DEF Provisioning!EditHost
  <2>2. QED
    BY <2>1 DEF Provisioning!Next
<1>6. QED
  BY <1>3, <1>5 DEF RefStep


-----------------------------------------------------------------------------
(* Each branch of handle() is an abstract step or a stutter                *)

\* The early returns and a transient fault change nothing the mapping reads.
LEMMA SkipRefines ==
    ASSUME TypeOK, KnownRest, HandleSkip \/ HandleStatusUnreadable \/ HandleFault
    PROVE  RefStep
<1>1. UNCHANGED <<route, cache, ca, nextOrder>>
  BY DEF HandleSkip, HandleStatusUnreadable, HandleFault, caVars
<1>2. QED
  BY <1>1, QuietStep DEF CAQuiet, RouteQuiet

\* No provisioning in progress: persist the idle status, or crash after the CA
\* created an order nobody records.
LEMMA IdleRefines ==
    ASSUME TypeOK, CacheCoherent, KnownRest, HandleIdle
    PROVE  RefStep
<1>1. \/ Finish("error", FALSE) /\ UNCHANGED <<route, cache, synced, caVars>>
      \/ Persist(cache.status, FALSE) /\ UNCHANGED <<cache, caVars>>
      \/ NewCAOrder(cache.host) /\ Restarted /\ outcome' = "crash" /\ UNCHANGED route
  BY Zenon DEF HandleIdle
<1>2. cache.status \in ProvStatus /\ cache.host \in Hosts
  BY DEF TypeOK, RouteObj
<1>3. CASE Finish("error", FALSE) /\ UNCHANGED <<route, cache, synced, caVars>>
  BY <1>3, QuietStep DEF CAQuiet, RouteQuiet, caVars
<1>4. CASE Persist(cache.status, FALSE) /\ UNCHANGED <<cache, caVars>>
  <2>1. CAQuiet /\ nextOrder' = nextOrder
    BY <1>4 DEF CAQuiet, caVars
  <2>2. StatusKnown(cache.status)
    BY DEF KnownRest
  <2>3. QED
    BY <1>2, <1>4, <2>1, <2>2, PersistStep
<1>5. CASE NewCAOrder(cache.host) /\ Restarted /\ outcome' = "crash" /\ UNCHANGED route
  <2>1. cache'.status \in {cache.status, route.status}
    BY <1>5 DEF Restarted
  <2>2. QED
    BY <1>2, <1>5, <2>1, CreateStep
<1>6. QED
  BY <1>1, <1>3, <1>4, <1>5

\* NEW_ORDER: the CA creates the order and the status write records it, or
\* the CA refuses.
LEMMA NewOrderRefines ==
    ASSUME TypeOK, CacheCoherent, KnownRest, HandleNewOrder
    PROVE  RefStep
<1>1. UNCHANGED cache /\ cache.status.active /\ cache.host \in Hosts
  BY DEF HandleNewOrder, TypeOK, RouteObj
<1>2. CASE NewCAOrder(cache.host) /\ Persist([cache.status EXCEPT !.uri = nextOrder], FALSE)
  <2>1. \/ route' = route
        \/ /\ cache = route
           /\ route' = Annotated([cache.status EXCEPT !.uri = nextOrder])
    BY <1>2 DEF Persist, CacheCoherent, storeVars
  <2>2. QED
    BY <1>1, <1>2, <2>1, CreateStep
<1>3. CASE Finish("error", FALSE) /\ UNCHANGED <<route, synced, caVars>>
  BY <1>1, <1>3, QuietStep DEF CAQuiet, RouteQuiet, caVars
<1>4. QED
  BY <1>2, <1>3 DEF HandleNewOrder

\* The responder calls change at most a challenge.
LEMMA ExposerCAQuiet ==
    ASSUME TypeOK, NEW o \in Orders, NEW stop, ExposerEffects(o, stop)
    PROVE  CAQuiet
<1>1. ca' \in {ca, [ca EXCEPT ![o].chal = "processing"]}
  BY DEF ExposerEffects
<1>2. QED
  BY <1>1 DEF CAQuiet, TypeOK

\* The status a polling branch persists records the order of the informer
\* copy's status with the order's state at the CA.
LEMMA RecordedKnown ==
    ASSUME TypeOK, KnownRest, NEW o \in Orders, ca[o].status \in OrderStatus
    PROVE  Recorded(o) \in ProvStatus /\ StatusKnown(Recorded(o))
BY DEF TypeOK, RouteObj, Recorded, StatusKnown, KnownRest

\* The idle status, and the informer copy's status with its order dropped,
\* record no order.
LEMMA DroppedKnown ==
    ASSUME TypeOK
    PROVE  /\ Idle \in ProvStatus /\ StatusKnown(Idle)
           /\ [cache.status EXCEPT !.uri = NoOrder] \in ProvStatus
           /\ StatusKnown([cache.status EXCEPT !.uri = NoOrder])
BY DEF TypeOK, RouteObj, StatusKnown, Idle


\* The polling branches only persist a status: the order dropped, the idle
\* status, or the order's state at the CA.
LEMMA PollingRefines ==
    ASSUME TypeOK, CacheCoherent, KnownRest, NEW o \in Orders,
           \/ HandleStuck \/ HandleOrderGone(o) \/ HandlePendingBusy(o)
           \/ HandleProcessing(o) \/ HandleInvalid(o)
    PROVE  RefStep
<1>1. CAQuiet /\ nextOrder' = nextOrder /\ UNCHANGED cache
  BY DEF HandleStuck, HandleOrderGone, HandlePendingBusy, HandleProcessing,
         HandleInvalid, CAQuiet, caVars
<1>2. CASE HandleStuck
  BY <1>1, <1>2, DroppedKnown, PersistStep DEF HandleStuck
<1>3. CASE HandleOrderGone(o)
  BY <1>1, <1>3, DroppedKnown, PersistStep DEF HandleOrderGone
<1>4. CASE HandlePendingBusy(o) \/ HandleInvalid(o)
  <2>1. ca[o].status \in OrderStatus /\ Persist(Recorded(o), FALSE)
    BY <1>4 DEF HandlePendingBusy, HandleInvalid, OrderStatus
  <2>2. QED
    BY <1>1, <2>1, RecordedKnown, PersistStep
<1>5. CASE HandleProcessing(o)
  <2>1. ca[o].status \in OrderStatus /\ Persist(Recorded(o), TRUE)
    BY <1>5 DEF HandleProcessing, OrderStatus
  <2>2. QED
    BY <1>1, <2>1, RecordedKnown, PersistStep
<1>6. QED
  BY <1>2, <1>3, <1>4, <1>5

\* PENDING: the responder calls change at most the challenge, and the status
\* write records the order; a collision or a fault records nothing.
LEMMA PendingChallengeRefines ==
    ASSUME TypeOK, CacheCoherent, KnownRest, NEW o \in Orders,
           HandlePendingChallenge(o) \/ HandleExposeFault(o)
    PROVE  RefStep
<1>1. /\ \E stop : ExposerEffects(o, stop)
      /\ nextOrder' = nextOrder /\ UNCHANGED cache
  BY Zenon DEF HandlePendingChallenge, HandleExposeFault
<1>2. CAQuiet
  BY <1>1, ExposerCAQuiet
<1>3. CASE HandlePendingChallenge(o) /\ Persist(Recorded(o), FALSE)
  <2>1. ca[o].status \in OrderStatus
    BY <1>3 DEF HandlePendingChallenge, OrderStatus
  <2>2. QED
    BY <1>1, <1>2, <1>3, <2>1, RecordedKnown, PersistStep
<1>4. CASE HandlePendingChallenge(o) /\ UNCHANGED storeVars
  BY <1>1, <1>2, <1>4, QuietStep DEF RouteQuiet, storeVars
<1>5. CASE HandleExposeFault(o)
  BY <1>1, <1>2, <1>5, QuietStep DEF HandleExposeFault, RouteQuiet
<1>6. QED
  BY <1>3, <1>4, <1>5 DEF HandlePendingChallenge

\* READY: an accepted finalize is the CA issuing the order, and the
\* certificate is written only from a synced copy whose host is the order's
\* identifier; a refused finalize or a timed-out one issues nothing the
\* mapping sees.
LEMMA FinalizeRefines ==
    ASSUME TypeOK, CacheCoherent, KnownRest, NEW o \in Orders,
           HandleFinalize(o) \/ HandleFinalizeTimeout(o)
    PROVE  RefStep
<1>1. nextOrder' = nextOrder /\ UNCHANGED cache
  BY DEF HandleFinalize, HandleFinalizeTimeout
<1>2. CASE HandleFinalize(o) /\ FinalizeAccepted(o)
  <2>1. /\ ca' = [ca EXCEPT ![o].status = "valid"]
        /\ ca[o].status # "none"
        /\ \/ InstallWrite(o)
           \/ UNCHANGED storeVars
    BY <1>2 DEF HandleFinalize, FinalizeAccepted
  <2>2. CASE InstallWrite(o)
    <3>1. cache = route /\ route' = InstallCert(o)
      BY <2>2 DEF InstallWrite, CacheCoherent
    <3>2. /\ route'.host = route.host /\ route'.status = route.status
          /\ route'.cert = o /\ ca[o].domain = route.host
      BY <1>2, <3>1 DEF InstallCert, FinalizeAccepted, TypeOK, RouteObj
    <3>3. QED
      BY <1>1, <2>1, <3>2, IssueStep
  <2>3. CASE UNCHANGED storeVars
    BY <1>1, <2>1, <2>3, IssueStep DEF storeVars
  <2>4. QED
    BY <2>1, <2>2, <2>3
<1>3. CASE HandleFinalize(o) /\ ~FinalizeAccepted(o)
  BY <1>1, <1>3, QuietStep DEF HandleFinalize, CAQuiet, RouteQuiet
<1>4. CASE HandleFinalizeTimeout(o)
  <2>1. CAQuiet
    BY <1>4 DEF HandleFinalizeTimeout, FinalizeAccepted, CAQuiet, TypeOK
  <2>2. QED
    BY <1>1, <1>4, <2>1, QuietStep DEF HandleFinalizeTimeout, RouteQuiet
<1>5. QED
  BY <1>2, <1>3, <1>4


-----------------------------------------------------------------------------
(* The environment, and every step                                         *)

\* The informer, the queue, restarts, the router, the garbage collector, the
\* CA's own moves and time: only CAIssue, CAForget and a host edit are
\* abstract steps.
LEMMA EnvironmentRefines ==
    ASSUME TypeOK, CacheCoherent, KnownRest, Environment
    PROVE  RefStep
<1>1. CASE CacheSync \/ Resync \/ ProcessStrayItem \/ Restart
  BY <1>1, QuietStep
     DEF CacheSync, Resync, ProcessStrayItem, Restart, Restarted, CAQuiet,
         RouteQuiet, caVars
<1>2. CASE \E h \in Hosts : EditHost(h)
  BY <1>2, EditHostStep
<1>3. CASE Admit \/ Delete \/ GC \/ CertAges
  <2>1. RouteQuiet /\ UNCHANGED <<cache, ca, nextOrder>>
    BY <1>3 DEF Admit, Delete, GC, CertAges, RouteQuiet, TypeOK, RouteObj,
                storeVars, caVars
  <2>2. QED
    BY <2>1, QuietStep DEF CAQuiet
<1>4. ASSUME NEW o \in Orders,
             CAValidate(o) \/ CAReject(o) \/ CAExpire(o) \/ OrderTimesOut(o)
      PROVE  RefStep
  <2>1. CAQuiet /\ UNCHANGED <<route, cache, nextOrder>>
    BY <1>4 DEF CAValidate, CAReject, CAExpire, OrderTimesOut, CAQuiet, TypeOK,
                storeVars, caVars
  <2>2. QED
    BY <2>1, QuietStep DEF RouteQuiet
<1>5. ASSUME NEW o \in Orders, CAIssue(o)
      PROVE  RefStep
  BY <1>5, IssueStep DEF CAIssue, storeVars
<1>6. ASSUME NEW o \in Orders, CAForget(o)
      PROVE  RefStep
  BY <1>6, ForgetStep
<1>7. QED
  BY <1>1, <1>2, <1>3, <1>4, <1>5, <1>6 DEF Environment

\* Every step of the specification keeps the facts the mapping needs and is a
\* step of RouteProvisioning or a stutter.
LEMMA RefStepHolds ==
    ASSUME TypeOK, CacheCoherent, KnownRest, [Next]_vars
    PROVE  RefStep
<1>1. CASE HandleSkip \/ HandleStatusUnreadable \/ HandleFault
  BY <1>1, SkipRefines
<1>2. CASE HandleIdle
  BY <1>2, IdleRefines
<1>3. CASE HandleNewOrder
  BY <1>3, NewOrderRefines
<1>4. CASE HandleStuck
  BY <1>4, PollingRefines, OrdersAssumption DEF Orders
<1>5. CASE \E o \in Orders :
             \/ HandleOrderGone(o) \/ HandlePendingChallenge(o) \/ HandlePendingBusy(o)
             \/ HandleFinalize(o) \/ HandleProcessing(o) \/ HandleInvalid(o)
             \/ HandleExposeFault(o) \/ HandleFinalizeTimeout(o)
  BY <1>5, PollingRefines, PendingChallengeRefines, FinalizeRefines
<1>6. CASE Environment
  BY <1>6, EnvironmentRefines
<1>7. CASE UNCHANGED vars
  BY <1>7, QuietStep DEF vars, CAQuiet, RouteQuiet
<1>8. QED
  BY <1>1, <1>2, <1>3, <1>4, <1>5, <1>6, <1>7 DEF Next, Handle, Reconcile

\* RInv holds initially: no order has been created and the status records
\* none.
LEMMA RInvInit ==
    ASSUME Init
    PROVE  RInv
<1>1. TypeOK
  BY InitType
<1>2. CacheCoherent /\ OrdersFresh
  BY DEF Init, CacheCoherent, OrdersFresh, Orders
<1>3. StatusKnown(route.status) /\ StatusKnown(cache.status)
  <2>1. route.status \in {Idle, [Idle EXCEPT !.active = TRUE]} /\ cache = route
    BY DEF Init
  <2>2. route.status.uri = NoOrder
    <3>1. [Idle EXCEPT !.active = TRUE].uri = NoOrder /\ Idle.uri = NoOrder
      BY Zenon DEF Idle
    <3>2. QED
      BY <2>1, <3>1, Zenon
  <2>3. QED
    BY <2>1, <2>2 DEF StatusKnown
<1>4. QED
  BY <1>1, <1>2, <1>3 DEF RInv

\* RInv is inductive.
LEMMA RInvStep ==
    ASSUME RInv, [Next]_vars
    PROVE  RInv' /\ [Provisioning!Next]_Provisioning!vars
<1>1. TypeOK'
  BY TypeStep DEF RInv
<1>2. CacheCoherent'
  BY ServedStepHolds DEF RInv, ServedStep
<1>3. RefStep
  BY RefStepHolds DEF RInv, KnownRest
<1>4. QED
  BY <1>1, <1>2, <1>3 DEF RInv, RefStep, KnownRest


\* The initial state is RouteProvisioning's: no order created, none issued,
\* none recorded, the Route's certificate absent or its initial one.
LEMMA ProvInit ==
    ASSUME Init
    PROVE  Provisioning!Init
<1>1. route.status \in {Idle, [Idle EXCEPT !.active = TRUE]}
      /\ route.cert \in {NoCert, 0} /\ route.host = InitHost
  BY DEF Init
<1>2. route.status.uri = NoOrder
  <2>1. [Idle EXCEPT !.active = TRUE].uri = NoOrder /\ Idle.uri = NoOrder
    BY Zenon DEF Idle
  <2>2. QED
    BY <1>1, <2>1, Zenon
<1>3. ADomain = [o \in Orders |-> NoHost] /\ AValid = {}
  BY DEF Init, ADomain, AValid
<1>4. ARecorded = NoOrder
  BY <1>2 DEF ARecorded
<1>5. QED
  BY <1>1, <1>3, <1>4, HostsAssumption
     DEF Provisioning!Init, ADomain, AValid, ARecorded

\* A step that changes the Route's certificate is the CA issuing an order
\* created for the Route's host.
LEMMA CertStep ==
    ASSUME TypeOK, [Provisioning!Next]_Provisioning!vars, route'.cert # route.cert
    PROVE  CertHost(route'.cert) = route'.host
<1>1. PICK o \in Orders : Provisioning!Issue(o) /\ route'.cert = o
  <2>1. Provisioning!Next
    BY DEF Provisioning!vars
  <2>2. QED
    BY <2>1 DEF Provisioning!Next, Provisioning!CreateOrder, Provisioning!Record,
                Provisioning!Issue, Provisioning!Forget, Provisioning!EditHost
<1>2. ADomain[o] = route.host /\ route'.host = route.host
  BY <1>1 DEF Provisioning!Issue, ADomain
<1>3. ca[o].domain = route.host
  BY <1>2, HostsAssumption DEF ADomain, TypeOK, RouteObj
<1>4. o # 0
  BY DEF Orders
<1>5. QED
  BY <1>1, <1>2, <1>3, <1>4 DEF CertHost

-----------------------------------------------------------------------------
(* The theorems                                                            *)

\* The Route controller implements RouteProvisioning under the mapping
\* Provisioning: every order handle() creates with AuthorizeOrder is fresh and
\* for the Route's host of the moment, updateStatus records only orders the CA
\* created, and a certificate reaches the Route only from an order the CA
\* issued for its host (route.go:369-780).
THEOREM RefinementHolds == Spec => ImplementsProvisioning
<1>1. Init => RInv /\ Provisioning!Init
  BY RInvInit, ProvInit
<1>2. RInv /\ [Next]_vars => RInv' /\ [Provisioning!Next]_Provisioning!vars
  BY RInvStep
<1>3. QED
  BY <1>1, <1>2, PTL DEF Spec, ImplementsProvisioning, Provisioning!Spec

\* Whenever the Route's stored status records an order, the CA has created
\* that order: handle() writes the URI only after AuthorizeOrder returned it,
\* and every later write copies it from the informer copy, which is itself a
\* status once stored (route.go:345-363, 436-448).
THEOREM RecordedOrderKnownHolds == Spec => []RecordedOrderKnown
<1>1. Init => RInv
  BY RInvInit
<1>2. RInv /\ [Next]_vars => RInv'
  BY RInvStep
<1>3. RInv => RecordedOrderKnown
  BY DEF RInv, StatusKnown, RecordedOrderKnown
<1>4. QED
  BY <1>1, <1>2, <1>3, PTL DEF Spec

\* A step that changes the Route's certificate installs one whose order's
\* identifier is the Route's host: the READY branch finalizes only when the
\* order's domain is the informer copy's host, and writes the certificate only
\* from a synced copy (route.go:711-757).
THEOREM CertForOwnHostHolds == Spec => CertForOwnHost
<1>1. Init => RInv
  BY RInvInit
<1>2. RInv /\ [Next]_vars => RInv'
  BY RInvStep
<1>3. RInv /\ [Next]_vars
        => [route'.cert # route.cert => CertHost(route'.cert) = route'.host]_vars
  BY RInvStep, CertStep DEF RInv
<1>4. QED
  BY <1>1, <1>2, <1>3, PTL DEF Spec, CertForOwnHost


\* Through the mapping, the controller keeps RouteProvisioning's consistency:
\* every order the stored status records, every order the CA holds a
\* certificate for and every certificate handle() put on the Route is an
\* order AuthorizeOrder created.
THEOREM ProvisioningConsistent ==
    Spec => [](Provisioning!TypeOK /\ Provisioning!Consistent)
<1>1. Provisioning!Sentinels
  BY HostsAssumption DEF Provisioning!Sentinels, Orders, NoCert
<1>2. QED
  BY <1>1, RefinementHolds, Provisioning!SpecConsistent DEF ImplementsProvisioning
=============================================================================
