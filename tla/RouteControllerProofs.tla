------------------------ MODULE RouteControllerProofs ------------------------
(* Proofs about RouteController for every value of its constants.          *)
EXTENDS RouteController, TLAPS

\* The informer copy equals the stored Route whenever no write happened since
\* it was taken: the resourceVersion test of a write stands for this equality.
CacheCoherent == synced => cache = route

\* The inductive invariant behind ExposedBeforeAccept.
IInv == TypeOK /\ CacheCoherent /\ ExposedBeforeAccept

USE HostsAssumption, OrdersAssumption, EditsAssumption

-----------------------------------------------------------------------------
(* Lemmas about the helpers                                                *)

\* handleErr keeps the retry count within the queue's budget.
LEMMA FinishType ==
    ASSUME TypeOK, NEW res \in Outcomes, NEW again \in BOOLEAN, Finish(res, again)
    PROVE  /\ queued' \in BOOLEAN
           /\ requeues' \in 0..MaxRetries /\ strayItem' \in BOOLEAN
           /\ outcome' \in Outcomes
<1>1. outcome' \in Outcomes
  BY DEF Finish
<1>2. strayItem' \in BOOLEAN /\ queued' \in BOOLEAN
  <2>1. strayItem \in BOOLEAN
    BY DEF TypeOK
  <2>2. QED
    BY <2>1, Zenon DEF Finish
<1>3. requeues' \in 0..MaxRetries
  <2>1. requeues \in 0..MaxRetries
    BY DEF TypeOK
  <2>2. CASE res = "ok" \/ requeues >= MaxRetries
    <3>1. requeues' = 0
      BY <2>2 DEF Finish
    <3>2. QED
      BY <3>1 DEF MaxRetries
  <2>3. CASE ~(res = "ok" \/ requeues >= MaxRetries)
    <3>1. requeues' = requeues + 1
      BY <2>3 DEF Finish
    <3>2. QED
      BY <2>1, <2>3, <3>1 DEF MaxRetries
  <2>4. QED
    BY <2>2, <2>3
<1>4. QED
  BY <1>1, <1>2, <1>3

\* setStatus yields a Route.
LEMMA AnnotatedType ==
    ASSUME TypeOK, NEW ps \in ProvStatus
    PROVE  Annotated(ps) \in RouteObj
BY DEF Annotated, RouteObj, TypeOK

\* updateStatus keeps the store, the queue and the outcome typed.
LEMMA PersistType ==
    ASSUME TypeOK, NEW ps \in ProvStatus, NEW again \in BOOLEAN, Persist(ps, again)
    PROVE  /\ route' \in RouteObj
           /\ synced' \in BOOLEAN
           /\ queued' \in BOOLEAN
           /\ requeues' \in 0..MaxRetries /\ strayItem' \in BOOLEAN
           /\ outcome' \in Outcomes
<1>1. Annotated(ps) \in RouteObj
  BY AnnotatedType
<1>2. /\ queued' \in BOOLEAN
      /\ requeues' \in 0..MaxRetries /\ strayItem' \in BOOLEAN
      /\ outcome' \in Outcomes
  BY FinishType DEF Persist, Outcomes
<1>3. route' \in RouteObj /\ synced' \in BOOLEAN
  BY <1>1 DEF Persist, TypeOK, storeVars
<1>4. QED
  BY <1>2, <1>3

\* The statuses the handler hands to updateStatus are provisioning statuses.
LEMMA RecordedType ==
    ASSUME TypeOK, NEW o \in Orders, ca[o].status \in OrderStatus
    PROVE  Recorded(o) \in ProvStatus
BY DEF Recorded, TypeOK, RouteObj, ProvStatus

\* A new order takes the next free slot of the CA and keeps it typed.
LEMMA NewCAOrderType ==
    ASSUME TypeOK, NEW h \in Hosts, NewCAOrder(h)
    PROVE  /\ nextOrder \in Orders
           /\ ca' \in [Orders -> [status: CAStatus, domain: Hosts, chal: ChalStatus]]
           /\ nextOrder' \in 1..(MaxOrders + 1)
BY DEF NewCAOrder, TypeOK, Orders, CAStatus, OrderStatus, ChalStatus

\* A restart re-reads the store and empties the retry history.
LEMMA RestartedType ==
    ASSUME TypeOK, Restarted
    PROVE  /\ cache' \in RouteObj /\ synced' \in BOOLEAN
           /\ queued' \in BOOLEAN /\ requeues' \in 0..MaxRetries /\ strayItem' \in BOOLEAN
<1>1. route \in RouteObj
  BY DEF TypeOK
<1>2. route.exists \in BOOLEAN
  BY <1>1, Zenon DEF RouteObj
<1>3. cache' \in RouteObj /\ synced' \in BOOLEAN /\ queued' \in BOOLEAN /\ strayItem' \in BOOLEAN
  BY <1>1, <1>2, Zenon DEF Restarted
<1>4. requeues' \in 0..MaxRetries
  BY DEF Restarted, MaxRetries
<1>5. QED
  BY <1>3, <1>4

\* The responder calls create objects for order o only.
LEMMA ExposerEffectsType ==
    ASSUME TypeOK, NEW o \in Orders, NEW stop \in 2..AllCalls, ExposerEffects(o, stop)
    PROVE  /\ expRoute' \in [Orders -> Hosts \cup {NoHost}]
           /\ expRS' \subseteq Orders /\ expSvc' \subseteq Orders
           /\ ca' \in [Orders -> [status: CAStatus, domain: Hosts, chal: ChalStatus]]
BY DEF ExposerEffects, TypeOK, RouteObj, ChalStatus

-----------------------------------------------------------------------------
(* Type correctness of each handler branch                                 *)

\* The early returns of handle(), and a transient fault before any change, touch only the queue.
LEMMA SkipType ==
    ASSUME TypeOK, HandleSkip \/ HandleStatusUnreadable \/ HandleFault
    PROVE  TypeOK'
<1>1. /\ queued' \in BOOLEAN /\ requeues' \in 0..MaxRetries /\ strayItem' \in BOOLEAN /\ outcome' \in Outcomes
  BY FinishType DEF HandleSkip, HandleStatusUnreadable, HandleFault, Outcomes
<1>2. QED
  BY <1>1 DEF HandleSkip, HandleStatusUnreadable, HandleFault, TypeOK,
              caVars, timeVars, expVars

\* The idle branch: its error return, its no-op status write, and the panic after AuthorizeOrder.
LEMMA IdleType ==
    ASSUME TypeOK, HandleIdle
    PROVE  TypeOK'
<1>1. \/ Finish("error", FALSE) /\ UNCHANGED <<route, cache, synced, caVars>>
      \/ Persist(cache.status, FALSE) /\ UNCHANGED <<cache, caVars>>
      \/ NewCAOrder(cache.host) /\ Restarted /\ outcome' = "crash" /\ UNCHANGED route
  BY Zenon DEF HandleIdle
<1>2. UNCHANGED <<timeVars, expVars, edits>>
  BY DEF HandleIdle
<1>3. cache.status \in ProvStatus /\ cache.host \in Hosts
  BY DEF TypeOK, RouteObj
<1>4. CASE Finish("error", FALSE) /\ UNCHANGED <<route, cache, synced, caVars>>
  <2>1. /\ queued' \in BOOLEAN /\ requeues' \in 0..MaxRetries /\ strayItem' \in BOOLEAN /\ outcome' \in Outcomes
    BY <1>4, FinishType DEF Outcomes
  <2>2. QED
    BY <1>2, <1>4, <2>1 DEF TypeOK, caVars, timeVars, expVars
<1>5. CASE Persist(cache.status, FALSE) /\ UNCHANGED <<cache, caVars>>
  <2>1. /\ route' \in RouteObj /\ synced' \in BOOLEAN
        /\ queued' \in BOOLEAN /\ requeues' \in 0..MaxRetries /\ strayItem' \in BOOLEAN /\ outcome' \in Outcomes
    BY <1>3, <1>5, PersistType
  <2>2. QED
    BY <1>2, <1>5, <2>1 DEF TypeOK, caVars, timeVars, expVars
<1>6. CASE NewCAOrder(cache.host) /\ Restarted /\ outcome' = "crash" /\ UNCHANGED route
  <2>1. /\ ca' \in [Orders -> [status: CAStatus, domain: Hosts, chal: ChalStatus]]
        /\ nextOrder' \in 1..(MaxOrders + 1)
    BY <1>3, <1>6, NewCAOrderType
  <2>2. /\ cache' \in RouteObj /\ synced' \in BOOLEAN
        /\ queued' \in BOOLEAN /\ requeues' \in 0..MaxRetries /\ strayItem' \in BOOLEAN
    BY <1>6, RestartedType
  <2>3. QED
    BY <1>2, <1>6, <2>1, <2>2 DEF TypeOK, timeVars, expVars, Outcomes
<1>7. QED
  BY <1>1, <1>4, <1>5, <1>6

\* A branch that only persists a status keeps every variable typed.
LEMMA PersistStepType ==
    ASSUME TypeOK, NEW ps \in ProvStatus, NEW again \in BOOLEAN, Persist(ps, again),
           UNCHANGED <<cache, caVars, timeVars, expVars, edits>>
    PROVE  TypeOK'
<1>1. /\ route' \in RouteObj /\ synced' \in BOOLEAN
      /\ queued' \in BOOLEAN /\ requeues' \in 0..MaxRetries /\ strayItem' \in BOOLEAN /\ outcome' \in Outcomes
  BY PersistType
<1>2. QED
  BY <1>1 DEF TypeOK, caVars, timeVars, expVars

\* Clearing a stuck order writes the nil provisioning status.
LEMMA StuckType ==
    ASSUME TypeOK, HandleStuck
    PROVE  TypeOK'
<1>1. Idle \in ProvStatus
  BY DEF Idle, ProvStatus, OrderStatus
<1>2. QED
  BY <1>1, PersistStepType DEF HandleStuck

\* The branches that record the polled order status, or forget a 404 order, only persist it.
LEMMA PollingType ==
    ASSUME TypeOK, NEW o \in Orders,
           HandleOrderGone(o) \/ HandlePendingBusy(o) \/ HandleProcessing(o) \/ HandleInvalid(o)
    PROVE  TypeOK'
<1>1. [cache.status EXCEPT !.uri = NoOrder] \in ProvStatus
  BY DEF TypeOK, RouteObj, ProvStatus
<1>2. CASE HandleOrderGone(o)
  BY <1>1, <1>2, PersistStepType DEF HandleOrderGone
<1>3. CASE HandlePendingBusy(o)
  <2>1. Recorded(o) \in ProvStatus
    BY <1>3, RecordedType DEF HandlePendingBusy, OrderStatus
  <2>2. QED
    BY <1>3, <2>1, PersistStepType DEF HandlePendingBusy
<1>4. CASE HandleProcessing(o)
  <2>1. Recorded(o) \in ProvStatus
    BY <1>4, RecordedType DEF HandleProcessing, OrderStatus
  <2>2. QED
    BY <1>4, <2>1, PersistStepType DEF HandleProcessing
<1>5. CASE HandleInvalid(o)
  <2>1. Recorded(o) \in ProvStatus
    BY <1>5, RecordedType DEF HandleInvalid, OrderStatus
  <2>2. QED
    BY <1>5, <2>1, PersistStepType DEF HandleInvalid
<1>6. QED
  BY <1>2, <1>3, <1>4, <1>5

\* NEW_ORDER takes a CA order within the rate limit and records its URI.
LEMMA NewOrderType ==
    ASSUME TypeOK, HandleNewOrder
    PROVE  TypeOK'
<1>1. UNCHANGED <<cache, timeVars, expVars, edits>>
  BY DEF HandleNewOrder
<1>2. CASE NewCAOrder(cache.host) /\ Persist([cache.status EXCEPT !.uri = nextOrder], FALSE)
  <2>1. nextOrder \in Orders /\ cache.host \in Hosts
    BY <1>2 DEF NewCAOrder, TypeOK, RouteObj, Orders
  <2>2. [cache.status EXCEPT !.uri = nextOrder] \in ProvStatus
    BY <2>1 DEF TypeOK, RouteObj, ProvStatus
  <2>3. /\ ca' \in [Orders -> [status: CAStatus, domain: Hosts, chal: ChalStatus]]
        /\ nextOrder' \in 1..(MaxOrders + 1)
    BY <1>2, <2>1, NewCAOrderType
  <2>4. /\ route' \in RouteObj /\ synced' \in BOOLEAN
        /\ queued' \in BOOLEAN /\ requeues' \in 0..MaxRetries /\ strayItem' \in BOOLEAN /\ outcome' \in Outcomes
    BY <1>2, <2>2, PersistType
  <2>5. QED
    BY <1>1, <2>3, <2>4 DEF TypeOK, timeVars, expVars
<1>3. CASE Finish("error", FALSE) /\ UNCHANGED <<route, synced, caVars>>
  <2>1. /\ queued' \in BOOLEAN /\ requeues' \in 0..MaxRetries /\ strayItem' \in BOOLEAN /\ outcome' \in Outcomes
    BY <1>3, FinishType DEF Outcomes
  <2>2. QED
    BY <1>1, <1>3, <2>1 DEF TypeOK, caVars, timeVars, expVars
<1>4. QED
  BY <1>2, <1>3 DEF HandleNewOrder

\* The exposer calls and Accept, complete or cut short by a collision or a fault.
LEMMA PendingChallengeType ==
    ASSUME TypeOK, NEW o \in Orders, HandlePendingChallenge(o) \/ HandleExposeFault(o)
    PROVE  TypeOK'
<1>1. Recorded(o) \in ProvStatus
  BY RecordedType DEF HandlePendingChallenge, HandleExposeFault, OrderStatus
<1>2. CASE HandlePendingChallenge(o)
  <2>1. UNCHANGED <<cache, nextOrder, timeVars, edits>>
    BY <1>2 DEF HandlePendingChallenge
  <2>2. CASE ExposerEffects(o, AllCalls) /\ Persist(Recorded(o), FALSE)
    <3>1. /\ expRoute' \in [Orders -> Hosts \cup {NoHost}]
          /\ expRS' \subseteq Orders /\ expSvc' \subseteq Orders
          /\ ca' \in [Orders -> [status: CAStatus, domain: Hosts, chal: ChalStatus]]
      BY <2>2, ExposerEffectsType DEF AllCalls
    <3>2. /\ route' \in RouteObj /\ synced' \in BOOLEAN
          /\ queued' \in BOOLEAN /\ requeues' \in 0..MaxRetries /\ strayItem' \in BOOLEAN /\ outcome' \in Outcomes
      BY <1>1, <2>2, PersistType
    <3>3. QED
      BY <2>1, <3>1, <3>2 DEF TypeOK, timeVars
  <2>3. CASE \E stop \in 2..4 : ExposerEffects(o, stop) /\ Finish("collision", FALSE)
                                /\ UNCHANGED storeVars
    <3>1. PICK stop \in 2..4 : ExposerEffects(o, stop) /\ Finish("collision", FALSE)
                               /\ UNCHANGED storeVars
      BY <2>3
    <3>2. /\ expRoute' \in [Orders -> Hosts \cup {NoHost}]
          /\ expRS' \subseteq Orders /\ expSvc' \subseteq Orders
          /\ ca' \in [Orders -> [status: CAStatus, domain: Hosts, chal: ChalStatus]]
      BY <3>1, ExposerEffectsType DEF AllCalls
    <3>3. /\ queued' \in BOOLEAN /\ requeues' \in 0..MaxRetries /\ strayItem' \in BOOLEAN /\ outcome' \in Outcomes
      BY <3>1, FinishType DEF Outcomes
    <3>4. QED
      BY <2>1, <3>1, <3>2, <3>3 DEF TypeOK, timeVars, storeVars
  <2>4. QED
    BY <1>2, <2>2, <2>3 DEF HandlePendingChallenge
<1>3. CASE HandleExposeFault(o)
  <2>1. PICK stop \in 2..4 : ExposerEffects(o, stop)
    BY <1>3 DEF HandleExposeFault
  <2>2. /\ expRoute' \in [Orders -> Hosts \cup {NoHost}]
        /\ expRS' \subseteq Orders /\ expSvc' \subseteq Orders
        /\ ca' \in [Orders -> [status: CAStatus, domain: Hosts, chal: ChalStatus]]
    BY <2>1, ExposerEffectsType DEF AllCalls
  <2>3. /\ queued' \in BOOLEAN /\ requeues' \in 0..MaxRetries /\ strayItem' \in BOOLEAN /\ outcome' \in Outcomes
    BY <1>3, FinishType DEF HandleExposeFault, Outcomes
  <2>4. QED
    BY <1>3, <2>2, <2>3 DEF HandleExposeFault, TypeOK, timeVars
<1>4. QED
  BY <1>2, <1>3

\* Finalizing installs a certificate issued for a known order; a timed-out finalize leaves it processing.
LEMMA FinalizeType ==
    ASSUME TypeOK, NEW o \in Orders, HandleFinalize(o) \/ HandleFinalizeTimeout(o)
    PROVE  TypeOK'
<1>1. InstallCert(o) \in RouteObj
  <2>1. o \in CertIds
    BY DEF CertIds, Orders
  <2>2. QED
    BY <2>1 DEF InstallCert, TypeOK, RouteObj
<1>2. /\ [ca EXCEPT ![o].status = "valid"] \in [Orders -> [status: CAStatus, domain: Hosts, chal: ChalStatus]]
      /\ [ca EXCEPT ![o].status = "processing"] \in [Orders -> [status: CAStatus, domain: Hosts, chal: ChalStatus]]
      /\ [certPhase EXCEPT ![o] = "fresh"] \in [CertIds -> Phases]
  BY DEF TypeOK, CAStatus, OrderStatus, Phases
<1>3. /\ queued' \in BOOLEAN /\ requeues' \in 0..MaxRetries /\ strayItem' \in BOOLEAN /\ outcome' \in Outcomes
  BY FinishType DEF HandleFinalize, HandleFinalizeTimeout, Outcomes
<1>4. CASE HandleFinalize(o)
  <2>1. route' \in RouteObj /\ synced' \in BOOLEAN
    BY <1>1, <1>4 DEF HandleFinalize, InstallWrite, TypeOK, storeVars
  <2>2. QED
    BY <1>2, <1>3, <1>4, <2>1 DEF HandleFinalize, TypeOK, expVars
<1>5. CASE HandleFinalizeTimeout(o)
  BY <1>2, <1>3, <1>5 DEF HandleFinalizeTimeout, TypeOK, timeVars, expVars
<1>6. QED
  BY <1>4, <1>5

-----------------------------------------------------------------------------
(* Type correctness of the environment and of the whole specification      *)

\* The informer, the delayed queue item and a restart re-read the store.
LEMMA InformerType ==
    ASSUME TypeOK, CacheSync \/ Resync \/ ProcessStrayItem \/ Restart
    PROVE  TypeOK'
<1>1. CASE ProcessStrayItem \/ Restart
  <2>1. /\ cache' \in RouteObj /\ synced' \in BOOLEAN
        /\ queued' \in BOOLEAN /\ requeues' \in 0..MaxRetries /\ strayItem' \in BOOLEAN
    BY <1>1, RestartedType DEF ProcessStrayItem, Restart
  <2>2. QED
    BY <1>1, <2>1 DEF ProcessStrayItem, Restart, TypeOK, caVars, timeVars, expVars, Outcomes
<1>2. QED
  BY <1>1 DEF CacheSync, Resync, TypeOK, caVars, timeVars, expVars

\* A host edit moves to another host within the edit budget.
LEMMA EditHostType ==
    ASSUME TypeOK, NEW h \in Hosts, EditHost(h)
    PROVE  TypeOK'
<1>1. route' \in RouteObj
  BY DEF EditHost, TypeOK, RouteObj
<1>2. edits' \in 0..MaxEdits
  BY DEF EditHost, TypeOK
<1>3. QED
  BY <1>1, <1>2 DEF EditHost, TypeOK, queueVars, caVars, timeVars, expVars

\* User edits, admission, deletion and garbage collection.
LEMMA UserType ==
    ASSUME TypeOK, (\E h \in Hosts : EditHost(h)) \/ Admit \/ Delete \/ GC
    PROVE  TypeOK'
<1>1. CASE \E h \in Hosts : EditHost(h)
  BY <1>1, EditHostType
<1>2. CASE Admit \/ Delete
  BY <1>2 DEF Admit, Delete, TypeOK, RouteObj, queueVars, caVars, timeVars, expVars
<1>3. CASE GC
  BY <1>3 DEF GC, TypeOK, queueVars, caVars, timeVars
<1>4. QED
  BY <1>1, <1>2, <1>3

\* The CA moves orders and challenges between their states; time marks orders overdue.
LEMMA CAType ==
    ASSUME TypeOK, NEW o \in Orders,
           \/ CAValidate(o) \/ CAReject(o) \/ CAIssue(o) \/ CAExpire(o) \/ CAForget(o)
           \/ OrderTimesOut(o)
    PROVE  TypeOK'
<1>1. CASE CAValidate(o) \/ CAReject(o)
  BY <1>1 DEF CAValidate, CAReject, TypeOK, CAStatus, OrderStatus, ChalStatus,
              storeVars, queueVars, timeVars, expVars
<1>2. CASE CAIssue(o)
  <2>1. o \in CertIds
    BY DEF CertIds, Orders
  <2>2. QED
    BY <1>2, <2>1 DEF CAIssue, TypeOK, CAStatus, OrderStatus, Phases,
                     storeVars, queueVars, expVars
<1>3. CASE CAExpire(o) \/ CAForget(o)
  BY <1>3 DEF CAExpire, CAForget, TypeOK, CAStatus, OrderStatus,
              storeVars, queueVars, timeVars, expVars
<1>4. CASE OrderTimesOut(o)
  BY <1>4 DEF OrderTimesOut, TypeOK, storeVars, queueVars, caVars, expVars
<1>5. QED
  BY <1>1, <1>2, <1>3, <1>4

\* A certificate ages through its renewal bands and stops at expired.
LEMMA CertAgesType ==
    ASSUME TypeOK, CertAges
    PROVE  TypeOK'
<1>1. route.cert \in CertIds
  BY DEF CertAges, TypeOK, RouteObj
<1>2. certPhase[route.cert] \in DOMAIN NextPhase
  BY <1>1 DEF CertAges, TypeOK, Phases, NextPhase
<1>3. NextPhase[certPhase[route.cert]] \in Phases
  BY <1>2 DEF NextPhase, Phases
<1>4. QED
  BY <1>1, <1>3 DEF CertAges, TypeOK, storeVars, queueVars, caVars, expVars

\* The states a user creates are typed.
LEMMA InitType ==
    ASSUME Init
    PROVE  TypeOK
<1>1. route \in RouteObj /\ cache \in RouteObj
  BY Zenon DEF Init
<1>2. ca \in [Orders -> [status: CAStatus, domain: Hosts, chal: ChalStatus]]
  <2>1. ca = [o \in Orders |-> [status |-> "none", domain |-> InitHost, chal |-> "pending"]]
    BY DEF Init
  <2>2. QED
    BY <2>1 DEF CAStatus, ChalStatus
<1>3. /\ nextOrder \in 1..(MaxOrders + 1) /\ requeues \in 0..MaxRetries
      /\ edits \in 0..MaxEdits /\ outcome \in Outcomes
  BY DEF Init, MaxRetries, Outcomes
<1>4. /\ certPhase \in [CertIds -> Phases]
      /\ expRoute \in [Orders -> Hosts \cup {NoHost}]
  BY Zenon DEF Init
<1>5. QED
  BY <1>1, <1>2, <1>3, <1>4 DEF Init, TypeOK

\* Every step keeps the state typed.
LEMMA TypeStep ==
    ASSUME TypeOK, [Next]_vars
    PROVE  TypeOK'
<1>1. CASE HandleSkip \/ HandleStatusUnreadable \/ HandleFault
  BY <1>1, SkipType
<1>2. CASE HandleIdle
  BY <1>2, IdleType
<1>3. CASE HandleNewOrder
  BY <1>3, NewOrderType
<1>4. CASE HandleStuck
  BY <1>4, StuckType
<1>5. CASE \E o \in Orders :
             \/ HandleOrderGone(o) \/ HandlePendingChallenge(o) \/ HandlePendingBusy(o)
             \/ HandleFinalize(o) \/ HandleProcessing(o) \/ HandleInvalid(o)
             \/ HandleExposeFault(o) \/ HandleFinalizeTimeout(o)
  BY <1>5, PollingType, PendingChallengeType, FinalizeType
<1>6. CASE CacheSync \/ Resync \/ ProcessStrayItem \/ Restart
  BY <1>6, InformerType
<1>7. CASE (\E h \in Hosts : EditHost(h)) \/ Admit \/ Delete \/ GC
  BY <1>7, UserType
<1>8. CASE \E o \in Orders :
             \/ CAValidate(o) \/ CAReject(o) \/ CAIssue(o) \/ CAExpire(o) \/ CAForget(o)
             \/ OrderTimesOut(o)
  BY <1>8, CAType
<1>9. CASE CertAges
  BY <1>9, CertAgesType
<1>10. CASE UNCHANGED vars
  BY <1>10 DEF vars, TypeOK
<1>11. QED
  BY <1>1, <1>2, <1>3, <1>4, <1>5, <1>6, <1>7, <1>8, <1>9, <1>10
     DEF Next, Handle, Reconcile, Environment

\* The Route controller's state stays within its declared types in every
\* behaviour: handleErr keeps NumRequeues within MaxRetries, the CA hands out
\* no order past its rate limit, and every status handed to updateStatus is a
\* provisioning status (route.go:369-901).
THEOREM TypeCorrect == Spec => []TypeOK
<1>1. Init => TypeOK
  BY InitType
<1>2. TypeOK /\ [Next]_vars => TypeOK'
  BY TypeStep
<1>3. QED
  BY <1>1, <1>2, PTL DEF Spec

-----------------------------------------------------------------------------
(* Every accepted challenge is served                                      *)

\* The responder objects of order o exist.
Exposed(o) == expRoute[o] # NoHost /\ o \in expRS /\ o \in expSvc

\* What a step must do for ExposedBeforeAccept to survive it: it brings no
\* deleted Route back, accepts a challenge only once its responder exists, and
\* removes responder objects only from a deleted Route.
ExposureStep ==
    /\ route'.exists => route.exists
    /\ \A o \in Orders : ca[o].chal = "pending" /\ ca'[o].chal # "pending" => Exposed(o)'
    /\ route'.exists => \A o \in Orders : Exposed(o) => Exposed(o)'

\* ExposureStep is enough for ExposedBeforeAccept to survive a step.
LEMMA ExposureStepSuffices ==
    ASSUME TypeOK, TypeOK', ExposedBeforeAccept, ExposureStep
    PROVE  ExposedBeforeAccept'
<1>1. SUFFICES ASSUME NEW o \in Orders, ca'[o].chal # "pending", route'.exists
               PROVE  Exposed(o)'
  BY DEF ExposedBeforeAccept, Exposed
<1>2. route.exists
  BY <1>1 DEF ExposureStep
<1>3. CASE ca[o].chal = "pending"
  BY <1>1, <1>3 DEF ExposureStep
<1>4. CASE ca[o].chal # "pending"
  <2>1. Exposed(o)
    BY <1>2, <1>4 DEF ExposedBeforeAccept, Exposed
  <2>2. QED
    BY <1>1, <2>1 DEF ExposureStep
<1>5. QED
  BY <1>3, <1>4

\* A step that accepts no challenge, leaves the responders alone and brings no
\* deleted Route back keeps every challenge served.
LEMMA QuietExposureStep ==
    ASSUME \A o \in Orders : ca[o].chal = "pending" => ca'[o].chal = "pending",
           UNCHANGED expVars, route'.exists => route.exists
    PROVE  ExposureStep
BY DEF ExposureStep, Exposed, expVars

\* updateStatus writes the informer copy, which is the stored Route whenever
\* the write is not refused: it never recreates a deleted Route.
LEMMA PersistKeepsExists ==
    ASSUME TypeOK, CacheCoherent, NEW ps \in ProvStatus, NEW again \in BOOLEAN,
           Persist(ps, again), UNCHANGED cache
    PROVE  /\ route'.exists = route.exists
           /\ CacheCoherent'
<1>1. CASE Annotated(ps) # cache /\ synced
  <2>1. route' = Annotated(ps) /\ synced' = FALSE /\ cache = route
    BY <1>1 DEF Persist, CacheCoherent
  <2>2. QED
    BY <2>1 DEF Annotated, TypeOK, RouteObj, CacheCoherent
<1>2. CASE ~(Annotated(ps) # cache /\ synced)
  <2>1. UNCHANGED storeVars
    BY <1>2 DEF Persist
  <2>2. QED
    BY <2>1 DEF storeVars, CacheCoherent
<1>3. QED
  BY <1>1, <1>2

\* The responder calls only add objects, and accept a challenge only after
\* all three objects of its order exist.
LEMMA ExposerEffectsStep ==
    ASSUME TypeOK, NEW o \in Orders, NEW stop \in 2..AllCalls, ExposerEffects(o, stop),
           route'.exists => route.exists
    PROVE  ExposureStep
<1>1. cache.host \in Hosts
  BY DEF TypeOK, RouteObj
<1>2. ASSUME NEW p \in Orders, ca[p].chal = "pending", ca'[p].chal # "pending"
      PROVE  Exposed(p)'
  <2>1. p = o /\ CallPos.accept < stop
    BY <1>2 DEF ExposerEffects, TypeOK
  <2>2. CallPos.route < stop /\ CallPos.replicaset < stop /\ CallPos.service < stop
    BY <2>1 DEF CallPos
  <2>3. QED
    BY <1>1, <2>1, <2>2, HostsAssumption DEF ExposerEffects, Exposed, TypeOK
<1>3. ASSUME NEW p \in Orders, Exposed(p)
      PROVE  Exposed(p)'
  BY <1>1, <1>3, HostsAssumption DEF ExposerEffects, Exposed, TypeOK
<1>4. QED
  BY <1>2, <1>3 DEF ExposureStep

\* A new order starts with a pending challenge.
LEMMA NewCAOrderQuiet ==
    ASSUME TypeOK, NEW h \in Hosts, NewCAOrder(h)
    PROVE  \A o \in Orders : ca[o].chal = "pending" => ca'[o].chal = "pending"
BY DEF NewCAOrder, TypeOK, Orders

\* The step keeps the informer copy coherent and every challenge served.
ServedStep == ExposureStep /\ CacheCoherent'

\* A branch that persists a status and touches nothing the CA or the
\* responders hold.
LEMMA PersistServed ==
    ASSUME TypeOK, CacheCoherent, NEW ps \in ProvStatus, NEW again \in BOOLEAN,
           Persist(ps, again), UNCHANGED <<cache, ca, expVars>>
    PROVE  ServedStep
BY PersistKeepsExists, QuietExposureStep DEF ServedStep

\* The early returns change neither the Route, the CA nor the responders.
LEMMA SkipServed ==
    ASSUME TypeOK, CacheCoherent, HandleSkip \/ HandleStatusUnreadable \/ HandleFault
    PROVE  ServedStep
<1>1. UNCHANGED <<route, cache, synced, ca, expVars>>
  BY DEF HandleSkip, HandleStatusUnreadable, HandleFault, caVars
<1>2. QED
  BY <1>1, QuietExposureStep DEF ServedStep, CacheCoherent

\* The idle branch writes the store's own Route, or crashes after creating a pending order.
LEMMA IdleServed ==
    ASSUME TypeOK, CacheCoherent, HandleIdle
    PROVE  ServedStep
<1>1. \/ Finish("error", FALSE) /\ UNCHANGED <<route, cache, synced, caVars>>
      \/ Persist(cache.status, FALSE) /\ UNCHANGED <<cache, caVars>>
      \/ NewCAOrder(cache.host) /\ Restarted /\ outcome' = "crash" /\ UNCHANGED route
  BY Zenon DEF HandleIdle
<1>2. UNCHANGED expVars
  BY DEF HandleIdle
<1>3. cache.status \in ProvStatus /\ cache.host \in Hosts
  BY DEF TypeOK, RouteObj
<1>4. CASE Finish("error", FALSE) /\ UNCHANGED <<route, cache, synced, caVars>>
  BY <1>2, <1>4, QuietExposureStep DEF ServedStep, CacheCoherent, caVars
<1>5. CASE Persist(cache.status, FALSE) /\ UNCHANGED <<cache, caVars>>
  BY <1>2, <1>3, <1>5, PersistServed DEF caVars
<1>6. CASE NewCAOrder(cache.host) /\ Restarted /\ outcome' = "crash" /\ UNCHANGED route
  <2>1. \A o \in Orders : ca[o].chal = "pending" => ca'[o].chal = "pending"
    BY <1>3, <1>6, NewCAOrderQuiet
  <2>2. CacheCoherent'
    BY <1>6 DEF Restarted, CacheCoherent
  <2>3. QED
    BY <1>2, <1>6, <2>1, <2>2, QuietExposureStep DEF ServedStep
<1>7. QED
  BY <1>1, <1>4, <1>5, <1>6

\* NEW_ORDER adds an order with a pending challenge and writes the store's own Route.
LEMMA NewOrderServed ==
    ASSUME TypeOK, CacheCoherent, HandleNewOrder
    PROVE  ServedStep
<1>1. UNCHANGED <<cache, expVars>>
  BY DEF HandleNewOrder
<1>2. CASE NewCAOrder(cache.host) /\ Persist([cache.status EXCEPT !.uri = nextOrder], FALSE)
  <2>1. nextOrder \in Orders /\ cache.host \in Hosts
    BY <1>2 DEF NewCAOrder, TypeOK, RouteObj, Orders
  <2>2. [cache.status EXCEPT !.uri = nextOrder] \in ProvStatus
    BY <2>1 DEF TypeOK, RouteObj, ProvStatus
  <2>3. route'.exists = route.exists /\ CacheCoherent'
    BY <1>1, <1>2, <2>2, PersistKeepsExists
  <2>4. \A o \in Orders : ca[o].chal = "pending" => ca'[o].chal = "pending"
    BY <1>2, <2>1, NewCAOrderQuiet
  <2>5. QED
    BY <1>1, <2>3, <2>4, QuietExposureStep DEF ServedStep
<1>3. CASE Finish("error", FALSE) /\ UNCHANGED <<route, synced, caVars>>
  BY <1>1, <1>3, QuietExposureStep DEF ServedStep, CacheCoherent, caVars
<1>4. QED
  BY <1>2, <1>3 DEF HandleNewOrder

\* The status-only branches write the store's own Route and touch no challenge.
LEMMA PollingServed ==
    ASSUME TypeOK, CacheCoherent, NEW o \in Orders,
           \/ HandleStuck
           \/ HandleOrderGone(o) \/ HandlePendingBusy(o) \/ HandleProcessing(o) \/ HandleInvalid(o)
    PROVE  ServedStep
<1>1. /\ Idle \in ProvStatus
      /\ [cache.status EXCEPT !.uri = NoOrder] \in ProvStatus
  BY DEF Idle, ProvStatus, OrderStatus, TypeOK, RouteObj
<1>2. CASE HandleStuck
  BY <1>1, <1>2, PersistServed DEF HandleStuck, caVars
<1>3. CASE HandleOrderGone(o)
  BY <1>1, <1>3, PersistServed DEF HandleOrderGone, caVars
<1>4. CASE HandlePendingBusy(o) \/ HandleProcessing(o) \/ HandleInvalid(o)
  <2>1. Recorded(o) \in ProvStatus
    BY <1>4, RecordedType DEF HandlePendingBusy, HandleProcessing, HandleInvalid, OrderStatus
  <2>2. QED
    BY <1>4, <2>1, PersistServed DEF HandlePendingBusy, HandleProcessing, HandleInvalid, caVars
<1>5. QED
  BY <1>2, <1>3, <1>4

\* The pending-challenge branch accepts only after creating the three objects.
LEMMA PendingChallengeServed ==
    ASSUME TypeOK, CacheCoherent, NEW o \in Orders,
           HandlePendingChallenge(o) \/ HandleExposeFault(o)
    PROVE  ServedStep
<1>1. Recorded(o) \in ProvStatus
  BY RecordedType DEF HandlePendingChallenge, HandleExposeFault, OrderStatus
<1>2. CASE HandlePendingChallenge(o) /\ ExposerEffects(o, AllCalls)
                                     /\ Persist(Recorded(o), FALSE)
  <2>1. route'.exists = route.exists /\ CacheCoherent'
    BY <1>1, <1>2, PersistKeepsExists DEF HandlePendingChallenge
  <2>2. ExposureStep
    BY <2>1, <1>2, ExposerEffectsStep DEF AllCalls
  <2>3. QED
    BY <2>1, <2>2 DEF ServedStep
<1>3. CASE \E stop \in 2..4 : ExposerEffects(o, stop)
                              /\ UNCHANGED <<route, cache, synced>>
  <2>1. PICK stop \in 2..4 : ExposerEffects(o, stop) /\ UNCHANGED <<route, cache, synced>>
    BY <1>3
  <2>2. ExposureStep
    BY <2>1, ExposerEffectsStep DEF AllCalls
  <2>3. QED
    BY <2>1, <2>2 DEF ServedStep, CacheCoherent
<1>4. QED
  BY <1>2, <1>3 DEF HandlePendingChallenge, HandleExposeFault, storeVars

\* Finalizing changes order statuses only, and writes the certificate onto the store's own Route.
LEMMA FinalizeServed ==
    ASSUME TypeOK, CacheCoherent, NEW o \in Orders,
           HandleFinalize(o) \/ HandleFinalizeTimeout(o)
    PROVE  ServedStep
<1>1. \A p \in Orders : ca[p].chal = "pending" => ca'[p].chal = "pending"
  <2>1. \/ ca' = ca
        \/ ca' = [ca EXCEPT ![o].status = "valid"]
        \/ ca' = [ca EXCEPT ![o].status = "processing"]
    BY Zenon DEF HandleFinalize, HandleFinalizeTimeout
  <2>2. QED
    BY <2>1 DEF TypeOK
<1>2. UNCHANGED expVars
  BY DEF HandleFinalize, HandleFinalizeTimeout
<1>3. route'.exists = route.exists /\ CacheCoherent'
  <2>1. CASE InstallWrite(o)
    <3>1. cache = route /\ route' = InstallCert(o) /\ synced' = FALSE
      BY <2>1 DEF InstallWrite, CacheCoherent
    <3>2. QED
      BY <3>1 DEF InstallCert, TypeOK, RouteObj, CacheCoherent
  <2>2. CASE ~InstallWrite(o)
    <3>1. UNCHANGED <<route, cache, synced>>
      BY <2>2 DEF HandleFinalize, HandleFinalizeTimeout, storeVars
    <3>2. QED
      BY <3>1 DEF CacheCoherent
  <2>3. QED
    BY <2>1, <2>2
<1>4. QED
  BY <1>1, <1>2, <1>3, QuietExposureStep DEF ServedStep

\* No environment step accepts a challenge; only the garbage collector removes responders, and only from a deleted Route.
LEMMA EnvironmentServed ==
    ASSUME TypeOK, CacheCoherent, Environment
    PROVE  ServedStep
<1>1. CASE CacheSync \/ Resync \/ ProcessStrayItem \/ Restart
  BY <1>1, QuietExposureStep DEF CacheSync, Resync, ProcessStrayItem, Restart, Restarted, ServedStep,
                                CacheCoherent, caVars, expVars
<1>2. CASE (\E h \in Hosts : EditHost(h)) \/ Admit \/ Delete
  <2>1. route'.exists => route.exists
    BY <1>2 DEF EditHost, Admit, Delete, TypeOK, RouteObj
  <2>2. QED
    BY <1>2, <2>1, QuietExposureStep DEF EditHost, Admit, Delete, ServedStep,
                                        CacheCoherent, caVars
<1>3. CASE GC
  BY <1>3 DEF GC, ServedStep, ExposureStep, CacheCoherent, caVars
<1>4. CASE \E o \in Orders :
             \/ CAValidate(o) \/ CAReject(o) \/ CAIssue(o) \/ CAExpire(o) \/ CAForget(o)
             \/ OrderTimesOut(o)
  <2>1. PICK o \in Orders :
             \/ CAValidate(o) \/ CAReject(o) \/ CAIssue(o) \/ CAExpire(o) \/ CAForget(o)
             \/ OrderTimesOut(o)
    BY <1>4
  <2>2. \A p \in Orders : ca[p].chal = "pending" => ca'[p].chal = "pending"
    BY <2>1 DEF CAValidate, CAReject, CAIssue, CAExpire, CAForget, OrderTimesOut,
                TypeOK, caVars
  <2>3. QED
    BY <2>1, <2>2, QuietExposureStep
       DEF CAValidate, CAReject, CAIssue, CAExpire, CAForget, OrderTimesOut,
           ServedStep, CacheCoherent, storeVars
<1>5. CASE CertAges
  BY <1>5, QuietExposureStep DEF CertAges, ServedStep, CacheCoherent, storeVars, caVars
<1>6. QED
  BY <1>1, <1>2, <1>3, <1>4, <1>5 DEF Environment

\* Every step of the specification keeps the cache coherent and every
\* challenge served.
LEMMA ServedStepHolds ==
    ASSUME TypeOK, CacheCoherent, [Next]_vars
    PROVE  ServedStep
<1>1. CASE HandleSkip \/ HandleStatusUnreadable \/ HandleFault
  BY <1>1, SkipServed
<1>2. CASE HandleIdle
  BY <1>2, IdleServed
<1>3. CASE HandleNewOrder
  BY <1>3, NewOrderServed
<1>4. CASE HandleStuck
  BY <1>4, PollingServed, OrdersAssumption DEF Orders
<1>5. CASE \E o \in Orders :
             \/ HandleOrderGone(o) \/ HandlePendingChallenge(o) \/ HandlePendingBusy(o)
             \/ HandleFinalize(o) \/ HandleProcessing(o) \/ HandleInvalid(o)
             \/ HandleExposeFault(o) \/ HandleFinalizeTimeout(o)
  BY <1>5, PollingServed, PendingChallengeServed, FinalizeServed
<1>6. CASE Environment
  BY <1>6, EnvironmentServed
<1>7. CASE UNCHANGED vars
  BY <1>7, QuietExposureStep DEF vars, expVars, ServedStep, CacheCoherent
<1>8. QED
  BY <1>1, <1>2, <1>3, <1>4, <1>5, <1>6, <1>7 DEF Next, Handle, Reconcile

\* IInv holds initially: the informer starts from the stored Route and no
\* challenge has been accepted.
LEMMA IInvInit ==
    ASSUME Init
    PROVE  IInv
<1>1. TypeOK
  BY InitType
<1>2. CacheCoherent /\ ExposedBeforeAccept
  BY DEF Init, CacheCoherent, ExposedBeforeAccept
<1>3. QED
  BY <1>1, <1>2 DEF IInv

\* IInv is inductive.
LEMMA IInvStep ==
    ASSUME IInv, [Next]_vars
    PROVE  IInv'
<1>1. TypeOK'
  BY TypeStep DEF IInv
<1>2. ServedStep
  BY ServedStepHolds DEF IInv
<1>3. ExposedBeforeAccept'
  BY <1>1, <1>2, ExposureStepSuffices DEF IInv, ServedStep
<1>4. QED
  BY <1>1, <1>2, <1>3 DEF IInv, ServedStep

\* Whenever the controller has accepted the http-01 challenge of an order and
\* the parent Route still exists, the exposer Route, ReplicaSet and Service of
\* that order exist: the pending-challenge branch creates them before it calls
\* Accept (route.go:544-688), a write from the informer copy never recreates a
\* deleted Route, and the garbage collector removes them only after the Route.
THEOREM ExposedBeforeAcceptHolds == Spec => []ExposedBeforeAccept
<1>1. Init => IInv
  BY IInvInit
<1>2. IInv /\ [Next]_vars => IInv'
  BY IInvStep
<1>3. IInv => ExposedBeforeAccept
  BY DEF IInv
<1>4. QED
  BY <1>1, <1>2, <1>3, PTL DEF Spec

=============================================================================
