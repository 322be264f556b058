# Formal models of openshift-acme

TLA+ models of the ACME certificate controller in `src/`, TLC configurations
that model-check them on small instances, and TLAPS proofs of their main safety
properties for every value of the constants.

## The system

openshift-acme gets certificates for OpenShift Routes from an ACME CA
(RFC 8555). It has two controllers:

- **Route controller** (`src/pkg/controllers/route/route.go`). For every
  managed Route, `handle()` drives an ACME order.
  - The order's state lives in a JSON status annotation on the Route itself.
  - The steps are: create the order; answer the http-01 challenge; finalize
    with a CSR; write the key and certificate into `spec.tls`; clear the status.
  - To answer a challenge, it creates three temporary "exposer" objects:
    - a Route for the challenge path;
    - a ReplicaSet of responder pods;
    - a Service.

    It then calls `Accept`.
  - `handle()` reads the Route from an informer cache, which may lag behind
    the object store. Its writes carry the cached `resourceVersion`, so a
    stale write is refused with a conflict.
  - Keys come from a rate-limited work queue. `handleErr` retries a failing
    key at most `MaxRetries = 2` times.
  - `needsCertKey` decides when a certificate is missing, expired, in its
    renewal band or (randomly) in its proactive band.
- **Account controller** (`src/pkg/controller/issuer/acme/acme.go`). This
  registers the ACME account of each CertIssuer ConfigMap. It stores the
  account key in a Secret and the account URI and hash in the ConfigMap.

How they interact:

- The Route controller only reaches the account through an ACME client
  factory, and that factory is outside `src/`.
- Both controllers interact with users (who edit or delete Routes), with the
  router (which admits Routes), with the garbage collector (which deletes the
  exposer objects through owner references) and with the CA.

## Inventory

| Component | Source | State | Operations | Module |
|---|---|---|---|---|
| Route handler | route.go:369-780 | Route spec/status, the CA's orders, the exposer objects | one branch per order state | `RouteController`, refining `RouteProvisioning` |
| Status codec | route.go:313-363 | status annotation | getStatus, setStatus, updateStatus | `RouteController` |
| Renewal policy | route.go:264-311 | certificate age, host | needsCertKey | `RouteController` (abstract phases) |
| Work queue / worker | route.go:879-948 | queued key, NumRequeues, delayed items | processNextItem, handleErr, Run | `RouteController` |
| Informer handlers | route.go:132-245 | cache copy of the Route | add/update/deleteRoute, resync | `RouteController` |
| Secret mirror | route.go:782-876 | TLS Secret | syncSecret | not modelled: never called |
| Account controller | acme.go:104-413 | ConfigMap status, account Secret, caches, queue | sync, ConfigMap and Secret handlers, processNextItem, Run | `AccountController`, refining `AccountRegistry` |
| ACME CA | external | orders, challenges | validate, reject, issue, expire, 404 | environment of `RouteController` |

Behaviour a unit test hardly reaches (each is listed under `hazards` in
`PROJECT.json`, at its line):

- the stale cache racing the handler's writes;
- a crash between creating an order and recording it;
- a finalize that times out after the CA accepted it;
- a user editing the host during an order;
- retries exhausted;
- no-op writes that produce no event;
- the delayed re-add of the PROCESSING branch.

## Plan

1. **Done.** The Route controller core, with its queue, cache, CA and
   exposer environment. Safety, action and liveness properties. Violation runs
   for the bugs met while modelling. TLAPS proofs of type correctness and of
   `ExposedBeforeAccept`.
2. **Done.** The account controller, as a module of its own, with an
   abstract specification it is proved to refine. It covers registration
   followed by the Secret create, with faults and crashes between them; the
   hash/URI bookkeeping of acme.go:364-393 (which flaps); two ConfigMaps
   sharing a Secret; and lagging ConfigMap and Secret caches.
3. `needsCertKey` as a pure function over integer times, checked against a
   reference definition of the renewal bands.
4. **Done.** An abstract provisioning specification of the Route,
   `RouteProvisioning`, which `RouteController` is checked and proved to
   refine with `INSTANCE ... WITH`.
5. A getStatus liveness run (a Route with foreign annotations is never
   provisioned). A bound on orders created per Route (the leak through a
   NEW_ORDER conflict).
6. **Done.** Proofs of `CertForOwnHost`, `RecordedOrderKnown` and the
   refinement, one lemma per branch of `handle()`.

## `RouteController.tla`

### State

| Variable | Code |
|---|---|
| `route` | the Route in the object store: exists, host, admitted, the certificate in `spec.tls`, the status annotation (present, decoded `ProvisioningStatus`, observedGeneration current), other annotations |
| `cache` | `routeReadOnly`, the informer's copy |
| `synced` | the cache copy's resourceVersion equals the store's; writes made while `~synced` conflict |
| `queued`, `requeues`, `strayItem` | the key is in the work queue; `NumRequeues(key)`; a `*Route` object added by `AddAfter` is in the queue |
| `ca`, `nextOrder` | order status, identifier and http-01 challenge status of each order; the CA's next order (rate limit `MaxOrders`) |
| `overdue`, `certPhase` | time: orders older than `orderTimeout`; where now lies in each certificate's lifetime |
| `expRoute`, `expRS`, `expSvc` | the exposer Route (its host), ReplicaSet and Service of each order |
| `edits`, `outcome` | host edits made (bound `MaxEdits`); what the last handler run returned (read only by properties) |

### Actions

One handler run is one atomic step. The work queue never runs a key twice at
once (`processNextItem`), and the model has one Route. Each branch of
`handle()` is an action:

- `HandleSkip`, `HandleStatusUnreadable`
- `HandleIdle`, which includes the panic
- `HandleNewOrder`, `HandleStuck`, `HandleOrderGone`
- `HandlePendingChallenge`, `HandlePendingBusy`
- `HandleFinalize`, `HandleProcessing`, `HandleInvalid`

A run whose call fails transiently is one of:

- `HandleFault`: the failure comes before any change;
- `HandleExposeFault`: it comes after a prefix of the exposer calls;
- `HandleFinalizeTimeout`: the CA accepted the CSR but the call hit its
  deadline.

Every run ends in `Finish`, which is `handleErr`. `Persist` is `updateStatus`:

- no write when nothing changed;
- a write that bumps the resourceVersion;
- a conflict.

It is part of each action that calls it.

The environment actions are:

- `CacheSync` (the informer catches up and enqueues);
- `Resync`;
- `ProcessStrayItem` (a worker takes the `*Route` item and panics);
- `Restart`;
- `EditHost`, `Admit`, `Delete`, `GC`;
- the CA: `CAValidate`, `CAReject`, `CAIssue`, `CAExpire`, `CAForget`;
- time: `OrderTimesOut`, `CertAges`.

A crash is modelled as the run that failed at that call, followed by
`Restarted`: the cache is re-listed, the key is enqueued and the queue's
history is lost.

### Fairness

`FairSpec` assumes the following:

- **SF on `Reconcile`.** A key that stays queued, or is queued again and
  again, is eventually run without a transient fault. The queue's rate limiter
  and the retry budget re-run it, and resync re-adds it.
- **WF on:**
  - `CacheSync`: the informer keeps up;
  - `Resync`: the resync period;
  - `ProcessStrayItem`: `AddAfter` delivers after 15 s;
  - `Admit`;
  - `GC`;
  - `OrderTimesOut(o)`: time passes.

No fairness is assumed for the CA, the users or crashes. A CA may leave an
order pending for ever, and the controller must then still make progress
through `orderTimeout`.

## Runs

All runs use `MC_RouteController.tla`, which sets:

- `Hosts`: two host names, so that a host edit can make the cache, the order
  and the certificate disagree;
- `NoHost`: the empty name;
- `MC_View`: drops the history variable `outcome`, which no action reads.

| Run | Bounds | Checks | Result |
|---|---|---|---|
| `route_safety` | 2 orders, no edits | `TypeOK`, `ExposedBeforeAccept`, `RecordedOrderKnown` | pass, 663,960 distinct states, ~20 s |
| `route_hostedit` | 1 order, 1 edit | `CertForOwnHost`, `ImplementsProvisioning` | pass, 167,388 states |
| `route_liveness` | 1 order, no edits, `FairSpec` | `OrderEventuallyReleased` | pass, 26,300 states |
| `route_first_order` | 1 order, `FairSpec` | `FirstOrderRecorded` | violated: route.go:445 |
| `route_self_conflict` | 1 order | `NoSelfConflict` | violated: route.go:762 |
| `route_only_keys` | 1 order | `OnlyKeysQueued` | violated: route.go:766 |

Why the bounds are enough:

- **Two orders.** This covers an order replaced after it was cleared as stuck
  or forgotten (404), and the CA's rate limit.
- **One edit.** This is enough for the cached host, the order's domain and the
  Route's host to disagree. `ImplementsProvisioning` is checked with one
  order on this instance: two orders with an edit do not finish within five
  minutes. The proof below covers any number.
- **Initial states.** They cover a Route with or without a certificate, with
  or without other annotations, and with no status or an active status
  without an order (what a restart in the middle of NEW_ORDER leaves).

Each property of a passing run has a mutant in `PROJECT.json`, and TLC finds
each mutant violating its property:

| Mutant | Property it violates |
|---|---|
| the retry budget off by one | `TypeOK` |
| Accept called before the ReplicaSet | `ExposedBeforeAccept` |
| the certificate write refetching the Route | `CertForOwnHost` |
| the STUCK branch dropped | `OrderEventuallyReleased` |
| NEW_ORDER persisting the URI of the order after the one created | `RecordedOrderKnown` |
| the CA's order counter not advanced (an order number reused) | `ImplementsProvisioning` |

### Findings

Each violation run reproduces a disagreement between the code and the spec:

1. **route.go:445.** A Route without a provisioning status that needs a
   certificate reaches `status.ProvisioningStatus.StartedAt = ...` with
   `ProvisioningStatus == nil`. The order has already been created at the CA.
   The worker panics and the process restarts. The next run does the same,
   until the CA's rate limit is hit.
2. **route.go:762.** The status is cleared with
   `updateStatus(routeReadOnly.DeepCopy())` after the certificate `Update` at
   755. That write carries the old resourceVersion and always conflicts. The
   next run finds the order still recorded and finalizes it again.
3. **route.go:766.** `queue.AddAfter(routeReadOnly, 15s)` enqueues the
   `*Route` object. Fifteen seconds later, `processNextItem`'s `key.(string)`
   panics and the process restarts.

Also seen in the source but not run:

- `getTemporaryName` (route.go:950-952) formats the raw `[64]byte` of a
  SHA-512 sum with `%s`. The exposer objects' name, and the `app` label
  value, are 77 bytes of binary that the API server's validation refuses, so
  the ReplicaSet `Create` at 609 always fails. The model lets these Creates
  succeed. This superset of the code's behaviour is sound for the invariants
  that pass. It is also why no run claims a collision finding: the
  `IsControlledBy` test at 618/663 would reject the controller's own
  ReplicaSet and Service on a retry, but only once the name is fixed. The
  traces of `route_self_conflict` and `route_only_keys` pass through the
  exposer on their way to READY. Any other way to READY, such as an
  authorization the CA reuses, reaches 755/762 and 766 the same way.

- `StatusReadable`: `getStatus` fails on Routes with foreign annotations and
  no status annotation.
- `syncSecret` is never called.
- The account controller's findings are listed in its own section below.

### The abstract provisioning specification and the refinement

`RouteProvisioning` states what the controller promises for one Route, with
no cache, queue, challenge or responder. Its state:

- `domain[o]`: the identifier of order `o`, or `NoHost` while it is not
  created;
- `valid`: the orders whose certificate the CA holds;
- `recorded`: the order the provisioning status records;
- `cert` and `host`: the Route's certificate and host.

Its actions:

- `CreateOrder(o, h)` takes an uncreated order, and may record it at once;
- `Record(u)` records a created order or none;
- `Issue(o)` issues a created order, and may put its certificate on the Route
  if `o`'s identifier is the Route's host;
- `Forget(o)` is the CA forgetting an order;
- `EditHost(h)` is a user changing the host.

`RouteController` defines `Provisioning == INSTANCE RouteProvisioning WITH`
this mapping:

- `domain[o]` is `ca[o].domain` once `ca[o].status # "none"`;
- `valid` is the orders the CA has in state `valid`;
- `recorded` is the stored status's URI when the status is active;
- `cert` and `host` are those of the stored Route.

`ImplementsProvisioning == Provisioning!Spec` is checked by `route_hostedit`
and proved (`RefinementHolds`). How each action maps:

- NEW_ORDER, and the crash after `AuthorizeOrder` at route.go:445, map to
  `CreateOrder`;
- every status write maps to `Record`, or to a stutter when it is skipped or
  conflicts;
- an accepted finalize and `CAIssue` map to `Issue`;
- `CAForget` maps to `Forget`;
- a host edit maps to `EditHost`;
- everything else (the informer, the queue, restarts, the router, the garbage
  collector, the exposer calls, validation, rejection, expiry, timeouts,
  certificate ageing) maps to a stutter.

## Proofs (`RouteControllerProofs.tla`, `RouteRefinementProofs.tla`, `RouteProvisioning.tla`)

Checked by `tlapm` with no omitted steps, for all `Hosts`, `InitHost`,
`NoHost`, `MaxOrders` and `MaxEdits`. They assume only the named
assumptions of `RouteController`: `HostsAssumption`, `OrdersAssumption` and
`EditsAssumption`.

- **`TypeCorrect: Spec => []TypeOK`.**
  - `InitType` proves the initial case.
  - `TypeStep` has one case per group of actions. It rests on lemmas about the
    helpers:
    - `FinishType`: `handleErr` keeps `NumRequeues` in `0..MaxRetries`;
    - `PersistType` and `AnnotatedType`;
    - `RecordedType`: the order status recorded by a branch is one of the
      order statuses;
    - `NewCAOrderType`: the CA's next order is within the rate limit;
    - `RestartedType`;
    - `ExposerEffectsType`.
- **`ExposedBeforeAcceptHolds: Spec => []ExposedBeforeAccept`.**
  `ExposedBeforeAccept` is not inductive. A write from a stale cache copy
  could recreate a deleted Route whose exposer objects have been collected.
  The inductive invariant is `IInv == TypeOK /\ CacheCoherent /\
  ExposedBeforeAccept`, where `CacheCoherent == synced => cache = route`
  (TLC checked it on the safety instance first). The argument:
  - **No resurrection.** Every write needs `synced`, hence writes the store's
    own Route (`PersistKeepsExists`). So no step recreates a deleted Route.
  - **Accept comes last.** The exposer calls accept a challenge only when all
    three objects have been created (`ExposerEffectsStep`).
  - **Objects only grow.** No other step turns a pending challenge into an
    accepted one, or removes an object from an existing Route
    (`QuietExposureStep`).

  `ExposureStepSuffices` combines these into the invariant.

- **`SpecConsistent`** (in `RouteProvisioning`): in the abstract
  specification, the recorded order, the issued orders and the certificate
  are created orders. It assumes `Sentinels`, a hypothesis of the theorem:
  `NoHost` is not a host, and neither `NoCert` nor `InitCert` is an order.
- **`RefinementHolds: Spec => ImplementsProvisioning`** (in
  `RouteRefinementProofs`). The inductive invariant is `RInv`, which TLC
  checked on the safety and host-edit instances first. It is `TypeOK`,
  `CacheCoherent` and three more facts:
  - `OrdersFresh`: an order is uncreated exactly when it is at or above
    `nextOrder`. Without it, `NewCAOrder` could overwrite a created order, and
    `CreateOrder`'s guard would fail.
  - `StatusKnown(route.status)`: the stored status records only a created
    order.
  - `StatusKnown(cache.status)`: so does the informer copy's status. Every
    branch persists a status built from the copy's (`Recorded(o)`, or the
    copy's own status with a new URI), so the first fact is only preserved
    with the second.

  The step lemma `RefStepHolds` has one case per group of branches, each a
  lemma (`SkipRefines`, `IdleRefines`, `NewOrderRefines`, `PollingRefines`,
  `PendingChallengeRefines`, `FinalizeRefines`, `EnvironmentRefines`). They
  reduce to six generic steps:
  - `QuietStep`: a stutter;
  - `PersistStep`: `Record`, using `CacheCoherent`, since a write succeeds
    only from a synced copy;
  - `CreateStep`: `CreateOrder`;
  - `IssueStep`: `Issue`;
  - `ForgetStep` and `EditHostStep`.
- **`RecordedOrderKnownHolds: Spec => []RecordedOrderKnown`.** It is a
  conjunct of `RInv`.
- **`CertForOwnHostHolds: Spec => CertForOwnHost`.** This action property
  comes from the refinement step (`CertStep`). A step that changes the
  Route's certificate can only be `Issue(o)`, whose guard says `o`'s
  identifier is the Route's host. `o` is an order, not the initial
  certificate 0, so `CertHost` reads that identifier.
- **`ProvisioningConsistent`.** `SpecConsistent`, carried to the controller
  through the refinement.

What is only model-checked, and why:

- The liveness properties `OrderEventuallyReleased` and
  `UriEventuallyRecorded` are model-checked only. TLAPS does not handle
  fairness and ENABLED here.
- The violation runs are model-checked only.

## The account controller (`AccountController.tla`, `AccountRegistry.tla`)

### State

| Variable | Code |
|---|---|
| `cm[c]` | the CertIssuer ConfigMap in the store: `exists`, its issuer `kind` (`acme`, another type, or data that does not parse), `secretName` (`NoName` when empty), `contacts`, `status.uri` (a key, or `NoKey` for ""), `status.hash` (the contacts it was computed from) |
| `cmCache[c]`, `cmSynced[c]` | the ConfigMap informer's copy; `cmSynced` says whether it has the store's `resourceVersion`, so an `Update` from it succeeds |
| `secret[n]`, `secretCache[n]` | the account key in Secret `n`, in the store and in the lister |
| `accounts[k]` | the CA: the contacts of the account registered with key `k`, or `NoAccount` |
| `nextKey` | the next key `rsa.GenerateKey` produces; keys above `MaxKeys` are refused (the CA's registration rate limit) |
| `queued[c]` | key `c` is in the work queue |
| `faults`, `edits`, `dropped` | bounds on CA/store failures and user actions; the keys of Secrets users deleted |

An account is named by its key, so a URI is a key.

### Actions

`Sync(c)` is one run of `sync` (acme.go:258-413) for a queued key, split by
the way the run ends. Each one includes the write-back and `processNextItem`'s
`Forget` or `AddRateLimited`.

- `SyncSkip`, `SyncInvalid`: the early returns.
- `SyncRegister`: the lister has no Secret. The run registers the next key
  with the cached contacts, `Create`s the Secret and writes the status. If the
  Secret is in the store but not yet in the lister, `Create` fails with
  AlreadyExists after `Register` succeeded.
- `SyncRegisterFault`: `Register` fails, possibly after the CA registered (a
  15 s deadline), or `Create` fails.
- `SyncRegisterRefused`: the CA refuses a registration beyond `MaxKeys`.
- `SyncExisting`: the lister has the Secret. With `status.uri` empty, `GetReg`
  returns the CA's account and its URI and contacts are merged. Otherwise no
  call is made, and the account merged is the local one, which has no URI.
  The `UpdateReg` branch is never taken (`HashMatches == FALSE`, see below).
- `SyncGetRegFault`: `GetReg` fails.
- `WriteBack`: skip the `Update` when nothing changed; otherwise it succeeds
  only from a synced cache, and then clears `cmSynced` (the update event is
  pending).

The environment:

- `CMCacheSync(c)`: the informer catches up and an add, update or delete
  event enqueues `c`.
- `SecretCacheSync(n)`: the Secret lister catches up. Only a deletion has a
  handler (`deleteSecret`), which enqueues the ConfigMaps whose written
  secret name is `n` (`Matches`).
- `Resync(c)`: the periodic resync.
- `Restart`: the process dies and re-lists; the queue is rebuilt.
- `EditContacts`, `DeleteSecret`, `DeleteConfigMap`: users.

`FairSpec` adds weak fairness of every `Sync(c)`, `CMCacheSync(c)` and
`SecretCacheSync(n)`. The workers loop over the queue for ever
(`wait.Until`), and the informers deliver every event. Users and restarts are
not fair, and faults are bounded by `MaxFaults`.

### The abstract registry and the refinement

`AccountRegistry` says what the controller promises, with no caches, queues
or RPCs. The CA's accounts only grow. A Secret is filled only when it is
empty, and then with a registered key. A Secret is never rewritten, only
deleted. A recorded URI is empty or a registered account.

`AccountController` defines `Registry == INSTANCE AccountRegistry WITH` the
mapping:

- `registered` is the keys with an account;
- `stored` is `secret`;
- `recorded` is the status URIs in the store.

`ImplementsRegistry == Registry!Spec` is checked as a property (run
`acct_safety`) and proved (theorem `Refinement`).

### Runs

All runs use `MC_AccountController.tla`. It sets two contact lists (a user
edit and a CA revert can be told apart), one or two ConfigMaps, and symmetry
over the contact lists. Every ConfigMap's default Secret name is its own
name. With two ConfigMaps, one may name the other's Secret, so they share an
account.

| Run | Bounds | Checks | Result |
|---|---|---|---|
| `acct_safety` | 2 ConfigMaps, 3 keys, 1 fault, 1 user action | `TypeOK`, `SecretHoldsRegisteredKey`, `ImplementsRegistry` | pass, ~560,000 distinct states, ~20 s |
| `acct_liveness` | 2 ConfigMaps, 2 keys, no faults, 1 user action, `FairSpec` | `UriEventuallyRecorded` | pass, 125,068 states, ~20 s |
| `acct_orphan` | 1 ConfigMap, 2 keys | `NoOrphanAccount` | violated: acme.go:354 |
| `acct_settles` | 1 ConfigMap, 2 keys, `FairSpec` | `URISettles` | violated: acme.go:389 |
| `acct_contacts` | 1 ConfigMap, 2 keys, 1 user action | `ContactsOnlyUserEdited` | violated: acme.go:390 |

Why these bounds:

- **Three keys.** The same run can do a registration that fails after the CA
  registered, an AlreadyExists orphan and a registration after a Secret was
  deleted.
- **The liveness run has no faults and two keys.** With no faults the
  registration limit never blocks a ConfigMap artificially. The property
  only speaks of ConfigMaps whose Secret already holds a key.

Mutants, each one found by TLC:

| Mutant | Property it violates |
|---|---|
| the status hash filled from the URI | `TypeOK` |
| the Secret created before `Register` on the failure path | `SecretHoldsRegisteredKey` |
| the Secret written with an overwriting update instead of `Create` | `ImplementsRegistry` |
| the `len(status.URI) == 0` test inverted | `UriEventuallyRecorded` |

### Findings

1. **acme.go:368, the update branch is dead.**
   `reflect.DeepEqual(accountHash, []byte(status.Hash))` compares a `[64]byte`
   with a `[]byte`. Values of different types are never deeply equal, so
   `UpdateReg` is never called, and a contact change never reaches the CA.
   The status hash is also written as `fmt.Sprint` of the array, not the
   bytes. The model has `HashMatches == FALSE`.
2. **acme.go:389, the URI flaps (`acct_settles`).** On a run with the Secret
   present and `status.uri` set, no RPC is made. `status.uri` is then set from
   the local account, which has no URI. The write re-enqueues the key, and the
   next run's `GetReg` restores the URI. Under fairness this goes on for ever.
3. **acme.go:390, a user's contact edit is reverted (`acct_contacts`).**
   `GetReg` returns the contacts the account was registered with, and they
   overwrite the user's. The spec says a change in contacts forces an update
   RPC.
4. **acme.go:322/354, orphaned accounts (`acct_orphan`).** The previous run
   created the Secret, and the write-back's update event arrives before the
   Secret lister has it. The next run registers a fresh key, and `Create`
   fails with AlreadyExists: the account is orphaned at the CA, with no fault
   and no user action. The spec says a second registration is idempotent at
   the CA, but the code registers a new key each time.

### Proofs (`AccountControllerProofs.tla`, `AccountRegistry.tla`)

They hold for all `CMs`, `Names`, `Contacts` and bounds. They rest on the
named assumptions `NamesAssumption`, `SentinelAssumption` and
`BoundsAssumption` of `AccountController`.

- **`SpecConsistent`** (in `AccountRegistry`): `Consistent` (every stored
  and recorded key is registered) is inductive, given `TypeOK`.
- **`TypeCorrect: Spec => []TypeOK`.** There is one lemma per group of
  actions, plus lemmas about the helpers: `MergedType`, and `WriteBackEffect`
  (a write-back changes at most `cm[c]`, to the merged object).
- **`Refinement: Spec => ImplementsRegistry`.** The initial states map to
  the registry's initial state. For each action, a lemma shows that it maps
  to a registry step or a stutter:
  - `SyncRegister` maps to `Provision`, or to `RegisterOnly` when `Create`
    fails;
  - `SyncRegisterFault` maps to `RegisterOnly` or a stutter;
  - `SyncExisting` maps to `Record`: the URI it writes is a registered key,
    or empty;
  - `DeleteSecret` maps to `Drop`;
  - every other action leaves the accounts, the Secrets and the stored URIs
    alone.

  Only `TypeOK` is needed as an invariant. The one fact the mapping needs,
  that a key `GetReg` returns is registered, is a guard of the action.
- **`SecretHoldsRegisteredKeyHolds`.** It follows from the refinement and
  `SpecConsistent`, with no invariant of its own.

Only model-checked: `UriEventuallyRecorded` (liveness) and the three
violation runs.

## Not modelled

- **Multiple Routes and keys.** The queue runs each key alone and Routes
  share nothing in the controller except the CA's rate limit.
- **Several authorizations per order.** The loop at route.go:479 is
  abstracted to one authorization.
- **The exposer pods becoming ready.** The CA validates as soon as the three
  objects exist.
- **`needsCertKey`'s arithmetic.** Only its bands are modelled.
- **`syncSecret` and the secret event handlers.** They are dead code.
- **Account key material.** RSA key generation, PEM encoding, YAML and the
  SHA-512 hash string are abstracted: a key is a number, a hash is the
  contact list it was computed from.
- **The ACME directory, orders URL and account status string.** No property
  reads them; they change with the URI and the contacts.
- **Accepting the CA's terms** (acme.go:48-65) only logs.
- **Two workers on one key.** The work queue never hands a key to two
  workers at once, so each sync of a key is one atomic step.
