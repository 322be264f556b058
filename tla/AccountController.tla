-------------------------- MODULE AccountController --------------------------
(***************************************************************************)
(* The ACME account controller of src/pkg/controller/issuer/acme/acme.go:  *)
(* sync(), which turns a CertIssuer ConfigMap into an account at the CA,   *)
(* the account key Secret and the account status kept in the ConfigMap,  *)
(* together with what it races with:                                       *)
(*   - the object store and the two informer caches sync reads from (the   *)
(*     ConfigMap indexer and the Secret lister), each of which may lag;    *)
(*   - the rate-limited work queue, which retries a failed key for ever;   *)
(*   - the CA, which registers an account per key;                        *)
(*   - users editing contacts or deleting the Secret, and process crashes.*)
(* One sync is one atomic step: the queue never runs a key twice at once,  *)
(* and everything sync reads comes from the caches, read at its start.     *)
(* A crash in the middle of a sync is a sync that failed at that call      *)
(* followed by a Restart: the generated key lives only in memory.          *)
(***************************************************************************)
EXTENDS Integers, FiniteSets

CONSTANTS
    CMs,        \* CertIssuer ConfigMaps carrying the account label
    Names,      \* Secret names; a ConfigMap's own name is one of them
    Contacts,   \* contact lists a ConfigMap may carry
    NoName,     \* an empty AccountCredentialsSecretName
    NoAccount,  \* the CA has no account for a key
    NoHash,     \* an empty status.hash
    MaxKeys,    \* registrations the CA accepts before rate limiting (bound)
    MaxFaults,  \* transient CA and store failures (bound)
    MaxEdits    \* user edits: contact changes and Secret deletions (bound)

ASSUME NamesAssumption == CMs \subseteq Names /\ NoName \notin Names
ASSUME SentinelAssumption == NoAccount \notin Contacts /\ NoHash \notin Contacts
ASSUME BoundsAssumption == MaxKeys \in Nat \ {0} /\ MaxFaults \in Nat /\ MaxEdits \in Nat

\* Account keys: key k is the k-th rsa.GenerateKey result; the CA names the
\* account it registers for a key by the key, so a URI is a key too.
Keys == 1..MaxKeys
NoKey == 0

\* The issuer types sync tells apart: acme, another type (returns nil), and a
\* ConfigMap whose data key is missing or does not parse (returns an error).
Kinds == {"acme", "other", "broken"}

\* The fields of a CertIssuer ConfigMap sync reads or writes: the type, the
\* AccountCredentialsSecretName, Account.Contacts, Account.Status.URI and
\* Account.Status.Hash (the hash of the contacts it was computed over).
CMObj == [exists: BOOLEAN, kind: Kinds, secretName: Names \cup {NoName},
          contacts: Contacts, uri: Keys \cup {NoKey}, hash: Contacts \cup {NoHash}]

VARIABLES
    cm,           \* the ConfigMaps in the object store
    cmCache,      \* the informer's copies, read by sync as cmReadOnly
    cmSynced,     \* no write to the ConfigMap since its cache copy
    secret,       \* the key each Secret holds in the store, or NoKey
    secretCache,  \* the Secret lister's view of them
    accounts,     \* the contacts of the CA's account for each key
    nextKey,      \* the next key rsa.GenerateKey produces
    queued,       \* the keys in the work queue
    faults,       \* transient failures so far
    edits,        \* user edits so far
    dropped       \* keys of Secrets users deleted (history, for properties)

storeVars == <<cm, cmSynced, secret>>
caVars == <<accounts, nextKey>>
envVars == <<faults, edits, dropped>>
vars == <<cm, cmCache, cmSynced, secret, secretCache, accounts, nextKey,
          queued, faults, edits, dropped>>

TypeOK ==
    /\ cm \in [CMs -> CMObj]
    /\ cmCache \in [CMs -> CMObj]
    /\ cmSynced \in [CMs -> BOOLEAN]
    /\ secret \in [Names -> Keys \cup {NoKey}]
    /\ secretCache \in [Names -> Keys \cup {NoKey}]
    /\ accounts \in [Keys -> Contacts \cup {NoAccount}]
    /\ nextKey \in 1..(MaxKeys + 1)
    /\ queued \in [CMs -> BOOLEAN]
    /\ faults \in 0..MaxFaults
    /\ edits \in 0..MaxEdits
    /\ dropped \subseteq Keys

\* ConfigMaps as a user creates them, with no account status yet, no account
\* Secret and nothing registered; the initial list enqueues every one.
Init ==
    /\ cm \in [CMs -> {o \in CMObj : o.exists /\ o.uri = NoKey /\ o.hash = NoHash}]
    /\ cmCache = cm
    /\ cmSynced = [c \in CMs |-> TRUE]
    /\ secret = [n \in Names |-> NoKey]
    /\ secretCache = secret
    /\ accounts = [k \in Keys |-> NoAccount]
    /\ nextKey = 1
    /\ queued = [c \in CMs |-> TRUE]
    /\ faults = 0
    /\ edits = 0
    /\ dropped = {}

-----------------------------------------------------------------------------
(* Helpers translated from acme.go                                         *)

\* AccountCredentialsSecretName, defaulted to the ConfigMap's own name.
SecretName(o, c) == IF o.secretName = NoName THEN c ELSE o.secretName

\* processNextItem after sync returned (acme.go:130-148): Forget the key on
\* success, AddRateLimited it on error; the account queue retries for ever.
Processed(c, ok) == queued' = [queued EXCEPT ![c] = ~ok]

\* Mutant of Merged: the hash field filled from the account URI.
MergedHashOfURI(c, acct) ==
    [cmCache[c] EXCEPT !.secretName = SecretName(cmCache[c], c),
                       !.uri = acct.uri,
                       !.contacts = acct.contacts,
                       !.hash = acct.uri]

\* The status merged from the account (acme.go:389-393), on the copy of the
\* cached ConfigMap whose secret name was defaulted (acme.go:318-320).
Merged(c, acct) ==
    [cmCache[c] EXCEPT !.secretName = SecretName(cmCache[c], c),
                       !.uri = acct.uri,
                       !.contacts = acct.contacts,
                       !.hash = acct.contacts]

\* Write the ConfigMap back only if it changed (acme.go:395-412); Update
\* carries cmReadOnly's resourceVersion and conflicts if it is stale.
WriteBack(c, acct) ==
    LET new == Merged(c, acct) IN
    \/ /\ new = cmCache[c]
       /\ Processed(c, TRUE)
       /\ UNCHANGED <<cm, cmSynced>>
    \/ /\ new # cmCache[c]
       /\ cmSynced[c]
       /\ cm' = [cm EXCEPT ![c] = new]
       /\ cmSynced' = [cmSynced EXCEPT ![c] = FALSE]
       /\ Processed(c, TRUE)
    \/ /\ new # cmCache[c]
       /\ ~cmSynced[c]
       /\ Processed(c, FALSE)
       /\ UNCHANGED <<cm, cmSynced>>

\* reflect.DeepEqual(accountHash, []byte(status.Hash)) (acme.go:366-368)
\* compares a [64]byte with a []byte: values of distinct types are never
\* deeply equal, so the UpdateReg branch (acme.go:369-377) is never taken.
HashMatches(c) == FALSE

\* sync gets past its early returns with an acme issuer (acme.go:264-316).
Syncable(c) ==
    /\ queued[c]
    /\ cmCache[c].exists
    /\ cmCache[c].kind = "acme"

\* Mutant of NeedsGetReg: the emptiness test of status.URI inverted.
NeedsGetRegInverted(c) == cmCache[c].uri # NoKey

\* GetReg is called to recover the URI only when status.URI is empty
\* (acme.go:378).
NeedsGetReg(c) == cmCache[c].uri = NoKey

\* The CA registers an account for key k with the ConfigMap's contacts.
Register(c, k) == accounts' = [accounts EXCEPT ![k] = cmCache[c].contacts]

-----------------------------------------------------------------------------
(* sync, one action per way a run can end (acme.go:258-413)                *)

\* The ConfigMap is gone, being deleted, or of another issuer type: return
\* nil (acme.go:270-286, 299-304).
SyncSkip(c) ==
    /\ queued[c]
    /\ ~cmCache[c].exists \/ cmCache[c].kind = "other"
    /\ Processed(c, TRUE)
    /\ UNCHANGED <<storeVars, cmCache, secretCache, caVars, envVars>>

\* The CertIssuer data key is missing or does not parse: return an error
\* (acme.go:288-297).
SyncInvalid(c) ==
    /\ queued[c]
    /\ cmCache[c].exists
    /\ cmCache[c].kind = "broken"
    /\ Processed(c, FALSE)
    /\ UNCHANGED <<storeVars, cmCache, secretCache, caVars, envVars>>

\* Mutant of SyncRegister: the Secret written with an update that replaces an
\* existing one instead of Create.
SyncRegisterOverwrite(c) ==
    LET n == SecretName(cmCache[c], c)
        k == nextKey
    IN
    /\ Syncable(c)
    /\ secretCache[n] = NoKey
    /\ nextKey <= MaxKeys
    /\ nextKey' = nextKey + 1
    /\ Register(c, k)
    /\ secret' = [secret EXCEPT ![n] = k]
    /\ WriteBack(c, [uri |-> k, contacts |-> cmCache[c].contacts])
    /\ UNCHANGED <<cmCache, secretCache, envVars>>

\* The lister has no Secret: generate a key, Register it, Create the Secret
\* and write the status (acme.go:322-357, 389-412). Create fails with
\* AlreadyExists when the Secret is in the store but not yet in the cache;
\* the account just registered is then left without its key.
SyncRegister(c) ==
    LET n == SecretName(cmCache[c], c)
        k == nextKey
    IN
    /\ Syncable(c)
    /\ secretCache[n] = NoKey
    /\ nextKey <= MaxKeys
    /\ nextKey' = nextKey + 1
    /\ Register(c, k)
    /\ \/ /\ secret[n] = NoKey
          /\ secret' = [secret EXCEPT ![n] = k]
          /\ WriteBack(c, [uri |-> k, contacts |-> cmCache[c].contacts])
       \/ /\ secret[n] # NoKey
          /\ Processed(c, FALSE)
          /\ UNCHANGED storeVars
    /\ UNCHANGED <<cmCache, secretCache, envVars>>

\* Mutant of SyncRegisterFault: the Secret created before Register is called.
SyncRegisterFaultKeyFirst(c) ==
    LET n == SecretName(cmCache[c], c) IN
    /\ Syncable(c)
    /\ secretCache[n] = NoKey
    /\ nextKey <= MaxKeys
    /\ faults < MaxFaults
    /\ faults' = faults + 1
    /\ nextKey' = nextKey + 1
    /\ secret[n] = NoKey
    /\ secret' = [secret EXCEPT ![n] = nextKey]
    /\ Processed(c, FALSE)
    /\ UNCHANGED <<cm, cmSynced, cmCache, secretCache, accounts, edits, dropped>>

\* Register fails, or Register hits its 15s deadline after the CA registered,
\* or Create fails: sync returns the error with nothing written
\* (acme.go:338-343, 354-357).
SyncRegisterFault(c) ==
    LET n == SecretName(cmCache[c], c) IN
    /\ Syncable(c)
    /\ secretCache[n] = NoKey
    /\ nextKey <= MaxKeys
    /\ faults < MaxFaults
    /\ faults' = faults + 1
    /\ nextKey' = nextKey + 1
    /\ Register(c, nextKey) \/ UNCHANGED accounts
    /\ Processed(c, FALSE)
    /\ UNCHANGED <<storeVars, cmCache, secretCache, edits, dropped>>

\* The CA refuses further registrations (rate limit): Register errs.
SyncRegisterRefused(c) ==
    /\ Syncable(c)
    /\ secretCache[SecretName(cmCache[c], c)] = NoKey
    /\ nextKey > MaxKeys
    /\ Processed(c, FALSE)
    /\ UNCHANGED <<storeVars, cmCache, secretCache, caVars, envVars>>

\* The lister has the Secret (acme.go:358-387). With status.URI empty, GetReg
\* with the stored key returns the CA's account; otherwise no call is made and
\* the account merged is the one sync built, which has no URI: the status URI
\* is wiped (acme.go:314-316, 389).
SyncExisting(c) ==
    LET k == secretCache[SecretName(cmCache[c], c)] IN
    /\ Syncable(c)
    /\ k # NoKey
    /\ ~HashMatches(c)
    /\ \/ /\ NeedsGetReg(c)
          /\ accounts[k] # NoAccount
          /\ WriteBack(c, [uri |-> k, contacts |-> accounts[k]])
       \/ /\ ~NeedsGetReg(c)
          /\ WriteBack(c, [uri |-> NoKey, contacts |-> cmCache[c].contacts])
    /\ UNCHANGED <<secret, cmCache, secretCache, caVars, envVars>>

\* GetReg fails transiently (acme.go:382-385).
SyncGetRegFault(c) ==
    /\ Syncable(c)
    /\ secretCache[SecretName(cmCache[c], c)] # NoKey
    /\ NeedsGetReg(c)
    /\ faults < MaxFaults
    /\ faults' = faults + 1
    /\ Processed(c, FALSE)
    /\ UNCHANGED <<storeVars, cmCache, secretCache, caVars, edits, dropped>>

\* One worker run of sync for key c.
Sync(c) ==
    \/ SyncSkip(c)
    \/ SyncInvalid(c)
    \/ SyncRegister(c)
    \/ SyncRegisterFault(c)
    \/ SyncRegisterRefused(c)
    \/ SyncExisting(c)
    \/ SyncGetRegFault(c)

-----------------------------------------------------------------------------
(* The informers, the queue and the process                                *)

\* The ConfigMap informer catches up and delivers the event; addConfigMap,
\* updateConfigMap and deleteConfigMap enqueue every labelled ConfigMap
\* (acme.go:150-210).
CMCacheSync(c) ==
    /\ ~cmSynced[c]
    /\ cmCache' = [cmCache EXCEPT ![c] = cm[c]]
    /\ cmSynced' = [cmSynced EXCEPT ![c] = TRUE]
    /\ queued' = [queued EXCEPT ![c] = TRUE]
    /\ UNCHANGED <<cm, secret, secretCache, caVars, envVars>>

\* deleteSecret enqueues every cached acme ConfigMap whose
\* AccountCredentialsSecretName, as written in it, is the Secret's name.
Matches(c, n) ==
    /\ cmCache[c].exists
    /\ cmCache[c].kind = "acme"
    /\ cmCache[c].secretName = n

\* The Secret informer catches up with Secret n. Only deletions have a handler
\* (acme.go:94-97, 212-256); a Secret replaced behind the cache's back is seen
\* as its deletion followed by an add.
SecretCacheSync(n) ==
    /\ secretCache[n] # secret[n]
    /\ secretCache' = [secretCache EXCEPT ![n] = secret[n]]
    /\ queued' = IF secretCache[n] # NoKey
                   THEN [c \in CMs |-> queued[c] \/ Matches(c, n)]
                   ELSE queued
    /\ UNCHANGED <<storeVars, cmCache, caVars, envVars>>

\* The periodic resync replays a cached ConfigMap through updateConfigMap.
Resync(c) ==
    /\ cmCache[c].exists
    /\ ~queued[c]
    /\ queued' = [queued EXCEPT ![c] = TRUE]
    /\ UNCHANGED <<storeVars, cmCache, secretCache, caVars, envVars>>

\* The process dies and comes back (acme.go:104-123): the caches re-list, the
\* initial list enqueues every ConfigMap, the queue's history is gone.
Restart ==
    /\ cmCache' = cm
    /\ cmSynced' = [c \in CMs |-> TRUE]
    /\ secretCache' = secret
    /\ queued' = [c \in CMs |-> cm[c].exists]
    /\ UNCHANGED <<cm, secret, caVars, envVars>>

-----------------------------------------------------------------------------
(* Users                                                                   *)

\* A user changes the contact list of a ConfigMap.
EditContacts(c, x) ==
    /\ edits < MaxEdits
    /\ cm[c].exists
    /\ x # cm[c].contacts
    /\ cm' = [cm EXCEPT ![c].contacts = x]
    /\ cmSynced' = [cmSynced EXCEPT ![c] = FALSE]
    /\ edits' = edits + 1
    /\ UNCHANGED <<secret, cmCache, secretCache, queued, caVars, faults, dropped>>

\* A user deletes an account Secret.
DeleteSecret(n) ==
    /\ edits < MaxEdits
    /\ secret[n] # NoKey
    /\ secret' = [secret EXCEPT ![n] = NoKey]
    /\ dropped' = dropped \cup {secret[n]}
    /\ edits' = edits + 1
    /\ UNCHANGED <<cm, cmSynced, cmCache, secretCache, queued, caVars, faults>>

\* A user deletes a ConfigMap; the account Secret has no owner reference and
\* stays (acme.go:345-353).
DeleteConfigMap(c) ==
    /\ edits < MaxEdits
    /\ cm[c].exists
    /\ cm' = [cm EXCEPT ![c].exists = FALSE]
    /\ cmSynced' = [cmSynced EXCEPT ![c] = FALSE]
    /\ edits' = edits + 1
    /\ UNCHANGED <<secret, cmCache, secretCache, queued, caVars, faults, dropped>>

-----------------------------------------------------------------------------

Informers ==
    \/ \E c \in CMs : CMCacheSync(c) \/ Resync(c)
    \/ \E n \in Names : SecretCacheSync(n)

Users ==
    \/ \E c \in CMs, x \in Contacts : EditContacts(c, x)
    \/ \E n \in Names : DeleteSecret(n)
    \/ \E c \in CMs : DeleteConfigMap(c)

Next ==
    \/ \E c \in CMs : Sync(c)
    \/ Informers
    \/ Restart
    \/ Users

Spec == Init /\ [][Next]_vars

\* The workers run every queued key (wait.Until restarts a worker that
\* returned) and the informers deliver every event; the CA and the store fail
\* only MaxFaults times. Users and crashes are not fair.
FairSpec ==
    /\ Spec
    /\ \A c \in CMs : WF_vars(Sync(c)) /\ WF_vars(CMCacheSync(c))
    /\ \A n \in Names : WF_vars(SecretCacheSync(n))

-----------------------------------------------------------------------------
(* Properties                                                              *)

\* The account a ConfigMap's status should name: the key in its Secret.
StoredKey(c) == secret[SecretName(cm[c], c)]
AccountStored(c) == cm[c].exists /\ cm[c].kind = "acme" /\ StoredKey(c) # NoKey
Recorded(c) == cm[c].uri = StoredKey(c)

\* A Secret never holds a key the CA has no account for: sync creates the
\* Secret only after Register returned (acme.go:340-357), even when Register
\* times out, Create fails, the Secret cache lags or two ConfigMaps share the
\* Secret, and GetReg is only ever called with such a key.
SecretHoldsRegisteredKey ==
    \A n \in Names : secret[n] # NoKey => accounts[secret[n]] # NoAccount

\* Whenever an acme ConfigMap's Secret holds a key, the ConfigMap's status
\* eventually names that key's account (GetReg, acme.go:378-389), unless the
\* Secret goes away first: through stale caches, conflicts and the URI being
\* wiped on a run that makes no CA call.
UriEventuallyRecorded ==
    \A c \in CMs : AccountStored(c) ~> (Recorded(c) \/ ~AccountStored(c))

\* The controller implements AccountRegistry: the CA's accounts, the Secrets'
\* keys and the status URIs, as the abstract specification sees them.
Registry == INSTANCE AccountRegistry
    WITH Issuers <- CMs, SecretNames <- Names, Keys <- Keys, NoKey <- NoKey,
         registered <- {k \in Keys : accounts[k] # NoAccount},
         stored <- secret,
         recorded <- [c \in CMs |-> cm[c].uri]

\* Every step of the controller, its users and its environment is a step of
\* AccountRegistry: Register before Create, Create never replacing a Secret
\* the lister missed (AlreadyExists, acme.go:354), and a URI only ever taken
\* from Register or from GetReg with a stored key (acme.go:340, 382, 389).
ImplementsRegistry == Registry!Spec

\* Every account the controller registered keeps its key in a Secret, unless a
\* user deleted that Secret: "a second registration with the same key is
\* idempotent at the CA" (spec 4.1), so retries must not register new keys.
NoOrphanAccount ==
    \A k \in Keys : accounts[k] # NoAccount =>
                      k \in dropped \/ \E n \in Names : secret[n] = k

\* Once an acme ConfigMap's status names its account, it keeps naming it: the
\* reconcile is idempotent and writes back only what changed (spec 4.1).
URISettles ==
    \A c \in CMs : cm[c].kind = "acme" => <>[](AccountStored(c) /\ Recorded(c))

\* The contact list of a ConfigMap only changes when a user edits it: the
\* contacts are the account's identity, and a change "forces an account update
\* RPC" (spec 3), never a return to the CA's old list (acme.go:390).
ContactsOnlyUserEdited ==
    [][\A c \in CMs : cm'[c].contacts # cm[c].contacts => edits' = edits + 1]_vars

=============================================================================
