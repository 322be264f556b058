----------------------- MODULE AccountControllerProofs -----------------------
(* Proofs about AccountController for every value of its constants.        *)
EXTENDS AccountController, TLAPS

USE NamesAssumption, SentinelAssumption, BoundsAssumption

-----------------------------------------------------------------------------
(* Lemmas about the helpers                                                *)

\* The defaulted secret name is a Secret name.
LEMMA SecretNameType ==
    ASSUME NEW o \in CMObj, NEW c \in CMs
    PROVE  SecretName(o, c) \in Names
BY DEF SecretName, CMObj

\* processNextItem keeps the queue a set of flags.
LEMMA ProcessedType ==
    ASSUME TypeOK, NEW c \in CMs, NEW ok \in BOOLEAN, Processed(c, ok)
    PROVE  queued' \in [CMs -> BOOLEAN]
BY DEF Processed, TypeOK

\* The status merged from a typed account is a ConfigMap.
LEMMA MergedType ==
    ASSUME TypeOK, NEW c \in CMs, NEW acct,
           acct.uri \in Keys \cup {NoKey}, acct.contacts \in Contacts
    PROVE  Merged(c, acct) \in CMObj
<1>1. cmCache[c] \in CMObj
  BY DEF TypeOK
<1>2. SecretName(cmCache[c], c) \in Names
  BY <1>1, SecretNameType
<1>3. QED
  BY <1>1, <1>2 DEF Merged, CMObj

\* Writing the status back either leaves the ConfigMap as it is or stores the
\* merged status; either way the store and the queue stay typed.
LEMMA WriteBackEffect ==
    ASSUME TypeOK, NEW c \in CMs, NEW acct,
           acct.uri \in Keys \cup {NoKey}, acct.contacts \in Contacts,
           WriteBack(c, acct)
    PROVE  /\ cm' \in {cm, [cm EXCEPT ![c] = Merged(c, acct)]}
           /\ cm' \in [CMs -> CMObj]
           /\ cmSynced' \in [CMs -> BOOLEAN]
           /\ queued' \in [CMs -> BOOLEAN]
<1>1. Merged(c, acct) \in CMObj
  BY MergedType
<1>2. queued' \in [CMs -> BOOLEAN]
  BY ProcessedType DEF WriteBack
<1>3. cm' \in {cm, [cm EXCEPT ![c] = Merged(c, acct)]} /\ cmSynced' \in [CMs -> BOOLEAN]
  BY DEF WriteBack, TypeOK
<1>4. QED
  BY <1>1, <1>2, <1>3 DEF TypeOK

\* Register gives key k an account and leaves the other keys alone.
LEMMA RegisterEffect ==
    ASSUME TypeOK, NEW c \in CMs, NEW k \in Keys, Register(c, k)
    PROVE  /\ accounts' \in [Keys -> Contacts \cup {NoAccount}]
           /\ accounts'[k] # NoAccount
           /\ \A j \in Keys : j # k => accounts'[j] = accounts[j]
<1>1. cmCache[c].contacts \in Contacts
  BY DEF TypeOK, CMObj
<1>2. QED
  BY <1>1 DEF Register, TypeOK

-----------------------------------------------------------------------------
(* Type correctness                                                        *)

\* The runs of sync that only return: skip, invalid data, the CA's rate
\* limit, and a GetReg fault.
LEMMA SyncQuietType ==
    ASSUME TypeOK, NEW c \in CMs,
           SyncSkip(c) \/ SyncInvalid(c) \/ SyncRegisterRefused(c) \/ SyncGetRegFault(c)
    PROVE  TypeOK'
<1>1. queued' \in [CMs -> BOOLEAN]
  BY ProcessedType DEF SyncSkip, SyncInvalid, SyncRegisterRefused, SyncGetRegFault
<1>2. faults' \in 0..MaxFaults
  <2>1. CASE SyncGetRegFault(c)
    BY <2>1 DEF SyncGetRegFault, TypeOK
  <2>2. CASE SyncSkip(c) \/ SyncInvalid(c) \/ SyncRegisterRefused(c)
    BY <2>2 DEF SyncSkip, SyncInvalid, SyncRegisterRefused, TypeOK, envVars
  <2>3. QED
    BY <2>1, <2>2
<1>3. QED
  BY <1>1, <1>2 DEF SyncSkip, SyncInvalid, SyncRegisterRefused, SyncGetRegFault,
                   TypeOK, storeVars, caVars, envVars

\* A failed registration spends a key and maybe leaves an account behind.
LEMMA SyncRegisterFaultType ==
    ASSUME TypeOK, NEW c \in CMs, SyncRegisterFault(c)
    PROVE  TypeOK'
<1>1. nextKey \in Keys
  BY DEF SyncRegisterFault, TypeOK, Keys
<1>2. accounts' \in [Keys -> Contacts \cup {NoAccount}]
  <2>1. CASE Register(c, nextKey)
    BY <1>1, <2>1, RegisterEffect
  <2>2. CASE UNCHANGED accounts
    BY <2>2 DEF TypeOK
  <2>3. QED
    BY <2>1, <2>2 DEF SyncRegisterFault
<1>3. queued' \in [CMs -> BOOLEAN]
  BY ProcessedType DEF SyncRegisterFault
<1>4. QED
  BY <1>1, <1>2, <1>3 DEF SyncRegisterFault, TypeOK, storeVars, Keys

\* A registration: the key stored, or AlreadyExists.
LEMMA SyncRegisterType ==
    ASSUME TypeOK, NEW c \in CMs, SyncRegister(c)
    PROVE  TypeOK'
<1> DEFINE n == SecretName(cmCache[c], c)
<1>1. nextKey \in Keys /\ n \in Names
  BY SecretNameType DEF SyncRegister, TypeOK, Keys
<1>2. accounts' \in [Keys -> Contacts \cup {NoAccount}]
  BY <1>1, RegisterEffect DEF SyncRegister
<1>3. nextKey' \in 1..(MaxKeys + 1)
  BY <1>1 DEF SyncRegister, Keys
<1>4. cmCache[c].contacts \in Contacts
  BY DEF TypeOK, CMObj
<1>5. CASE secret[n] = NoKey /\ secret' = [secret EXCEPT ![n] = nextKey]
          /\ WriteBack(c, [uri |-> nextKey, contacts |-> cmCache[c].contacts])
  <2>1. /\ cm' \in [CMs -> CMObj] /\ cmSynced' \in [CMs -> BOOLEAN]
        /\ queued' \in [CMs -> BOOLEAN]
    BY <1>1, <1>4, <1>5, WriteBackEffect DEF Keys
  <2>2. secret' \in [Names -> Keys \cup {NoKey}]
    BY <1>1, <1>5 DEF TypeOK
  <2>3. QED
    BY <1>2, <1>3, <2>1, <2>2 DEF SyncRegister, TypeOK, envVars
<1>6. CASE secret[n] # NoKey /\ Processed(c, FALSE) /\ UNCHANGED storeVars
  <2>1. queued' \in [CMs -> BOOLEAN]
    BY <1>6, ProcessedType
  <2>2. QED
    BY <1>2, <1>3, <1>6, <2>1 DEF SyncRegister, TypeOK, envVars, storeVars
<1>7. QED
  BY <1>5, <1>6 DEF SyncRegister

\* A run with the Secret in the lister: GetReg, or no call.
LEMMA SyncExistingType ==
    ASSUME TypeOK, NEW c \in CMs, SyncExisting(c)
    PROVE  TypeOK'
<1> DEFINE k == secretCache[SecretName(cmCache[c], c)]
<1>1. k \in Keys
  BY SecretNameType DEF SyncExisting, TypeOK
<1>2. cmCache[c].contacts \in Contacts
  BY DEF TypeOK, CMObj
<1>3. CASE accounts[k] # NoAccount /\ WriteBack(c, [uri |-> k, contacts |-> accounts[k]])
  <2>1. accounts[k] \in Contacts
    BY <1>1, <1>3 DEF TypeOK
  <2>2. /\ cm' \in [CMs -> CMObj] /\ cmSynced' \in [CMs -> BOOLEAN]
        /\ queued' \in [CMs -> BOOLEAN]
    BY <1>1, <1>3, <2>1, WriteBackEffect
  <2>3. QED
    BY <2>2 DEF SyncExisting, TypeOK, caVars, envVars
<1>4. CASE WriteBack(c, [uri |-> NoKey, contacts |-> cmCache[c].contacts])
  <2>1. /\ cm' \in [CMs -> CMObj] /\ cmSynced' \in [CMs -> BOOLEAN]
        /\ queued' \in [CMs -> BOOLEAN]
    BY <1>2, <1>4, WriteBackEffect
  <2>2. QED
    BY <2>1 DEF SyncExisting, TypeOK, caVars, envVars
<1>5. QED
  BY <1>3, <1>4 DEF SyncExisting

\* The informers, the resync and a restart only copy the store into the caches.
LEMMA InformerType ==
    ASSUME TypeOK,
           \/ \E c \in CMs : CMCacheSync(c) \/ Resync(c)
           \/ \E n \in Names : SecretCacheSync(n)
           \/ Restart
    PROVE  TypeOK'
<1>1. CASE \E c \in CMs : CMCacheSync(c)
  BY <1>1 DEF CMCacheSync, TypeOK, caVars, envVars
<1>2. CASE \E c \in CMs : Resync(c)
  BY <1>2 DEF Resync, TypeOK, storeVars, caVars, envVars
<1>3. CASE \E n \in Names : SecretCacheSync(n)
  BY <1>3 DEF SecretCacheSync, TypeOK, storeVars, caVars, envVars
<1>4. CASE Restart
  <2>1. \A c \in CMs : cm[c].exists \in BOOLEAN
    BY DEF TypeOK, CMObj
  <2>2. QED
    BY <1>4, <2>1 DEF Restart, TypeOK, caVars, envVars
<1>5. QED
  BY <1>1, <1>2, <1>3, <1>4

\* The users' edits.
LEMMA UserType ==
    ASSUME TypeOK, Users
    PROVE  TypeOK'
<1>1. CASE \E c \in CMs, x \in Contacts : EditContacts(c, x)
  BY <1>1 DEF EditContacts, TypeOK, CMObj, caVars
<1>2. CASE \E n \in Names : DeleteSecret(n)
  BY <1>2 DEF DeleteSecret, TypeOK, caVars
<1>3. CASE \E c \in CMs : DeleteConfigMap(c)
  <2>1. PICK c \in CMs : DeleteConfigMap(c)
    BY <1>3
  <2>2. [cm[c] EXCEPT !.exists = FALSE] \in CMObj
    <3>1. cm[c] \in CMObj
      BY DEF TypeOK
    <3>2. QED
      BY <3>1, Zenon DEF CMObj
  <2>3. cm' \in [CMs -> CMObj]
    BY <2>1, <2>2 DEF DeleteConfigMap, TypeOK
  <2>4. QED
    BY <2>1, <2>3 DEF DeleteConfigMap, TypeOK, caVars
<1>4. QED
  BY <1>1, <1>2, <1>3 DEF Users

\* The initial states are typed.
LEMMA InitType ==
    ASSUME Init
    PROVE  TypeOK
BY DEF Init, TypeOK, CMObj

\* Every step keeps the state typed.
LEMMA TypeStep ==
    ASSUME TypeOK, [Next]_vars
    PROVE  TypeOK'
<1>1. CASE \E c \in CMs : Sync(c)
  <2>1. PICK c \in CMs : Sync(c)
    BY <1>1
  <2>2. QED
    BY <2>1, SyncQuietType, SyncRegisterFaultType, SyncRegisterType, SyncExistingType
       DEF Sync
<1>2. CASE Informers \/ Restart
  BY <1>2, InformerType DEF Informers
<1>3. CASE Users
  BY <1>3, UserType
<1>4. CASE UNCHANGED vars
  BY <1>4 DEF vars, TypeOK
<1>5. QED
  BY <1>1, <1>2, <1>3, <1>4 DEF Next

\* The controller's state is always well typed: keys, counters and the
\* ConfigMap fields stay within their ranges.
THEOREM TypeCorrect == Spec => []TypeOK
<1>1. Init => TypeOK
  BY InitType
<1>2. TypeOK /\ [Next]_vars => TypeOK'
  BY TypeStep
<1>3. QED
  BY <1>1, <1>2, PTL DEF Spec

-----------------------------------------------------------------------------
(* AccountController implements AccountRegistry                           *)

\* A step that changes neither the CA's accounts, nor the Secrets, nor any
\* status URI is a stutter of the registry.
LEMMA RegistryStutter ==
    ASSUME accounts' = accounts, secret' = secret,
           \A c \in CMs : cm'[c].uri = cm[c].uri
    PROVE  UNCHANGED Registry!vars
BY DEF Registry!vars

\* Register adds exactly key k to the registered accounts.
LEMMA RegisterMapped ==
    ASSUME TypeOK, NEW c \in CMs, NEW k \in Keys, Register(c, k)
    PROVE  {j \in Keys : accounts'[j] # NoAccount}
             = {j \in Keys : accounts[j] # NoAccount} \cup {k}
BY RegisterEffect

\* Writing the status back records acct's URI for c, or nothing.
LEMMA WriteBackRecorded ==
    ASSUME TypeOK, NEW c \in CMs, NEW acct,
           acct.uri \in Keys \cup {NoKey}, acct.contacts \in Contacts,
           WriteBack(c, acct)
    PROVE  [d \in CMs |-> cm'[d].uri]
             \in {[d \in CMs |-> cm[d].uri], [[d \in CMs |-> cm[d].uri] EXCEPT ![c] = acct.uri]}
<1>1. cm' \in {cm, [cm EXCEPT ![c] = Merged(c, acct)]}
  BY WriteBackEffect
<1>2. Merged(c, acct).uri = acct.uri
  BY DEF Merged, TypeOK, CMObj
<1>3. CASE cm' = cm
  BY <1>3
<1>4. CASE cm' = [cm EXCEPT ![c] = Merged(c, acct)]
  BY <1>2, <1>4 DEF TypeOK
<1>5. QED
  BY <1>1, <1>3, <1>4

\* The runs of sync that write nothing, the informers, the resync, a restart
\* and the users' ConfigMap edits are registry stutters.
LEMMA QuietRefines ==
    ASSUME TypeOK,
           \/ \E c \in CMs : \/ SyncSkip(c) \/ SyncInvalid(c)
                             \/ SyncRegisterRefused(c) \/ SyncGetRegFault(c)
           \/ Informers \/ Restart
           \/ \E c \in CMs, x \in Contacts : EditContacts(c, x)
           \/ \E c \in CMs : DeleteConfigMap(c)
    PROVE  UNCHANGED Registry!vars
<1>1. accounts' = accounts /\ secret' = secret
  BY DEF SyncSkip, SyncInvalid, SyncRegisterRefused, SyncGetRegFault, Informers,
         CMCacheSync, Resync, SecretCacheSync, Restart, EditContacts, DeleteConfigMap,
         storeVars, caVars
<1>2. \A c \in CMs : cm'[c].uri = cm[c].uri
  <2>1. CASE cm' = cm
    BY <2>1
  <2>2. CASE \E c \in CMs, x \in Contacts : EditContacts(c, x)
    BY <2>2 DEF EditContacts, TypeOK, CMObj
  <2>3. CASE \E c \in CMs : DeleteConfigMap(c)
    BY <2>3 DEF DeleteConfigMap, TypeOK, CMObj
  <2>4. QED
    BY <2>1, <2>2, <2>3 DEF SyncSkip, SyncInvalid, SyncRegisterRefused, SyncGetRegFault,
       Informers, CMCacheSync, Resync, SecretCacheSync, Restart, storeVars
<1>3. QED
  BY <1>1, <1>2, RegistryStutter

\* A failed registration may leave an account nobody keeps.
LEMMA SyncRegisterFaultRefines ==
    ASSUME TypeOK, NEW c \in CMs, SyncRegisterFault(c)
    PROVE  [Registry!Next]_Registry!vars
<1>1. nextKey \in Keys
  BY DEF SyncRegisterFault, TypeOK, Keys
<1>2. secret' = secret /\ cm' = cm
  BY DEF SyncRegisterFault, storeVars
<1>3. CASE Register(c, nextKey)
  <2>1. Registry!RegisterOnly(nextKey)
    BY <1>1, <1>2, <1>3, RegisterMapped DEF Registry!RegisterOnly
  <2>2. \E k \in Keys : Registry!RegisterOnly(k)
    BY <1>1, <2>1 DEF Registry!RegisterOnly
  <2>3. Registry!Next
    BY <2>2 DEF Registry!Next
  <2>4. QED
    BY <2>3
<1>4. CASE UNCHANGED accounts
  BY <1>2, <1>4, RegistryStutter
<1>5. QED
  BY <1>3, <1>4 DEF SyncRegisterFault

\* A registration stores the new key in the empty Secret and may record it,
\* or (AlreadyExists) leaves the account without its key.
LEMMA SyncRegisterRefines ==
    ASSUME TypeOK, NEW c \in CMs, SyncRegister(c)
    PROVE  [Registry!Next]_Registry!vars
<1> DEFINE n == SecretName(cmCache[c], c)
<1>1. nextKey \in Keys /\ n \in Names
  BY SecretNameType DEF SyncRegister, TypeOK, Keys
<1>2. {j \in Keys : accounts'[j] # NoAccount}
        = {j \in Keys : accounts[j] # NoAccount} \cup {nextKey}
  BY <1>1, RegisterMapped DEF SyncRegister
<1>3. cmCache[c].contacts \in Contacts
  BY DEF TypeOK, CMObj
<1>4. CASE secret[n] = NoKey /\ secret' = [secret EXCEPT ![n] = nextKey]
          /\ WriteBack(c, [uri |-> nextKey, contacts |-> cmCache[c].contacts])
  <2>1. [d \in CMs |-> cm'[d].uri]
          \in {[d \in CMs |-> cm[d].uri], [[d \in CMs |-> cm[d].uri] EXCEPT ![c] = nextKey]}
    BY <1>1, <1>3, <1>4, WriteBackRecorded DEF Keys
  <2>2. Registry!Provision(c, n, nextKey)
    BY <1>2, <1>4, <2>1 DEF Registry!Provision
  <2>3. \E i \in CMs, m \in Names, k \in Keys : Registry!Provision(i, m, k)
    BY <1>1, <2>2 DEF Registry!Provision
  <2>4. Registry!Next
    BY <2>3 DEF Registry!Next
  <2>5. QED
    BY <2>4
<1>5. CASE secret[n] # NoKey /\ Processed(c, FALSE) /\ UNCHANGED storeVars
  <2>1. Registry!RegisterOnly(nextKey)
    BY <1>2, <1>5 DEF Registry!RegisterOnly, storeVars
  <2>2. \E k \in Keys : Registry!RegisterOnly(k)
    BY <1>1, <2>1 DEF Registry!RegisterOnly
  <2>3. Registry!Next
    BY <2>2 DEF Registry!Next
  <2>4. QED
    BY <2>3
<1>6. QED
  BY <1>4, <1>5 DEF SyncRegister

\* A run with the Secret in the lister records the stored key's account
\* (GetReg) or clears the URI, or writes nothing.
LEMMA SyncExistingRefines ==
    ASSUME TypeOK, NEW c \in CMs, SyncExisting(c)
    PROVE  [Registry!Next]_Registry!vars
<1> DEFINE k == secretCache[SecretName(cmCache[c], c)]
<1>1. k \in Keys
  BY SecretNameType DEF SyncExisting, TypeOK
<1>2. accounts' = accounts /\ secret' = secret
  BY DEF SyncExisting, caVars
<1>3. ASSUME NEW acct, acct.uri \in Keys \cup {NoKey}, acct.contacts \in Contacts,
             acct.uri # NoKey => accounts[acct.uri] # NoAccount,
             WriteBack(c, acct)
      PROVE  [Registry!Next]_Registry!vars
  <2>1. [d \in CMs |-> cm'[d].uri]
          \in {[d \in CMs |-> cm[d].uri], [[d \in CMs |-> cm[d].uri] EXCEPT ![c] = acct.uri]}
    BY <1>3, WriteBackRecorded
  <2>2. CASE [d \in CMs |-> cm'[d].uri] = [d \in CMs |-> cm[d].uri]
    <3>1. \A d \in CMs : cm'[d].uri = cm[d].uri
      BY <2>2
    <3>2. QED
      BY <1>2, <3>1, RegistryStutter
  <2>3. CASE [d \in CMs |-> cm'[d].uri] = [[d \in CMs |-> cm[d].uri] EXCEPT ![c] = acct.uri]
    <3>1. Registry!Record(c, acct.uri)
      BY <1>2, <1>3, <2>3 DEF Registry!Record
    <3>2. \E i \in CMs, u \in Keys \cup {NoKey} : Registry!Record(i, u)
      BY <1>3, <3>1 DEF Registry!Record
    <3>3. Registry!Next
      BY <3>2 DEF Registry!Next
    <3>4. QED
      BY <3>3
  <2>4. QED
    BY <2>1, <2>2, <2>3
<1>4. CASE accounts[k] # NoAccount /\ WriteBack(c, [uri |-> k, contacts |-> accounts[k]])
  <2>1. accounts[k] \in Contacts
    BY <1>1, <1>4 DEF TypeOK
  <2>2. QED
    BY <1>1, <1>4, <2>1, <1>3
<1>5. CASE WriteBack(c, [uri |-> NoKey, contacts |-> cmCache[c].contacts])
  <2>1. cmCache[c].contacts \in Contacts
    BY DEF TypeOK, CMObj
  <2>2. QED
    BY <1>5, <2>1, <1>3
<1>6. QED
  BY <1>4, <1>5 DEF SyncExisting

\* A user deleting a Secret drops it from the registry.
LEMMA DeleteSecretRefines ==
    ASSUME TypeOK, NEW n \in Names, DeleteSecret(n)
    PROVE  [Registry!Next]_Registry!vars
<1>1. Registry!Drop(n)
  BY DEF DeleteSecret, Registry!Drop, caVars
<1>2. \E m \in Names : Registry!Drop(m)
  BY <1>1 DEF Registry!Drop
<1>3. Registry!Next
  BY <1>2 DEF Registry!Next
<1>4. QED
  BY <1>3

\* Every step of the controller maps to a step of the registry or a stutter.
LEMMA RefinementStep ==
    ASSUME TypeOK, [Next]_vars
    PROVE  [Registry!Next]_Registry!vars
<1>1. CASE \E c \in CMs : Sync(c)
  <2>1. PICK c \in CMs : Sync(c)
    BY <1>1
  <2>2. CASE SyncRegister(c)
    BY <2>2, SyncRegisterRefines
  <2>3. CASE SyncRegisterFault(c)
    BY <2>3, SyncRegisterFaultRefines
  <2>4. CASE SyncExisting(c)
    BY <2>4, SyncExistingRefines
  <2>5. CASE SyncSkip(c) \/ SyncInvalid(c) \/ SyncRegisterRefused(c) \/ SyncGetRegFault(c)
    BY <2>5, QuietRefines
  <2>6. QED
    BY <2>1, <2>2, <2>3, <2>4, <2>5 DEF Sync
<1>2. CASE Informers \/ Restart
  BY <1>2, QuietRefines
<1>3. CASE \E n \in Names : DeleteSecret(n)
  BY <1>3, DeleteSecretRefines
<1>4. CASE (\E c \in CMs, x \in Contacts : EditContacts(c, x)) \/ \E c \in CMs : DeleteConfigMap(c)
  BY <1>4, QuietRefines
<1>5. CASE UNCHANGED vars
  BY <1>5, RegistryStutter DEF vars
<1>6. QED
  BY <1>1, <1>2, <1>3, <1>4, <1>5 DEF Next, Users

\* The initial states map to the registry's initial state.
LEMMA RefinementInit ==
    ASSUME Init
    PROVE  Registry!Init
BY DEF Init, Registry!Init

\* The account controller implements AccountRegistry under the mapping: the
\* CA's accounts as registered, the Secrets as stored, the status URIs as
\* recorded.
THEOREM Refinement == Spec => ImplementsRegistry
<1>1. Init => Registry!Init
  BY RefinementInit
<1>2. TypeOK /\ [Next]_vars => [Registry!Next]_Registry!vars
  BY RefinementStep
<1>3. QED
  BY <1>1, <1>2, TypeCorrect, PTL DEF Spec, ImplementsRegistry, Registry!Spec

\* A Secret never holds a key the CA has no account for, in every behaviour of
\* the controller: it is a consequence of the refinement and of the registry's
\* own invariant.
THEOREM SecretHoldsRegisteredKeyHolds == Spec => []SecretHoldsRegisteredKey
<1>1. Registry!Spec => [](Registry!TypeOK /\ Registry!Consistent)
  BY Registry!SpecConsistent
<1>2. Registry!Consistent => SecretHoldsRegisteredKey
  BY DEF Registry!Consistent, SecretHoldsRegisteredKey
<1>3. QED
  BY <1>1, <1>2, Refinement, PTL DEF ImplementsRegistry

=============================================================================
