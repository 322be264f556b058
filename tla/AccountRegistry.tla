--------------------------- MODULE AccountRegistry ---------------------------
(***************************************************************************)
(* What the account controller promises, without caches, queues or RPCs:  *)
(* the CA's accounts only ever grow; an account key Secret is filled only  *)
(* when it is empty and only with the key of an account the CA has; a     *)
(* filled Secret only ever goes away (a user deletes it), it is never      *)
(* rewritten; and the account URI in an issuer's status is either empty or *)
(* names an account the CA has.                                            *)
(***************************************************************************)
EXTENDS TLAPS

CONSTANTS
    Issuers,      \* the issuer configurations
    SecretNames,  \* the names of account key Secrets
    Keys,         \* account keys (an account is named by its key)
    NoKey         \* no key: an empty Secret or an empty URI

VARIABLES
    registered,   \* the keys the CA has an account for
    stored,       \* the key each Secret holds
    recorded      \* the account URI each issuer's status names

vars == <<registered, stored, recorded>>

TypeOK ==
    /\ registered \subseteq Keys
    /\ stored \in [SecretNames -> Keys \cup {NoKey}]
    /\ recorded \in [Issuers -> Keys \cup {NoKey}]

Init ==
    /\ registered = {}
    /\ stored = [n \in SecretNames |-> NoKey]
    /\ recorded = [i \in Issuers |-> NoKey]

\* The CA registers an account whose key nobody keeps.
RegisterOnly(k) ==
    /\ registered' = registered \cup {k}
    /\ UNCHANGED <<stored, recorded>>

\* An account is registered and its key written into the empty Secret n;
\* issuer i may record it at once.
Provision(i, n, k) ==
    /\ stored[n] = NoKey
    /\ registered' = registered \cup {k}
    /\ stored' = [stored EXCEPT ![n] = k]
    /\ recorded' \in {recorded, [recorded EXCEPT ![i] = k]}

\* Issuer i's status is set to an account the CA has, or cleared.
Record(i, u) ==
    /\ u \in registered \cup {NoKey}
    /\ recorded' = [recorded EXCEPT ![i] = u]
    /\ UNCHANGED <<registered, stored>>

\* Secret n goes away.
Drop(n) ==
    /\ stored[n] # NoKey
    /\ stored' = [stored EXCEPT ![n] = NoKey]
    /\ UNCHANGED <<registered, recorded>>

Next ==
    \/ \E k \in Keys : RegisterOnly(k)
    \/ \E i \in Issuers, n \in SecretNames, k \in Keys : Provision(i, n, k)
    \/ \E i \in Issuers, u \in Keys \cup {NoKey} : Record(i, u)
    \/ \E n \in SecretNames : Drop(n)

Spec == Init /\ [][Next]_vars

\* Every key a Secret holds, and every URI an issuer records, is an account
\* the CA has.
Consistent ==
    /\ \A n \in SecretNames : stored[n] # NoKey => stored[n] \in registered
    /\ \A i \in Issuers : recorded[i] # NoKey => recorded[i] \in registered

-----------------------------------------------------------------------------

\* Consistent holds initially and every step keeps it, given the types.
LEMMA ConsistentStep ==
    ASSUME TypeOK, Consistent, [Next]_vars
    PROVE  TypeOK' /\ Consistent'
<1>1. CASE \E k \in Keys : RegisterOnly(k)
  BY <1>1 DEF RegisterOnly, TypeOK, Consistent
<1>2. CASE \E i \in Issuers, n \in SecretNames, k \in Keys : Provision(i, n, k)
  <2>1. PICK i \in Issuers, n \in SecretNames, k \in Keys : Provision(i, n, k)
    BY <1>2
  <2>2. recorded' \in {recorded, [recorded EXCEPT ![i] = k]}
    BY <2>1 DEF Provision
  <2>3. QED
    BY <2>1, <2>2 DEF Provision, TypeOK, Consistent
<1>3. CASE \E i \in Issuers, u \in Keys \cup {NoKey} : Record(i, u)
  BY <1>3 DEF Record, TypeOK, Consistent
<1>4. CASE \E n \in SecretNames : Drop(n)
  BY <1>4 DEF Drop, TypeOK, Consistent
<1>5. CASE UNCHANGED vars
  BY <1>5 DEF vars, TypeOK, Consistent
<1>6. QED
  BY <1>1, <1>2, <1>3, <1>4, <1>5 DEF Next

\* In every behaviour of the abstract registry, Secrets and recorded URIs only
\* ever name accounts the CA has.
THEOREM SpecConsistent == Spec => [](TypeOK /\ Consistent)
<1>1. Init => TypeOK /\ Consistent
  BY DEF Init, TypeOK, Consistent
<1>2. TypeOK /\ Consistent /\ [Next]_vars => TypeOK' /\ Consistent'
  BY ConsistentStep
<1>3. QED
  BY <1>1, <1>2, PTL DEF Spec

=============================================================================
