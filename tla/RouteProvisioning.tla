-------------------------- MODULE RouteProvisioning --------------------------
(***************************************************************************)
(* What the Route controller promises about one Route, without caches,    *)
(* queues, challenges or responders: the CA creates each order once, for  *)
(* one identifier, and never forgets that it did; the Route's provisioning *)
(* status records no order, or one the CA created; and a certificate is   *)
(* put on the Route only when the CA issues it for an order whose         *)
(* identifier is the Route's host at that moment.                          *)
(***************************************************************************)
EXTENDS TLAPS

CONSTANTS
    Orders,    \* the orders the CA may create
    Hosts,     \* host names
    NoHost,    \* the identifier of an order not created
    NoOrder,   \* no order recorded
    NoCert,    \* no certificate on the Route
    InitCert   \* the certificate the Route had before the controller ran

VARIABLES
    domain,    \* the identifier of each order, NoHost until it is created
    valid,     \* the orders whose certificate the CA has issued and still holds
    recorded,  \* the order the Route's provisioning status records
    cert,      \* the certificate on the Route
    host       \* the Route's host

vars == <<domain, valid, recorded, cert, host>>

Created == {o \in Orders : domain[o] # NoHost}

TypeOK ==
    /\ domain \in [Orders -> Hosts \cup {NoHost}]
    /\ valid \subseteq Orders
    /\ recorded \in Orders \cup {NoOrder}
    /\ cert \in Orders \cup {NoCert, InitCert}
    /\ host \in Hosts

Init ==
    /\ domain = [o \in Orders |-> NoHost]
    /\ valid = {}
    /\ recorded = NoOrder
    /\ cert \in {NoCert, InitCert}
    /\ host \in Hosts

\* The CA creates order o for identifier h; the status may record it at once.
CreateOrder(o, h) ==
    /\ domain[o] = NoHost
    /\ domain' = [domain EXCEPT ![o] = h]
    /\ recorded' \in {recorded, o}
    /\ UNCHANGED <<valid, cert, host>>

\* The provisioning status is set to a created order, or cleared.
Record(u) ==
    /\ u \in Created \cup {NoOrder}
    /\ recorded' = u
    /\ UNCHANGED <<domain, valid, cert, host>>

\* The CA issues the certificate of created order o; the Route may get it at
\* once, if o's identifier is the Route's host.
Issue(o) ==
    /\ o \in Created
    /\ valid' = valid \cup {o}
    /\ \/ cert' = cert
       \/ /\ domain[o] = host
          /\ cert' = o
    /\ UNCHANGED <<domain, recorded, host>>

\* The CA forgets order o (it answers 404 from now on).
Forget(o) ==
    /\ valid' = valid \ {o}
    /\ UNCHANGED <<domain, recorded, cert, host>>

\* A user changes the Route's host.
EditHost(h) ==
    /\ host' = h
    /\ UNCHANGED <<domain, valid, recorded, cert>>

Next ==
    \/ \E o \in Orders, h \in Hosts : CreateOrder(o, h)
    \/ \E u \in Orders \cup {NoOrder} : Record(u)
    \/ \E o \in Orders : Issue(o) \/ Forget(o)
    \/ \E h \in Hosts : EditHost(h)

Spec == Init /\ [][Next]_vars

\* Every order the status records, every order the CA holds a certificate
\* for and every certificate the controller put on the Route is an order the
\* CA created.
Consistent ==
    /\ recorded # NoOrder => recorded \in Created
    /\ valid \subseteq Created
    /\ cert \in Orders => cert \in Created

-----------------------------------------------------------------------------

\* The sentinels are distinct from what they stand apart from: an order not
\* created has no host name, and no order is the absent or the initial
\* certificate.
Sentinels ==
    /\ NoHost \notin Hosts
    /\ NoCert \notin Orders
    /\ InitCert \notin Orders

\* Consistent holds initially and every step keeps it, given the types.
LEMMA ConsistentStep ==
    ASSUME Sentinels, TypeOK, Consistent, [Next]_vars
    PROVE  TypeOK' /\ Consistent'
<1>1. ASSUME NEW o \in Orders, NEW h \in Hosts, CreateOrder(o, h)
      PROVE  TypeOK' /\ Consistent'
  <2>1. Created' = Created \cup {o}
    BY <1>1 DEF CreateOrder, Created, TypeOK, Sentinels
  <2>2. QED
    BY <1>1, <2>1 DEF CreateOrder, TypeOK, Consistent
<1>2. ASSUME NEW u \in Orders \cup {NoOrder}, Record(u)
      PROVE  TypeOK' /\ Consistent'
  BY <1>2 DEF Record, TypeOK, Consistent, Created
<1>3. ASSUME NEW o \in Orders, Issue(o) \/ Forget(o)
      PROVE  TypeOK' /\ Consistent'
  BY <1>3 DEF Issue, Forget, TypeOK, Consistent, Created
<1>4. ASSUME NEW h \in Hosts, EditHost(h)
      PROVE  TypeOK' /\ Consistent'
  BY <1>4 DEF EditHost, TypeOK, Consistent, Created
<1>5. CASE UNCHANGED vars
  BY <1>5 DEF vars, TypeOK, Consistent, Created
<1>6. QED
  BY <1>1, <1>2, <1>3, <1>4, <1>5 DEF Next

\* In every behaviour of the provisioning specification, the recorded order,
\* the orders the CA holds certificates for and the certificate the
\* controller put on the Route are all orders the CA created.
THEOREM SpecConsistent == Sentinels => (Spec => [](TypeOK /\ Consistent))
<1> SUFFICES ASSUME Sentinels PROVE Spec => [](TypeOK /\ Consistent)
  OBVIOUS
<1>1. Init => TypeOK /\ Consistent
  BY DEF Init, TypeOK, Consistent, Created, Sentinels
<1>2. TypeOK /\ Consistent /\ [Next]_vars => TypeOK' /\ Consistent'
  BY ConsistentStep
<1>3. QED
  BY <1>1, <1>2, PTL DEF Spec

=============================================================================
