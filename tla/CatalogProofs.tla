---------------------------- MODULE CatalogProofs ----------------------------
(* Machine-checked proofs about Catalog, for every value of its constants. *)
EXTENDS Catalog, TLAPS

-----------------------------------------------------------------------------
(* Type correctness.                                                       *)

HandlersTyped ==
  /\ pc \in [Clients -> {"idle", "lookup", "auth", "act"}]
  /\ header \in [Clients -> Secrets \cup {None}]
  /\ todo \in [Clients -> Seq(Calls)]
  /\ \A c \in Clients : pc[c] # "idle" => todo[c] # <<>>

LEMMA FinishTyped ==
  ASSUME TypeOK, NEW c \in Clients, Finish(c)
  PROVE  HandlersTyped'
BY DEF TypeOK, Finish, HandlersTyped

LEMMA AdvanceTyped ==
  ASSUME TypeOK, NEW c \in Clients, pc[c] # "idle", Advance(c)
  PROVE  HandlersTyped'
<1>1. todo[c] \in Seq(Calls) /\ todo[c] # <<>>
  BY DEF TypeOK
<1>2. Tail(todo[c]) \in Seq(Calls)
  BY <1>1
<1>3. QED
  BY <1>2, FinishTyped DEF TypeOK, Advance, HandlersTyped

(* The five calls of the demo seed are calls like any other. *)
LEMMA SeedTyped ==
  ASSUME NEW secret \in Secrets
  PROVE  SeedPlan(secret) \in Seq(Calls) /\ SeedPlan(secret) # <<>>
BY DemoAssumption, EnvsAssumption DEF SeedPlan, Calls

(* The call a handler is about to make. *)
LEMMA HeadTyped ==
  ASSUME TypeOK, NEW c \in Clients, pc[c] = "act"
  PROVE  Head(todo[c]) \in Calls
BY DEF TypeOK

CatalogTyped ==
  /\ hosts \in [Hosts -> Secrets \cup {None}]
  /\ products \in [Products -> ProductRows \cup {None}]
  /\ accounts \subseteq Accounts
  /\ policies \in [Hosts -> Policies \cup {None}]
  /\ orders \in [Refs -> Orders \cup {None}]

LEMMA CallTyped ==
  ASSUME TypeOK, NEW call \in Calls,
         \/ RegisterHost(call) \/ RegisterProduct(call)
         \/ RegisterProviderAccount(call) \/ RegisterHostPolicy(call)
         \/ CreatePayment(call)
  PROVE  CatalogTyped'
<1>1. CASE RegisterHost(call)
  BY <1>1 DEF TypeOK, RegisterHost, Calls, CatalogTyped
<1>2. CASE RegisterProduct(call)
  BY <1>2 DEF TypeOK, RegisterProduct, Calls, ProductRows, CatalogTyped
<1>3. CASE RegisterProviderAccount(call)
  BY <1>3 DEF TypeOK, RegisterProviderAccount, Calls, Accounts, CatalogTyped
<1>4. CASE RegisterHostPolicy(call)
  BY <1>4 DEF TypeOK, RegisterHostPolicy, Calls, CatalogTyped
<1>5. CASE CreatePayment(call)
  <2>1. call \in [op : {"pay"}, host : Hosts, product : Products, env : Envs]
    BY <1>5 DEF CreatePayment, Calls
  <2>2. products[call.product] \in ProductRows
    BY <1>5, <2>1 DEF CreatePayment, Payable, TypeOK
  <2>3. PoliciesFor(call) \subseteq Policies \cup {Free}
    BY <2>1, <2>2 DEF PoliciesFor, GetHostPolicy, ProductRows, TypeOK
  <2>4. AccountsFor(call.host, call.env) \subseteq Accounts
    BY DEF AccountsFor, TypeOK
  <2>5. PICK r \in Refs, o \in Orders : orders' = [orders EXCEPT ![r] = o]
    <3>1. PICK r \in Refs, p \in PoliciesFor(call), a \in AccountsFor(call.host, call.env) :
            orders' = [orders EXCEPT ![r] =
              [host |-> call.host, product |-> call.product, provider |-> a.provider,
               env |-> call.env, policy |-> p]]
      BY <1>5 DEF CreatePayment
    <3>2. a.provider \in Providers
      BY <2>4 DEF Accounts
    <3>3. QED
      BY <2>1, <2>3, <3>1, <3>2 DEF Orders
  <2>6. QED
    BY <1>5, <2>5 DEF TypeOK, CreatePayment, catalog, CatalogTyped
<1>6. QED
  BY <1>1, <1>2, <1>3, <1>4, <1>5

LEMMA TypeStep == TypeOK /\ [Next]_vars => TypeOK'
<1> SUFFICES ASSUME TypeOK, [Next]_vars PROVE TypeOK'
  OBVIOUS
<1>1. ASSUME NEW c \in Clients, Handle(c) PROVE TypeOK'
  <2>1. CASE \E call \in Calls, secret \in Secrets \cup {None} : Receive(c, call, secret)
    <3>1. PICK call \in Calls, secret \in Secrets \cup {None} : Receive(c, call, secret)
      BY <2>1
    <3>2. <<call>> \in Seq(Calls) /\ <<call>> # <<>>
      OBVIOUS
    <3>3. QED
      BY <3>1, <3>2 DEF TypeOK, Receive, catalog
  <2>2. CASE \E secret \in Secrets : ReceiveAdmin(c, SeedPlan(secret))
    <3>1. PICK secret \in Secrets : ReceiveAdmin(c, SeedPlan(secret))
      BY <2>2
    <3>2. QED
      BY <3>1, SeedTyped DEF TypeOK, ReceiveAdmin, catalog
  <2>3. CASE \E call \in Calls : call.op = "pay" /\ ReceiveAdmin(c, <<call>>)
    <3>1. PICK call \in Calls : ReceiveAdmin(c, <<call>>)
      BY <2>3
    <3>2. <<call>> \in Seq(Calls) /\ <<call>> # <<>>
      OBVIOUS
    <3>3. QED
      BY <3>1, <3>2 DEF TypeOK, ReceiveAdmin, catalog
  <2>4. CASE Lookup(c) \/ Authorize(c)
    BY <2>4 DEF TypeOK, Lookup, Authorize, catalog
  <2>5. CASE Perform(c)
    <3>1. CatalogTyped'
      BY <2>5, HeadTyped, CallTyped DEF Perform
    <3>2. HandlersTyped'
      BY <2>5, AdvanceTyped DEF Perform
    <3>3. QED
      BY <2>5, <3>1, <3>2 DEF TypeOK, Perform, CatalogTyped, HandlersTyped
  <2>6. CASE Fail(c)
    BY <2>6, FinishTyped DEF TypeOK, Fail, catalog, HandlersTyped
  <2>7. QED
    BY <1>1, <2>1, <2>2, <2>3, <2>4, <2>5, <2>6 DEF Handle
<1>2. ASSUME NEW h \in Hosts, DeleteHost(h) PROVE TypeOK'
  BY <1>2 DEF TypeOK, DeleteHost
<1>3. ASSUME NEW g \in Products, DeleteProduct(g) PROVE TypeOK'
  BY <1>3 DEF TypeOK, DeleteProduct
<1>4. ASSUME NEW a \in Accounts, DeleteProviderAccount(a) PROVE TypeOK'
  BY <1>4 DEF TypeOK, DeleteProviderAccount
<1>5. CASE UNCHANGED vars
  BY <1>5 DEF TypeOK, vars, catalog
<1>6. QED
  BY <1>1, <1>2, <1>3, <1>4, <1>5 DEF Next

(* Every table and every handler keeps to its values. *)
THEOREM CatalogTypeCorrect == Spec => []TypeOK
<1>1. Init => TypeOK
  BY DEF Init, TypeOK
<1>2. QED
  BY <1>1, TypeStep, PTL DEF Spec

-----------------------------------------------------------------------------
(* Safety: both invariants are inductive together with the types.          *)

Inv == TypeOK /\ OrdersHaveHost /\ Integrity

(* One call of the Orchestrator keeps the tables sound. *)
LEMMA CallSound ==
  ASSUME Inv, NEW call \in Calls, foreignKeys' = foreignKeys,
         \/ RegisterHost(call) \/ RegisterProduct(call)
         \/ RegisterProviderAccount(call) \/ RegisterHostPolicy(call)
         \/ CreatePayment(call)
  PROVE  OrdersHaveHost' /\ Integrity'
<1>0. TypeOK /\ CatalogTyped'
  BY CallTyped DEF Inv
<1>1. CASE RegisterHost(call)
  <2>1. call.host \in Hosts /\ call.secret \in Secrets
    BY <1>1 DEF RegisterHost, Calls
  <2>2. \A h \in Hosts : hosts[h] # None => hosts'[h] # None
    BY <1>0, <1>1, <2>1, NoneAssumption DEF RegisterHost, TypeOK
  <2>3. QED
    BY <1>0, <1>1, <2>2
    DEF Inv, RegisterHost, OrdersHaveHost, Integrity, TypeOK, Orders, Accounts, ProductRows
<1>2. CASE RegisterProduct(call)
  <2>1. call.host \in Hosts /\ call.product \in Products
    BY <1>2 DEF RegisterProduct, Calls
  <2>2. products' = [products EXCEPT ![call.product] =
          [host |-> call.host, active |-> call.active, override |-> call.override]]
    BY <1>2 DEF RegisterProduct
  <2>3. [host |-> call.host, active |-> call.active, override |-> call.override] # None
    <3>1. [host |-> call.host, active |-> call.active, override |-> call.override]
            \in ProductRows
      BY <1>2 DEF RegisterProduct, Calls, ProductRows
    <3>2. QED
      BY <3>1, NoneAssumption
  <2>4. /\ \A g \in Products : products'[g] # None =>
             \/ products[g] # None /\ products'[g].host = products[g].host
             \/ products'[g].host = call.host
        /\ \A g \in Products : products[g] # None => products'[g] # None
    BY <1>0, <2>1, <2>2, <2>3 DEF TypeOK
  <2>5. QED
    BY <1>0, <1>2, <2>1, <2>4
    DEF Inv, RegisterProduct, KeysHold, References, OrdersHaveHost, Integrity, TypeOK, Orders
<1>3. CASE RegisterProviderAccount(call)
  BY <1>0, <1>3
  DEF Inv, RegisterProviderAccount, KeysHold, References, OrdersHaveHost, Integrity
<1>4. CASE RegisterHostPolicy(call)
  <2>1. call.host \in Hosts
    BY <1>4 DEF RegisterHostPolicy, Calls
  <2>2. QED
    BY <1>0, <1>4, <2>1
    DEF Inv, RegisterHostPolicy, KeysHold, References, OrdersHaveHost, Integrity, TypeOK
<1>5. CASE CreatePayment(call)
  <2>0. PICK r \in Refs : \E o :
          /\ o.host = call.host /\ o.product = call.product
          /\ orders' = [orders EXCEPT ![r] = o]
    BY <1>5 DEF CreatePayment
  <2>1. PICK o :
          /\ o.host = call.host /\ o.product = call.product
          /\ orders' = [orders EXCEPT ![r] = o]
    BY <2>0
  <2>2. \A q \in Refs : orders'[q] = orders[q] \/ orders'[q] = o
    BY <1>0, <2>1 DEF TypeOK
  <2>3. hosts[call.host] # None /\ products[call.product] # None /\ UNCHANGED catalog
    BY <1>5 DEF CreatePayment, Payable
  <2>4. QED
    BY <2>1, <2>2, <2>3 DEF Inv, OrdersHaveHost, Integrity, catalog
<1>6. QED
  BY <1>1, <1>2, <1>3, <1>4, <1>5

(* Deleting a host takes its rows with it and spares every order. *)
LEMMA DeleteHostSound ==
  ASSUME Inv, NEW h \in Hosts, DeleteHost(h)
  PROVE  OrdersHaveHost' /\ Integrity'
<1>0. TypeOK
  BY DEF Inv
<1>1. \A k \in Hosts \ {h} : hosts'[k] = hosts[k] /\ policies'[k] = policies[k]
  BY <1>0 DEF DeleteHost, TypeOK
<1>2. \A r \in Refs : orders[r] # None => orders[r].host \in Hosts \ {h}
  BY <1>0 DEF DeleteHost, Ordered, TypeOK, Orders
<1>3. \A g \in Products : products'[g] # None =>
        /\ products'[g] = products[g] /\ products[g] # None
        /\ products[g].host \in Hosts \ {h}
  BY <1>0 DEF DeleteHost, OwnedBy, TypeOK, ProductRows
<1>4. foreignKeys => \A r \in Refs : orders[r] # None =>
        products'[orders[r].product] = products[orders[r].product]
  <2> SUFFICES ASSUME foreignKeys, NEW r \in Refs, orders[r] # None
               PROVE  products'[orders[r].product] = products[orders[r].product]
    OBVIOUS
  <2>1. orders[r].product \in Products
    BY <1>0 DEF TypeOK, Orders
  <2>2. orders[r].product \notin OwnedBy(h)
    BY DEF DeleteHost, Sold
  <2>3. QED
    BY <2>1, <2>2 DEF DeleteHost
<1>5. \A a \in accounts' : a \in accounts /\ a.host \in Hosts \ {h}
  BY <1>0 DEF DeleteHost, TypeOK, Accounts
<1>6. policies'[h] = None
  BY <1>0 DEF DeleteHost, TypeOK
<1>7. OrdersHaveHost'
  BY <1>1, <1>2 DEF Inv, OrdersHaveHost, DeleteHost
<1>8. Integrity'
  BY <1>1, <1>3, <1>4, <1>5, <1>6 DEF Inv, Integrity, DeleteHost
<1>9. QED
  BY <1>7, <1>8

LEMMA InvStep == Inv /\ [Next]_vars => Inv'
<1> SUFFICES ASSUME Inv, [Next]_vars PROVE OrdersHaveHost' /\ Integrity'
  BY TypeStep DEF Inv
<1>0. TypeOK
  BY DEF Inv
<1>1. CASE UNCHANGED <<foreignKeys, catalog, orders>>
  BY <1>1 DEF Inv, OrdersHaveHost, Integrity, catalog
<1>2. ASSUME NEW c \in Clients, Handle(c) PROVE OrdersHaveHost' /\ Integrity'
  <2>1. CASE Perform(c)
    BY <1>0, <2>1, HeadTyped, CallSound DEF Perform
  <2>2. Perform(c) \/ UNCHANGED <<foreignKeys, catalog, orders>>
    BY <1>2 DEF Handle, Receive, ReceiveAdmin, Lookup, Authorize, Fail
  <2>3. QED
    BY <1>1, <2>1, <2>2
<1>3. ASSUME NEW g \in Products, DeleteProduct(g) PROVE OrdersHaveHost' /\ Integrity'
  <2>1. \A p \in Products : products'[p] = products[p] \/ products'[p] = None
    BY <1>0, <1>3 DEF DeleteProduct, TypeOK
  <2>2. foreignKeys => \A r \in Refs : orders[r] # None =>
          products'[orders[r].product] = products[orders[r].product]
    BY <1>0, <1>3 DEF DeleteProduct, Sold, TypeOK, Orders
  <2>3. QED
    BY <1>3, <2>1, <2>2 DEF Inv, DeleteProduct, OrdersHaveHost, Integrity
<1>4. ASSUME NEW a \in Accounts, DeleteProviderAccount(a)
      PROVE  OrdersHaveHost' /\ Integrity'
  BY <1>4 DEF Inv, DeleteProviderAccount, OrdersHaveHost, Integrity
<1>5. CASE UNCHANGED vars
  BY <1>1, <1>5 DEF vars
<1>6. QED
  BY <1>2, <1>3, <1>4, <1>5, DeleteHostSound DEF Next

LEMMA Invariant == Spec => []Inv
<1>1. Init => Inv
  BY DEF Init, Inv, TypeOK, OrdersHaveHost, Integrity
<1>2. QED
  BY <1>1, InvStep, PTL DEF Spec

(* A webhook always finds the host of its order. *)
THEOREM HostsOutliveOrders == Spec => []OrdersHaveHost
<1>1. Inv => OrdersHaveHost
  BY DEF Inv
<1>2. QED
  BY <1>1, Invariant, PTL

(* With foreign keys on, no interleaving of requests leaves an orphan. *)
THEOREM NoOrphans == Spec => []Integrity
<1>1. Inv => Integrity
  BY DEF Inv
<1>2. QED
  BY <1>1, Invariant, PTL

-----------------------------------------------------------------------------
(* Only a call of CreatePayment makes an order. *)
LEMMA NewOrderIsPaid ==
  ASSUME TypeOK, [Next]_vars, NEW r \in Refs, orders[r] = None, orders'[r] # None
  PROVE  \E call \in Calls : CreatePayment(call)
<1>1. PICK c \in Clients : Perform(c)
  BY DEF Next, Handle, Receive, ReceiveAdmin, Lookup, Authorize, Fail, DeleteHost,
         DeleteProduct, DeleteProviderAccount, vars
<1>2. QED
  BY <1>1, HeadTyped DEF Perform, RegisterHost, RegisterProduct, RegisterProviderAccount,
                         RegisterHostPolicy

(* The fee of an order follows the policy of its product or its host in    *)
(* every behaviour in which the policy table can be read: a failing        *)
(* GetHostPolicy is the only cause of the counterexample TLC shows.        *)
THEOREM PolicyHonouredWhenRead ==
  ASSUME "GetHostPolicy" \notin Faults
  PROVE  Spec => PolicyHonoured
<1>1. TypeOK /\ [Next]_vars =>
        [\A r \in Refs : orders[r] = None /\ orders'[r] # None =>
           LET o == orders'[r] IN
           o.policy = Free =>
             products[o.product].override = None /\ policies[o.host] = None]_vars
  <2> SUFFICES ASSUME TypeOK, [Next]_vars, NEW r \in Refs, orders[r] = None, orders'[r] # None,
                      orders'[r].policy = Free
               PROVE  /\ products[orders'[r].product].override = None
                      /\ policies[orders'[r].host] = None
    OBVIOUS
  <2>1. PICK call \in Calls : CreatePayment(call)
    BY NewOrderIsPaid
  <2>2. PICK q \in Refs, p \in PoliciesFor(call), a \in AccountsFor(call.host, call.env) :
          orders' = [orders EXCEPT ![q] =
            [host |-> call.host, product |-> call.product, provider |-> a.provider,
             env |-> call.env, policy |-> p]]
    BY <2>1 DEF CreatePayment
  <2>3. /\ orders'[r].host = call.host
        /\ orders'[r].product = call.product
        /\ p = Free
    <3>1. q = r
      BY <2>2 DEF TypeOK
    <3>2. QED
      BY <2>2, <3>1 DEF TypeOK
  <2>4. /\ call.host \in Hosts /\ call.product \in Products
        /\ products[call.product] \in ProductRows
    BY <2>1 DEF CreatePayment, Payable, Calls, TypeOK
  <2>5. products[call.product].override = None
    <3>1. products[call.product].override \in Policies \cup {None}
      BY <2>4 DEF ProductRows
    <3>2. QED
      BY <2>3, <3>1, PoliciesAssumption DEF PoliciesFor
  <2>6. policies[call.host] = None
    <3>1. GetHostPolicy(call.host) = {policies[call.host]}
      BY DEF GetHostPolicy
    <3>2. policies[call.host] \in Policies \cup {None}
      BY <2>4 DEF TypeOK
    <3>3. QED
      BY <2>3, <2>5, <3>1, <3>2, PoliciesAssumption DEF PoliciesFor
  <2>7. QED
    BY <2>3, <2>5, <2>6
<1>2. QED
  BY <1>1, CatalogTypeCorrect, PTL DEF Spec, PolicyHonoured
=============================================================================
