------------------------------- MODULE Catalog -------------------------------
(***************************************************************************)
(* The registry of host-rutebayar on its SQLite store: hosts, products,    *)
(* provider accounts and fee policies, the HTTP handlers that change them, *)
(* and the part of CreatePayment that turns them into an order.            *)
(*                                                                         *)
(* Granularity.  A handler calls the Orchestrator once to authorize and    *)
(* once more to act, and each call takes and gives back Orchestrator.mu;   *)
(* anything may happen in between.  One call is one step.  A store call    *)
(* that writes is one SQL statement or one transaction.                    *)
(***************************************************************************)
EXTENDS Sequences

CONSTANTS
  Hosts, Products, Providers,
  Envs,          \* environments of accounts and orders
  Secrets,       \* host secrets
  Policies,      \* fee policies that Validate accepts
  Refs,          \* references newReference may draw
  Clients,       \* goroutines that serve a request
  DemoHost, DemoProduct, DemoProvider, DemoPolicy, \* what /admin/demo-seed writes
  Faults,        \* reads whose transient error is taken for an answer
  Free,          \* the default policy: no fee
  None           \* no row, no override

ASSUME EnvsAssumption == "sandbox" \in Envs
ASSUME PoliciesAssumption == Free \notin Policies
ASSUME DemoAssumption ==
  /\ DemoHost \in Hosts /\ DemoProduct \in Products
  /\ DemoProvider \in Providers /\ DemoPolicy \in Policies
ASSUME FaultsAssumption == Faults \subseteq {"GetHost", "GetHostPolicy"}

ProductRows == [host : Hosts, active : BOOLEAN, override : Policies \cup {None}]

Accounts == [host : Hosts, provider : Providers, env : Envs]

Orders == [host : Hosts, product : Products, provider : Providers, env : Envs,
           policy : Policies \cup {Free}]

(* What a handler asks of the Orchestrator once it is authorized. *)
Calls ==
  [op : {"host"}, host : Hosts, secret : Secrets]
    \cup [op : {"product"}, host : Hosts, product : Products, active : BOOLEAN,
          override : Policies \cup {None}]
    \cup [op : {"account"}, host : Hosts, provider : Providers, env : Envs]
    \cup [op : {"policy"}, host : Hosts, policy : Policies]
    \cup [op : {"pay"}, host : Hosts, product : Products, env : Envs]

ASSUME NoneAssumption ==
  None \notin Secrets \cup Policies \cup ProductRows \cup Orders \cup {Free}

VARIABLES
  foreignKeys, \* whether the DSN turns PRAGMA foreign_keys on; never changes
  hosts,       \* hosts.host_secret by id, or None
  products,    \* products by id, or None
  accounts,    \* host_provider_accounts
  policies,    \* host_fee_policies by host, or None
  orders,      \* payment_orders by reference, or None
  pc,          \* where each handler is
  header,      \* the X-Host-Secret of its request
  todo         \* the calls it still makes

catalog == <<hosts, products, accounts, policies>>
vars == <<foreignKeys, catalog, orders, pc, header, todo>>

(* The state invariant the other properties rely on: every column and      *)
(* every local variable keeps to the values it can hold.                   *)
TypeOK ==
  /\ foreignKeys \in BOOLEAN
  /\ hosts \in [Hosts -> Secrets \cup {None}]
  /\ products \in [Products -> ProductRows \cup {None}]
  /\ accounts \subseteq Accounts
  /\ policies \in [Hosts -> Policies \cup {None}]
  /\ orders \in [Refs -> Orders \cup {None}]
  /\ pc \in [Clients -> {"idle", "lookup", "auth", "act"}]
  /\ header \in [Clients -> Secrets \cup {None}]
  /\ todo \in [Clients -> Seq(Calls)]
  /\ \A c \in Clients : pc[c] # "idle" => todo[c] # <<>>

Init ==
  /\ foreignKeys \in BOOLEAN
  /\ hosts = [h \in Hosts |-> None]
  /\ products = [g \in Products |-> None]
  /\ accounts = {}
  /\ policies = [h \in Hosts |-> None]
  /\ orders = [r \in Refs |-> None]
  /\ pc = [c \in Clients |-> "idle"]
  /\ header = [c \in Clients |-> None]
  /\ todo = [c \in Clients |-> <<>>]

-----------------------------------------------------------------------------
(* Faulty variants of definitions below, each what a plausible slip in the *)
(* code would make of one of them.  No action uses them: the mutants of    *)
(* PROJECT.json put one in the place of the definition it varies.          *)

OrderedUnchecked(h) == FALSE
ReferencesUnchecked(h) == TRUE
AdvanceBusy(c) ==
  /\ todo' = [todo EXCEPT ![c] = Tail(todo[c])]
  /\ UNCHANGED <<pc, header>>

-----------------------------------------------------------------------------
(* The handlers.                                                           *)

(* POST /register/... and POST /payments. *)
Receive(c, call, secret) ==
  /\ pc[c] = "idle"
  /\ pc' = [pc EXCEPT ![c] = IF call.op = "host" THEN "lookup" ELSE "auth"]
  /\ header' = [header EXCEPT ![c] = secret]
  /\ todo' = [todo EXCEPT ![c] = <<call>>]
  /\ UNCHANGED <<foreignKeys, catalog, orders>>

(* handleDemoSeed, with a fresh random secret: five calls, one by one. *)
SeedPlan(secret) ==
  << [op |-> "host", host |-> DemoHost, secret |-> secret],
     [op |-> "product", host |-> DemoHost, product |-> DemoProduct,
      active |-> TRUE, override |-> None],
     [op |-> "account", host |-> DemoHost, provider |-> DemoProvider, env |-> "sandbox"],
     [op |-> "policy", host |-> DemoHost, policy |-> DemoPolicy],
     [op |-> "pay", host |-> DemoHost, product |-> DemoProduct, env |-> "sandbox"] >>

(* A UI session needs no host secret: handleDemoSeed and                   *)
(* handleCreateTestPayment.                                                *)
ReceiveAdmin(c, plan) ==
  /\ pc[c] = "idle"
  /\ pc' = [pc EXCEPT ![c] = "act"]
  /\ todo' = [todo EXCEPT ![c] = plan]
  /\ UNCHANGED <<foreignKeys, catalog, orders, header>>

(* What a lookup may return; None is any error, that of a missing row or a *)
(* transient one.                                                          *)
GetHost(h) == {hosts[h]} \cup {None : f \in Faults \cap {"GetHost"}}

(* handleRegisterHost asks for the secret of a host that exists; a failed  *)
(* lookup is taken for one that found no host.                             *)
Lookup(c) ==
  /\ pc[c] = "lookup"
  /\ \E found \in GetHost(Head(todo[c]).host) :
       pc' = [pc EXCEPT ![c] = IF found # None THEN "auth" ELSE "act"]
  /\ UNCHANGED <<foreignKeys, catalog, orders, header, todo>>

(* authorizeHostSecret *)
Authorize(c) ==
  /\ pc[c] = "auth"
  /\ hosts[Head(todo[c]).host] # None
  /\ hosts[Head(todo[c]).host] = header[c]
  /\ pc' = [pc EXCEPT ![c] = "act"]
  /\ UNCHANGED <<foreignKeys, catalog, orders, header, todo>>

Finish(c) ==
  /\ pc' = [pc EXCEPT ![c] = "idle"]
  /\ header' = [header EXCEPT ![c] = None]
  /\ todo' = [todo EXCEPT ![c] = <<>>]

(* A call is refused, or the store returns an error: 400, 401 or 500, and  *)
(* what earlier calls of the request did stays done.                       *)
Fail(c) ==
  /\ pc[c] # "idle"
  /\ Finish(c)
  /\ UNCHANGED <<foreignKeys, catalog, orders>>

(* A call succeeded: the handler makes the next one or answers. *)
Advance(c) ==
  IF Tail(todo[c]) = <<>>
    THEN Finish(c)
    ELSE /\ todo' = [todo EXCEPT ![c] = Tail(todo[c])]
         /\ UNCHANGED <<pc, header>>

-----------------------------------------------------------------------------
(* The Orchestrator's calls on SQLiteStore.                                *)

(* FOREIGN KEY(host_id) REFERENCES hosts(id) *)
References(h) == hosts[h] # None

KeysHold(h) == foreignKeys => References(h)

RegisterHost(call) ==
  /\ call.op = "host"
  /\ hosts' = [hosts EXCEPT ![call.host] = call.secret]
  /\ UNCHANGED <<products, accounts, policies, orders>>

(* ON CONFLICT(id) also moves a product to the host that registers it. *)
RegisterProduct(call) ==
  /\ call.op = "product"
  /\ KeysHold(call.host)
  /\ products' = [products EXCEPT ![call.product] =
       [host |-> call.host, active |-> call.active, override |-> call.override]]
  /\ UNCHANGED <<hosts, accounts, policies, orders>>

RegisterProviderAccount(call) ==
  /\ call.op = "account"
  /\ KeysHold(call.host)
  /\ accounts' = accounts \cup
       {[host |-> call.host, provider |-> call.provider, env |-> call.env]}
  /\ UNCHANGED <<hosts, products, policies, orders>>

RegisterHostPolicy(call) ==
  /\ call.op = "policy"
  /\ KeysHold(call.host)
  /\ policies' = [policies EXCEPT ![call.host] = call.policy]
  /\ UNCHANGED <<hosts, products, accounts, orders>>

(* None is any error here, too. *)
GetHostPolicy(h) == {policies[h]} \cup {None : f \in Faults \cap {"GetHostPolicy"}}

(* The product's policy, else the host's, else, also when the host's       *)
(* cannot be read, the default.                                            *)
PoliciesFor(call) ==
  LET override == products[call.product].override
  IN IF override # None
       THEN {override}
       ELSE {IF own = None THEN Free ELSE own : own \in GetHostPolicy(call.host)}

(* selectProvider: an account of the environment asked for, else a sandbox *)
(* account, else any; SQL leaves the order of the rows open.               *)
AccountsFor(h, env) ==
  LET own == {a \in accounts : a.host = h}
      In(e) == {a \in own : a.env = e}
  IN CASE In(env) # {} -> In(env)
       [] In(env) = {} /\ In("sandbox") # {} -> In("sandbox")
       [] OTHER -> own

(* What CreatePayment asks of host and product; whether the policy leaves  *)
(* a settlement is FeePolicy's, and a refusal is a Fail.                   *)
Payable(call) ==
  /\ hosts[call.host] # None
  /\ products[call.product] # None
  /\ products[call.product].active
  /\ products[call.product].host = call.host

CreatePayment(call) ==
  /\ call.op = "pay"
  /\ Payable(call)
  /\ \E r \in Refs, p \in PoliciesFor(call), a \in AccountsFor(call.host, call.env) :
       /\ orders[r] = None                        \* newReference is fresh
       /\ orders' = [orders EXCEPT ![r] =
            [host |-> call.host, product |-> call.product, provider |-> a.provider,
             env |-> call.env, policy |-> p]]
  /\ UNCHANGED catalog

Perform(c) ==
  LET call == Head(todo[c]) IN
  /\ pc[c] = "act"
  /\ \/ RegisterHost(call)
     \/ RegisterProduct(call)
     \/ RegisterProviderAccount(call)
     \/ RegisterHostPolicy(call)
     \/ CreatePayment(call)
  /\ Advance(c)
  /\ UNCHANGED foreignKeys

-----------------------------------------------------------------------------
(* The /delete/ routes of a UI session.                                    *)

Ordered(h) == \E r \in Refs : orders[r] # None /\ orders[r].host = h

Sold(g) == \E r \in Refs : orders[r] # None /\ orders[r].product = g

OwnedBy(h) == {g \in Products : products[g] # None /\ products[g].host = h}

(* One transaction, which the foreign keys of orders can roll back. *)
DeleteHost(h) ==
  /\ ~Ordered(h)
  /\ foreignKeys => \A g \in OwnedBy(h) : ~Sold(g)
  /\ accounts' = {a \in accounts : a.host # h}
  /\ products' = [g \in Products |-> IF g \in OwnedBy(h) THEN None ELSE products[g]]
  /\ policies' = [policies EXCEPT ![h] = None]
  /\ hosts' = [hosts EXCEPT ![h] = None]
  /\ UNCHANGED <<foreignKeys, orders, pc, header, todo>>

DeleteProduct(g) ==
  /\ foreignKeys => ~Sold(g)
  /\ products' = [products EXCEPT ![g] = None]
  /\ UNCHANGED <<foreignKeys, hosts, accounts, policies, orders, pc, header, todo>>

DeleteProviderAccount(a) ==
  /\ accounts' = accounts \ {a}
  /\ UNCHANGED <<foreignKeys, hosts, products, policies, orders, pc, header, todo>>

-----------------------------------------------------------------------------
Handle(c) ==
  \/ \E call \in Calls, secret \in Secrets \cup {None} : Receive(c, call, secret)
  \/ \E secret \in Secrets : ReceiveAdmin(c, SeedPlan(secret))
  \/ \E call \in Calls : call.op = "pay" /\ ReceiveAdmin(c, <<call>>)
  \/ Lookup(c)
  \/ Authorize(c)
  \/ Perform(c)
  \/ Fail(c)

Next ==
  \/ \E c \in Clients : Handle(c)
  \/ \E h \in Hosts : DeleteHost(h)
  \/ \E g \in Products : DeleteProduct(g)
  \/ \E a \in Accounts : DeleteProviderAccount(a)

Spec == Init /\ [][Next]_vars

-----------------------------------------------------------------------------
(* Safety.                                                                 *)

(* The host of an order is never gone, even on a database without foreign  *)
(* keys: a webhook for the order can always be authorized, because         *)
(* authorizeWebhookSignature finds the secret of its host.                 *)
OrdersHaveHost == \A r \in Refs : orders[r] # None => hosts[orders[r].host] # None

(* On a database with foreign keys no request leaves an orphan, whatever   *)
(* was deleted between its authorization and its write.                    *)
Integrity ==
  foreignKeys =>
    /\ \A g \in Products : products[g] # None => hosts[products[g].host] # None
    /\ \A a \in accounts : hosts[a.host] # None
    /\ \A h \in Hosts : policies[h] # None => hosts[h] # None
    /\ \A r \in Refs : orders[r] # None => products[orders[r].product] # None

-----------------------------------------------------------------------------
(* Statements of the repository that the code does not keep.               *)

(* README.md:78-79: sandbox is for testing, production has keys and        *)
(* credentials of its own: an order is placed with an account of the       *)
(* environment it names.                                                   *)
EnvironmentsSeparate ==
  [][\A r \in Refs : orders[r] = None /\ orders'[r] # None =>
       [host |-> orders'[r].host, provider |-> orders'[r].provider,
        env |-> orders'[r].env] \in accounts]_vars

(* README.md:74: the fee follows the policy of the host or the product: an *)
(* order is free of fees only where neither has a policy.                  *)
PolicyHonoured ==
  [][\A r \in Refs : orders[r] = None /\ orders'[r] # None =>
       LET o == orders'[r] IN
       o.policy = Free =>
         products[o.product].override = None /\ policies[o.host] = None]_vars
=============================================================================
