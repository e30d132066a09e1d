------------------------------ MODULE Payments ------------------------------
(***************************************************************************)
(* The payment life cycle of host-rutebayar on its SQLite store:           *)
(* Orchestrator.CreatePayment, the webhook and replay handlers with their  *)
(* retry loop, Orchestrator.ReconcileWebhook and SQLiteStore.SaveOrder.    *)
(*                                                                         *)
(* Granularity.  Every exported Orchestrator method holds Orchestrator.mu  *)
(* from its first line to its return, so a call is one step, with one      *)
(* exception: CreatePayment calls the provider gateway while it holds the  *)
(* mutex, and the outside world and a crash can act in the middle.  It is  *)
(* three steps, and `creating` says who holds the mutex in between.        *)
(* SaveOrder is one SQL transaction: all of it is stored or none of it.    *)
(***************************************************************************)
EXTENDS Integers

CONSTANTS
  Refs,            \* references newReference may draw
  Providers,       \* provider names
  Keys,            \* idempotency keys that webhooks carry
  HookStatuses,    \* status strings that webhooks carry
  Quotes,          \* settlement amounts and policy of an accepted creation
  GatewayStatuses, \* InvoiceResult.ProviderStatus, "" when it is left empty
  Workers,         \* goroutines that serve /webhooks/ and replay requests
  MaxAttempts,     \* RetryPolicy.MaxAttempts
  Faults,          \* store calls that may return a transient error
  None             \* no order, no row, no invoice, no request, mutex free

Terminal == {"success", "failed", "expired"}

Statuses == Terminal \cup {"created"} \cup (GatewayStatuses \ {""})

(* The idempotency keys of ledger rows: the key CreatePayment writes,      *)
(* named by its reference, and the webhook keys the fallback writes.  The  *)
(* two are not kept apart: a webhook may carry the key of a creation.      *)
LedgerKeys == Refs \cup Keys

Orders == [provider : Providers, quote : Quotes, status : Statuses]

Rows == [ref : Refs, quote : Quotes, sum : {"hash", "id"}, id : Nat]

Requests ==
  [ref : Refs, provider : Providers, status : HookStatuses, key : Keys]

Creations ==
  [ref : Refs, provider : Providers, quote : Quotes,
   answer : GatewayStatuses \cup {None}]

(* What a handler answers: nothing yet, 401, a 400 that a repetition will  *)
(* not cure, a 400 after the attempts or the client ran out, or the order  *)
(* status it acknowledges.                                                 *)
Errors == {"unauthorized", "rejected", "gave up"}
Replies == {"none"} \cup Errors \cup Statuses

ASSUME MaxAttemptsAssumption == MaxAttempts \in Nat \ {0}
ASSUME FaultsAssumption ==
  Faults \subseteq {"GetOrder", "GetHost", "GetLedger", "SaveOrder"}
ASSUME GatewayAssumption ==
  GatewayStatuses \cap (Errors \cup {"none"}) = {}
ASSUME NoneAssumption ==
  /\ None \notin Orders
  /\ None \notin Rows
  /\ None \notin Requests
  /\ None \notin Creations
  /\ None \notin GatewayStatuses
  /\ None \notin Providers
  /\ None \notin Quotes

VARIABLES
  \* the SQLite file: it survives a crash
  orders,      \* payment_orders
  ledger,      \* payment_order_ledgers, by its UNIQUE idempotency_key
  lastRow,     \* the AUTOINCREMENT counter of payment_order_ledgers
  \* the providers' side
  invoices,    \* invoices[r]: provider that holds an invoice for r, or None
  \* the memory of the process
  creating,    \* the CreatePayment call that holds Orchestrator.mu, or None
  idempotent,  \* Orchestrator.idempotent: <<reference, provider, key>>
  audit,       \* AuditTrail: how often each event was appended per reference
  deadLetters, \* DeadLetterQueue: what has been pushed
  \* the request goroutines
  pc,          \* where the handler is
  req,         \* the request it serves
  tries,       \* attempts of ReconcileWebhookWithRetryWithAttempts so far
  reply,       \* its answer
  \* the senders' side
  acked        \* <<request, status>> of every 2xx answer that arrived

store   == <<orders, ledger, lastRow>>
memory  == <<creating, idempotent, audit, deadLetters>>
handler == <<pc, req, tries, reply>>
vars    == <<store, invoices, memory, handler, acked>>

Events == {"payment_created", "payment_webhook"}

(* Where a handler can be: reading the order and its host, checking the    *)
(* signature, before a call of ReconcileWebhook, in a delay, answering.    *)
Places == {"idle", "lookup", "auth", "attempt", "backoff", "replied"}

(* The state invariant every other property relies on: each variable keeps *)
(* to the values its column, map or local variable can hold.               *)
TypeOK ==
  /\ orders \in [Refs -> Orders \cup {None}]
  /\ ledger \in [LedgerKeys -> Rows \cup {None}]
  /\ lastRow \in Nat
  /\ invoices \in [Refs -> Providers \cup {None}]
  /\ creating \in Creations \cup {None}
  /\ idempotent \subseteq Refs \X Providers \X Keys
  /\ audit \in [Events -> [Refs -> Nat]]
  /\ deadLetters \subseteq Requests
  /\ pc \in [Workers -> Places]
  /\ req \in [Workers -> Requests \cup {None}]
  /\ tries \in [Workers -> 0 .. MaxAttempts]
  /\ reply \in [Workers -> Replies]
  /\ acked \subseteq Requests \X Statuses
  /\ \A w \in Workers :
       /\ pc[w] # "idle" => req[w] \in Requests
       /\ pc[w] # "replied" => tries[w] < MaxAttempts

Init ==
  /\ orders = [r \in Refs |-> None]
  /\ ledger = [k \in LedgerKeys |-> None]
  /\ lastRow = 0
  /\ invoices = [r \in Refs |-> None]
  /\ creating = None
  /\ idempotent = {}
  /\ audit = [e \in Events |-> [r \in Refs |-> 0]]
  /\ deadLetters = {}
  /\ pc = [w \in Workers |-> "idle"]
  /\ req = [w \in Workers |-> None]
  /\ tries = [w \in Workers |-> 0]
  /\ reply = [w \in Workers |-> "none"]
  /\ acked = {}

-----------------------------------------------------------------------------
(* Faulty variants of definitions below, each what a plausible slip in the *)
(* code would make of one of them.  No action uses them: the mutants of    *)
(* PROJECT.json put one in the place of the definition it varies, to show  *)
(* that a property notices.                                                *)

CreationKeySansReference(r) == CHOOSE any \in Refs : TRUE
AnsweredEarly(c) == TRUE
LastAttemptLate(n) == n > MaxAttempts
FinalUnlessExpired(order) == order.status \in Terminal \ {"expired"}
SameOutcomeForgotten(order, d) == FALSE
OutcomeBeforeKey(d) ==
  /\ <<d.ref, d.provider, d.key>> \in idempotent
  /\ orders[d.ref].status \notin Terminal
CreateSaveHalf ==
  /\ creating # None /\ creating.answer \notin {None, ""}
  /\ orders' = [orders EXCEPT ![creating.ref] =
       [provider |-> creating.provider, quote |-> creating.quote, status |-> creating.answer]]
  /\ creating' = None
  /\ UNCHANGED <<ledger, lastRow, invoices, idempotent, audit, deadLetters, handler, acked>>
FinalNever(order) == FALSE
UpsertKeepingSum(k, line) ==
  IF ledger[k] = None
    THEN /\ ledger' = [ledger EXCEPT ![k] =
              [ref |-> line.ref, quote |-> line.quote, sum |-> line.sum,
               id |-> lastRow + 1]]
         /\ lastRow' = lastRow + 1
    ELSE /\ ledger' = [ledger EXCEPT ![k].quote = line.quote]
         /\ UNCHANGED lastRow
FailAttemptUncounted(w) ==
  /\ pc' = [pc EXCEPT ![w] = "backoff"]
  /\ UNCHANGED <<req, tries, reply>>

-----------------------------------------------------------------------------
(* The store.                                                              *)

(* INSERT ... ON CONFLICT(idempotency_key) DO UPDATE: a new row takes the  *)
(* next id; an old one keeps its id AND the order it belongs to.           *)
Upsert(k, line) ==
  IF ledger[k] = None
    THEN /\ ledger' = [ledger EXCEPT ![k] =
              [ref |-> line.ref, quote |-> line.quote, sum |-> line.sum,
               id |-> lastRow + 1]]
         /\ lastRow' = lastRow + 1
    ELSE /\ ledger' = [ledger EXCEPT ![k].quote = line.quote,
                                     ![k].sum = line.sum]
         /\ UNCHANGED lastRow

(* SQLiteStore.SaveOrder, when its transaction commits. *)
SaveOrder(r, order, k, line) ==
  /\ orders' = [orders EXCEPT ![r] = order]
  /\ Upsert(k, line)

(* SQLiteStore.GetLedger: the key of the row of r with the highest id; the *)
(* empty set is "ledger not found".                                        *)
RowsOf(r) == {k \in LedgerKeys : ledger[k] # None /\ ledger[k].ref = r}
LatestRow(r) ==
  {k \in RowsOf(r) : \A j \in RowsOf(r) : ledger[j].id <= ledger[k].id}

Line(r, q, s) == [ref |-> r, quote |-> q, sum |-> s]

Log(event, r) == audit' = [audit EXCEPT ![event][r] = @ + 1]

-----------------------------------------------------------------------------
(* CreatePayment.  Which host, product, policy and provider account lead   *)
(* to a provider and a quote, and which refuse the creation, is Catalog's  *)
(* and FeePolicy's business; a refusal changes nothing here.               *)

(* "policy:<policy id>|<reference>" *)
CreationKey(r) == r

Answered(c) == c.answer # None

CreateBegin(r, p, q) ==
  /\ creating = None
  /\ orders[r] = None /\ invoices[r] = None     \* newReference is fresh
  /\ creating' = [ref |-> r, provider |-> p, quote |-> q, answer |-> None]
  /\ UNCHANGED <<store, invoices, idempotent, audit, deadLetters, handler, acked>>

(* The provider makes the invoice and CreateInvoice returns it. *)
GatewayAnswers(s) ==
  /\ creating # None
  /\ creating.answer = None
  /\ invoices' = [invoices EXCEPT ![creating.ref] = creating.provider]
  /\ creating' = [creating EXCEPT !.answer = s]
  /\ UNCHANGED <<store, idempotent, audit, deadLetters, handler, acked>>

(* CreateInvoice returns an error: refused before there is an invoice, or  *)
(* its answer lost after there is one.                                     *)
GatewayFails(issued) ==
  /\ creating # None
  /\ creating.answer = None
  /\ invoices' = IF issued
                   THEN [invoices EXCEPT ![creating.ref] = creating.provider]
                   ELSE invoices
  /\ creating' = None
  /\ UNCHANGED <<store, idempotent, audit, deadLetters, handler, acked>>

CreateSave ==
  /\ creating # None
  /\ Answered(creating)
  /\ LET c == creating
         status == IF c.answer = "" THEN "created" ELSE c.answer
     IN /\ SaveOrder(c.ref,
                     [provider |-> c.provider, quote |-> c.quote, status |-> status],
                     CreationKey(c.ref), Line(c.ref, c.quote, "hash"))
        /\ Log("payment_created", c.ref)
  /\ creating' = None
  /\ UNCHANGED <<invoices, idempotent, deadLetters, handler, acked>>

CreateSaveFails ==
  /\ "SaveOrder" \in Faults
  /\ creating # None
  /\ Answered(creating)
  /\ creating' = None
  /\ UNCHANGED <<store, invoices, idempotent, audit, deadLetters, handler, acked>>

Create ==
  \/ \E r \in Refs, p \in Providers, q \in Quotes : CreateBegin(r, p, q)
  \/ \E s \in GatewayStatuses : GatewayAnswers(s)
  \/ \E issued \in BOOLEAN : GatewayFails(issued)
  \/ CreateSave
  \/ CreateSaveFails

-----------------------------------------------------------------------------
(* The webhook and replay handlers.                                        *)

Answer(w, a) ==
  /\ pc' = [pc EXCEPT ![w] = "replied"]
  /\ reply' = [reply EXCEPT ![w] = a]
  /\ UNCHANGED <<req, tries>>

(* A well-formed request arrives; a replay comes from a UI session and     *)
(* needs no signature.  Its key may be any text, also "policy:...|r", but  *)
(* nobody names the reference r before it has left the process: its 64     *)
(* random bits are drawn by newReference and first seen in an invoice.     *)
Receive(w, d, entry) ==
  /\ pc[w] = "idle"
  /\ d.key \in Refs => invoices[d.key] # None
  /\ pc' = [pc EXCEPT ![w] = entry]
  /\ req' = [req EXCEPT ![w] = d]
  /\ UNCHANGED <<store, invoices, memory, tries, reply, acked>>

(* authorizeWebhookSignature reads the order and its host, each under the  *)
(* mutex, and then checks the signature without it.  The two reads are one *)
(* step: neither changes anything, no order ever vanishes or changes its   *)
(* host, and the host's row is as the second read finds it.                *)
Lookup(w) ==
  /\ pc[w] = "lookup"
  /\ creating = None
  /\ orders[req[w].ref] # None
  /\ pc' = [pc EXCEPT ![w] = "auth"]
  /\ UNCHANGED <<store, invoices, memory, req, tries, reply, acked>>

(* There is no such order, or the order or its host cannot be read.        *)
LookupFails(w) ==
  /\ pc[w] = "lookup"
  /\ creating = None
  /\ orders[req[w].ref] = None \/ {"GetOrder", "GetHost"} \cap Faults # {}
  /\ Answer(w, "unauthorized")
  /\ UNCHANGED <<store, invoices, memory, acked>>

(* VerifySignature accepts or refuses.  What it decides by, the signature, *)
(* its age and the host's secret, is Delivery's business: an input here.   *)
Authorize(w) ==
  /\ pc[w] = "auth"
  /\ pc' = [pc EXCEPT ![w] = "attempt"]
  /\ UNCHANGED <<store, invoices, memory, req, tries, reply, acked>>

Refuse(w) ==
  /\ pc[w] = "auth"
  /\ Answer(w, "unauthorized")
  /\ UNCHANGED <<store, invoices, memory, acked>>

(* ReconcileWebhook starts: the retry loop is at its call and the mutex is *)
(* free.                                                                   *)
Locked(w) == pc[w] = "attempt" /\ creating = None

LastAttempt(n) == n >= MaxAttempts

(* A retryable error ends the attempt. *)
FailAttempt(w) ==
  LET n == tries[w] + 1 IN
  IF LastAttempt(n)
    THEN Answer(w, "gave up")
    ELSE /\ pc' = [pc EXCEPT ![w] = "backoff"]
         /\ tries' = [tries EXCEPT ![w] = n]
         /\ UNCHANGED <<req, reply>>

Final(order) == order.status \in Terminal

Duplicate(d) == <<d.ref, d.provider, d.key>> \in idempotent

SameOutcome(order, d) == order.status = d.status

Supported(s) == s \in Terminal

ReadFails(w) ==
  /\ Locked(w)
  /\ "GetOrder" \in Faults
  /\ FailAttempt(w)
  /\ UNCHANGED <<store, invoices, memory, acked>>

(* The order is known, is this provider's, and the request is about it. *)
Known(d) == orders[d.ref] # None /\ orders[d.ref].provider = d.provider

Reject(w) ==
  LET d == req[w] IN
  /\ Locked(w)
  /\ \/ ~Known(d)
     \/ /\ Known(d)
        /\ ~Duplicate(d)
        /\ Final(orders[d.ref])
        /\ ~SameOutcome(orders[d.ref], d)
  /\ Answer(w, "rejected")
  /\ UNCHANGED <<store, invoices, memory, acked>>

Repeat(w) ==
  LET d == req[w] IN
  /\ Locked(w)
  /\ Known(d)
  /\ \/ Duplicate(d)
     \/ Final(orders[d.ref]) /\ SameOutcome(orders[d.ref], d)
  /\ Answer(w, orders[d.ref].status)
  /\ UNCHANGED <<store, invoices, memory, acked>>

(* The request may change the order. *)
Fresh(d) == Known(d) /\ ~Duplicate(d) /\ ~Final(orders[d.ref])

DeadLetter(w) ==
  LET d == req[w] IN
  /\ Locked(w)
  /\ Fresh(d)
  /\ ~Supported(d.status)
  /\ deadLetters' = deadLetters \cup {d}
  /\ Answer(w, "rejected")
  /\ UNCHANGED <<store, invoices, creating, idempotent, audit, acked>>

(* The idempotency_key of a ledger line made up from the order. *)
FallbackKey(d) == d.key

(* The order is saved again under its new status, with the ledger line     *)
(* that was read, or with a line made up from the order when it could not  *)
(* be read: policy id for a checksum, the webhook's key for a key.         *)
Settle(w) ==
  LET d == req[w]
      order == [orders[d.ref] EXCEPT !.status = d.status]
  IN
  /\ Locked(w)
  /\ Fresh(d)
  /\ Supported(d.status)
  /\ \/ \E k \in LatestRow(d.ref) :
          SaveOrder(d.ref, order, k, Line(d.ref, ledger[k].quote, ledger[k].sum))
     \/ /\ LatestRow(d.ref) = {} \/ "GetLedger" \in Faults
        /\ SaveOrder(d.ref, order, FallbackKey(d), Line(d.ref, order.quote, "id"))
  /\ idempotent' = idempotent \cup {<<d.ref, d.provider, d.key>>}
  /\ Log("payment_webhook", d.ref)
  /\ Answer(w, d.status)
  /\ UNCHANGED <<invoices, creating, deadLetters, acked>>

SaveFails(w) ==
  /\ Locked(w)
  /\ "SaveOrder" \in Faults
  /\ Fresh(req[w])
  /\ Supported(req[w].status)
  /\ FailAttempt(w)
  /\ UNCHANGED <<store, invoices, memory, acked>>

Reconcile(w) ==
  \/ ReadFails(w)
  \/ Reject(w)
  \/ Repeat(w)
  \/ DeadLetter(w)
  \/ Settle(w)
  \/ SaveFails(w)

(* DelayForAttempt has passed. *)
Backoff(w) ==
  /\ pc[w] = "backoff"
  /\ pc' = [pc EXCEPT ![w] = "attempt"]
  /\ UNCHANGED <<store, invoices, memory, req, tries, reply, acked>>

(* The client has gone: the loop sees ctx.Done before a call or in a delay *)
Cancel(w) ==
  /\ pc[w] \in {"attempt", "backoff"}
  /\ Answer(w, "gave up")
  /\ UNCHANGED <<store, invoices, memory, acked>>

(* The answer is written and the goroutine ends; on a broken connection    *)
(* the sender does not get it.                                             *)
Respond(w, delivered) ==
  /\ pc[w] = "replied"
  /\ acked' = IF delivered /\ reply[w] \in Statuses
                THEN acked \cup {<<req[w], reply[w]>>}
                ELSE acked
  /\ pc' = [pc EXCEPT ![w] = "idle"]
  /\ req' = [req EXCEPT ![w] = None]
  /\ tries' = [tries EXCEPT ![w] = 0]
  /\ reply' = [reply EXCEPT ![w] = "none"]
  /\ UNCHANGED <<store, invoices, memory>>

Serve(w) ==
  \/ \E d \in Requests, entry \in {"lookup", "attempt"} : Receive(w, d, entry)
  \/ Lookup(w)
  \/ LookupFails(w)
  \/ Authorize(w)
  \/ Refuse(w)
  \/ Reconcile(w)
  \/ Backoff(w)
  \/ Cancel(w)
  \/ \E delivered \in BOOLEAN : Respond(w, delivered)

-----------------------------------------------------------------------------
(* The process dies and starts again: main builds a new Orchestrator, with *)
(* empty maps, on the same database.                                       *)
Crash ==
  /\ creating' = None
  /\ idempotent' = {}
  /\ audit' = [e \in Events |-> [r \in Refs |-> 0]]
  /\ deadLetters' = {}
  /\ pc' = [w \in Workers |-> "idle"]
  /\ req' = [w \in Workers |-> None]
  /\ tries' = [w \in Workers |-> 0]
  /\ reply' = [w \in Workers |-> "none"]
  /\ UNCHANGED <<store, invoices, acked>>

Next ==
  \/ Create
  \/ \E w \in Workers : Serve(w)
  \/ Crash

Spec == Init /\ [][Next]_vars

-----------------------------------------------------------------------------
(* Safety.                                                                 *)

(* A 2xx answer is never taken back: the status it reported is terminal    *)
(* and is the order's stored status from then on, through redeliveries,    *)
(* replays, retries and restarts (handleWebhook, handleReplayCallback).    *)
AckMeansSettled ==
  \A a \in acked :
    /\ a[2] \in Terminal
    /\ orders[a[1].ref] # None
    /\ orders[a[1].ref].status = a[2]

(* The three records the process and the database keep of one webhook      *)
(* agree: in one process life an order is settled by at most one webhook,  *)
(* which left one audit event and one idempotency key, and only then; and  *)
(* an order with such a trace is terminal in the database.                 *)
TracesAgree ==
  \A r \in Refs :
    LET honoured == {t \in idempotent : t[1] = r} IN
    \/ honoured = {} /\ audit["payment_webhook"][r] = 0
    \/ /\ audit["payment_webhook"][r] = 1
       /\ \E t \in honoured : honoured = {t} /\ orders[r].provider = t[2]
       /\ orders[r] # None /\ orders[r].status \in Terminal

(* An order is never recorded before, or for another provider than, the    *)
(* provider's invoice it stands for (CreatePayment).                       *)
OrderHasInvoice ==
  \A r \in Refs : orders[r] # None => invoices[r] = orders[r].provider

(* What GetLedger returns for an order is the settlement computed when the *)
(* order was created, under the checksum of the policy snapshot, as long   *)
(* as ReconcileWebhook has made up no line, for any order.                 *)
MadeUp == {k \in LedgerKeys : ledger[k] # None /\ ledger[k].sum = "id"}

LedgerMatchesOrder ==
  \A r \in Refs : orders[r] # None /\ MadeUp = {} =>
    \E k \in LatestRow(r) :
      ledger[k].quote = orders[r].quote /\ ledger[k].sum = "hash"

(* Every order has a settlement line, and a line under the checksum of a   *)
(* policy snapshot has the amounts computed when its order was created:    *)
(* also when ledger reads fail and webhooks of several orders carry one    *)
(* key, or the key of another order's creation, so that the lines made up  *)
(* for them meet in ON CONFLICT (SaveOrder, ReconcileWebhook).             *)
LinesAccountable ==
  /\ \A r \in Refs : orders[r] # None => LatestRow(r) # {}
  /\ \A k \in LedgerKeys : ledger[k] # None /\ ledger[k].sum = "hash" =>
       ledger[k].quote = orders[ledger[k].ref].quote

(* A terminal order never changes again, and no order is ever forgotten,   *)
(* given another provider or other amounts (SaveOrder's upsert could).     *)
OrdersOnlySettle ==
  [][\A r \in Refs : orders[r] # None =>
       \/ orders'[r] = orders[r]
       \/ /\ orders[r].status \notin Terminal
          /\ \E s \in Terminal : orders'[r] = [orders[r] EXCEPT !.status = s]]_vars

(* Neither a redelivery of a request that was once acknowledged with the   *)
(* status it carries, also after a restart has emptied the idempotency     *)
(* map, nor a request of any status under a key this process has honoured  *)
(* is ever rejected (ReconcileWebhook looks at the key first).             *)
AckIsStable ==
  [][\A w \in Workers :
       reply[w] # "rejected" /\ reply'[w] = "rejected" =>
         /\ <<req[w], req[w].status>> \notin acked
         /\ <<req[w].ref, req[w].provider, req[w].key>> \notin idempotent]_vars

(* No handler loops: each of its steps, whatever the others do in between, *)
(* takes it nearer to its answer, so that a request is answered, or lost   *)
(* in a crash, after at most 2 * MaxAttempts + 2 of them                   *)
(* (ReconcileWebhookWithRetryWithAttempts, its delays and its exits).      *)
StepsLeft(w) ==
  CASE pc[w] = "lookup"  -> 2 * MaxAttempts + 2
    [] pc[w] = "auth"    -> 2 * MaxAttempts + 1
    [] pc[w] = "attempt" -> 2 * (MaxAttempts - tries[w])
    [] pc[w] = "backoff" -> 2 * (MaxAttempts - tries[w]) + 1
    [] OTHER             -> 0

HandlersProgress ==
  [][\A w \in Workers :
       pc[w] \notin {"idle", "replied"} /\ <<pc[w], tries[w]>>' # <<pc[w], tries[w]>> =>
         StepsLeft(w)' \in 0 .. StepsLeft(w) - 1]_vars

-----------------------------------------------------------------------------
(* Refinement: the orders and the settlement lines read back from the      *)
(* ledger behave as OrderLifecycle says.                                   *)

LineOf(r) ==
  IF LatestRow(r) = {} THEN None
                       ELSE ledger[CHOOSE k \in LatestRow(r) : TRUE].quote

Lifecycle ==
  INSTANCE OrderLifecycle WITH order <- orders, line <- [r \in Refs |-> LineOf(r)]

(* Through crashes, retries and duplicated webhooks, an order is recorded  *)
(* together with its settlement line, settles at most once, and the line   *)
(* read back never changes, as long as the ledger can be read (SaveOrder,  *)
(* ReconcileWebhook).                                                      *)
ImplementsLifecycle == Lifecycle!Spec

-----------------------------------------------------------------------------
(* Statements of the repository that the code does not keep.               *)

(* README.md:70-71: the intent is recorded before the provider is called,  *)
(* so that an invoice always has an order, once its creation is over.      *)
InvoiceHasOrder ==
  \A r \in Refs :
    invoices[r] # None /\ (creating = None \/ creating.ref # r) =>
      orders[r] # None

(* internal/domain/domain.go:250, "immutable settlement line": the line    *)
(* GetLedger returns for an order does not change.                         *)
SettlementLineImmutable ==
  [][\A r \in Refs, k \in LedgerKeys :
       k \in LatestRow(r) => \A j \in LatestRow(r)' :
         ledger'[j].quote = ledger[k].quote /\ ledger'[j].sum = ledger[k].sum]_vars

(* internal/observability/observability.go:105, "stores failed callback    *)
(* payload to retry later": a webhook whose last attempt fails is kept     *)
(* among the dead letters.                                                 *)
FailedWebhookKept ==
  [][\A w \in Workers :
       (ReadFails(w) \/ SaveFails(w)) /\ pc'[w] = "replied" =>
         req[w] \in deadLetters']_vars
=============================================================================
