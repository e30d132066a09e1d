# A verification project for host-rutebayar

host-rutebayar is a small self-hosted service, written in Go, that stands
between host websites and payment providers. It keeps a catalog (hosts, their
products, provider accounts and fee policies), turns a request of a host into a
payment order with a fee settlement and a provider invoice, and settles the
order when the provider's webhook arrives. Everything durable is in one SQLite
file; everything else is in the memory of one process.

This directory holds TLA+ models of that program, TLC configurations that check
them on small instances, and TLAPS proofs of the main properties for every
value of the constants. Paths below are relative to the repository.

## 1. Inventory

| Component | State | Operations | Talks to |
|---|---|---|---|
| Orchestrator (`internal/orchestration`) | one mutex `mu` over everything; `idempotent` map; retry policy; audit trail; dead letters; in registry mode also maps of orders and ledgers | `CreatePayment`, `GetPayment`, `GetLedger`, `ReconcileWebhook`, the retry loop, `Register*`, `Delete*`, `List*` | store and gateway, both called under `mu` |
| SQLite store (`internal/storage`) | six tables; optional foreign keys, chosen by the DSN | upserts, gets, lists, `SaveOrder` (one transaction), deletes | the database file |
| Fee engine (`internal/domain`) | none | `FeePolicy.Validate`, `CalculateHostFee`, `roundAmount`, `NewFeePolicySnapshot` | called by `CreatePayment` and `Register*` |
| Provider gateway (`internal/gateway`) | the provider's invoices | `CreateInvoice` (a deterministic dummy today) | called by `CreatePayment` |
| HTTP handlers (`internal/http`) | UI sessions and the callback log, each under a mutex of its own | `/payments`, `/webhooks/`, `/register/*`, `/delete/*`, `/admin/*`, `/ui*` | several orchestrator calls per request |
| Security (`internal/security`) | replay table | signature ring, replay guard, envelope | signatures are checked by the webhook handler; the rest is unused |
| Observability (`internal/observability`) | counters, audit events, dead letters | `Inc`, `Append`, `Push`, `Drain`, `DelayForAttempt` | called by the orchestrator |
| Host proxy, SDK (`internal/proxy`, `internal/sdk`) | none | forwarding, HTTP client | another service |
| Configuration, start-up (`internal/config`, `cmd`) | environment | `Load`, `main` | builds all of the above |

What makes it correct, component by component:

- *Orders and webhooks.* An order settles at most once, to a terminal status;
  what was acknowledged to a provider stays true through lost answers,
  repetitions, replays from the UI, failing store calls and restarts; an order
  always stands for an invoice; every request is answered. An order settles only
  as an admin said or a signature by a secret its host was registered with; a
  sender that keeps redelivering settles it in the end.
- *Callback log.* It is bounded, and what it calls a success is what the database
  holds, now and after a restart, and can be replayed safely.
- *Admin sessions.* A session that has ended is never honoured again, and ends
  before its time only by a restart or its own logout.
- *Ledger.* Every order has a settlement line, and one under a policy checksum has
  the amounts computed at creation; what is read back is that line, until a failed
  read has made up another.
- *Catalog.* An order never loses its host, without which its webhooks could not be
  verified; with foreign keys there are no orphans.
- *Fees.* Fees and net amount are not negative and add up to the price also
  when integers overflow; limits hold; the fee follows the rate as near as
  `float64` does; what can be paid is not refused.

What is hard about it:

- `CreatePayment` calls the provider in the middle of its critical section, with
  no deadline; a crash or an error there separates invoice from order.
- A handler makes several orchestrator calls. The mutex is free between them, so
  what a handler was authorized by may be gone when it acts.
- The idempotency map, the callback log and the sessions are lost on a restart;
  the database, the pages and the cookies in browsers are not.
- A webhook's secret is read in one critical section and used after it; the log is
  written under another mutex after the settlement.
- Several errors are handled as if they were "not found": the ledger read, the
  policy read, the host lookup at registration.
- Amounts are `int64`, fees are `float64`, which is exact to about 2^-51 of an
  amount after three roundings.

The full list of hazards, each at its line with the properties that answer it,
is in `PROJECT.json`.

## 2. Modules

| Module | What it is |
|---|---|
| `OrderLifecycle` | abstract specification: an order appears once with its settlement line, settles once, the line never changes |
| `Payments` | the payment life cycle: creation around the provider call, webhook and replay handlers, retry loop, `SaveOrder`/`GetLedger`, crash |
| `MCPayments` | constants' symmetry for TLC |
| `PaymentsProofs` | theorems about `Payments` |
| `Delivery` | `Payments` composed with signatures and their age, secret rotation, the callback log and the page that offers it for replay |
| `MCDelivery`, `DeliveryProofs` | a small instance; theorems about `Delivery`, on top of `PaymentsProofs` |
| `SessionLifecycle` | abstract specification: a session is opened once, lives a full time after each use, ends at one moment and stays ended |
| `Sessions` | the sessions of the admin console, their cookies and the handlers that check, open and close them |
| `MCSessions`, `SessionsProofs` | symmetry; theorems about `Sessions` |
| `Catalog` | the registry, its handlers, the demo seed, deletions, and how they become an order |
| `MCCatalog`, `CatalogProofs` | symmetry; theorems about `Catalog` |
| `FeePolicy` | validation, host fee, provider fee, settlement, with overflow |
| `MCFeePolicy`, `FeePolicyProofs` | an 11-bit instance; theorems about `FeePolicy` |

`Payments`, `Catalog` and `FeePolicy` split `CreatePayment` between them along
what they have in common. `FeePolicy` decides whether a policy and a price give a
settlement; `Catalog` decides which product, policy and account an order is
made of; `Payments` takes both as inputs (a *quote* and a *provider*) and
follows the order from there. `Delivery` EXTENDS `Payments`: each of its actions is
an action of `Payments` together with what happens to the signature, the secret or
the log in the same step (`ComposedIsPayments`). `Sessions` stands alone: what a
handler does behind the gate is one step `Act`, and `Delivery` and `Catalog` take a
session's request as allowed.

### Payments

State and code:

| Variable | Code |
|---|---|
| `orders`, `ledger`, `lastRow` | tables `payment_orders`, `payment_order_ledgers` and the latter's AUTOINCREMENT counter |
| `invoices` | what the provider keeps; the code cannot see it |
| `creating` | the `CreatePayment` call that holds `Orchestrator.mu` while the provider is asked |
| `idempotent`, `audit`, `deadLetters` | the fields of `Orchestrator` of these names |
| `pc`, `req`, `tries`, `reply` | a goroutine of `handleWebhook` or `handleReplayCallback` and the loop variable of the retry loop |
| `acked` | the 2xx answers that reached the sender |

*Steps.* Every exported method of the orchestrator holds `mu` from its first
line to its return, so a call is one step; its guard `creating = None` says that
the mutex is free. `CreatePayment` is the exception and is three steps
(`CreateBegin`, `GatewayAnswers` or `GatewayFails`, `CreateSave` or
`CreateSaveFails`): the provider and a crash can act in between. A webhook is
`Receive`, `Lookup` (the reads of `GetPayment` and `GetHost`, under the mutex) or
`LookupFails` (one step for the two reads, which change nothing and cannot disagree: an
order keeps its host), `Authorize` or `Refuse` (the check itself, without the mutex), then attempts (`Reconcile`) separated by
`Backoff`, then `Respond`, whose answer may get lost. `Reconcile` is a
disjunction of the paths through `ReconcileWebhook`: `ReadFails`, `Reject`,
`Repeat`, `DeadLetter`, `Settle`, `SaveFails`. `Crash` clears the memory and keeps
the file; it assumes a DSN that names a file, as the default one does.

*Abstractions.* A settlement's four amounts and its policy are one `quote`. The
ledger checksum is `"hash"` (of the policy, written at creation) or `"id"`
(`policy:<id>`, written by the fallback). Whether a signature verifies is an
input here and decided in `Delivery`. References are fresh by construction, as `newReference` draws them from a
nanosecond clock and 64 random bits. A creation's ledger key (`policy:<id>|<reference>`)
stands for its reference, and nothing keeps it apart from a webhook's key, which is any
text: `Keys` may contain references, and `PaymentsLedger` gives it nothing else. The one
thing a request cannot do is to name a reference before it has left the process in an
invoice (`Receive`). A ledger row that `ON CONFLICT` hits keeps its id and its order and
takes amounts and checksum of the other (`Upsert`).
`Faults` names the store calls that may fail with a transient error.

### Delivery

| Variable | Code |
|---|---|
| `secret` | column `webhook_secret` of `hosts` |
| `sig` | the header `X-Webhook-Signature` of a request on its way to the check: who signed it and how long ago |
| `seen` | `host.WebhookSecret` in `authorizeWebhookSignature`, after `GetHost` |
| `log` | `callbackLogs` |
| `page` | the row of `/ui/callbacks` that an admin has before him, which outlives log and process |
| `held` | history: the secrets the order's host had since a request on its way to the check arrived |
| `vouched` | history: the requests let in by a signature with one of those, and those an admin typed |

*Steps.* `ReadSecret` and `LetIn`/`TurnAway` are `authorizeWebhookSignature`;
between them the secret may be replaced and time may pass (`Tick`). `Rotate` lets any
secret become a host's: the owner and the demo seed may register one, and so may
anybody when the `GetHost` of `handleRegisterHost` fails, because the handler then takes
the host for a new one and asks for no secret (`handlers.go:983-989`; in `Catalog` that
path is the fault `GetHost`). What `Delivery` shows about settlements is therefore
relative to the registrations: a webhook is believed if it was signed with a secret its
host was registered with while it was on its way, by whomever. `Finish` writes the entry and
answers; a crash between these two is `Finish` with a lost answer, then `Restart`.
`LogEntry` keeps what
the code does: `success` stores the status that was *answered*, `failed` the one
that was sent, so a replayed entry need not be the request that was logged.
`Malformed` logs a webhook that cannot be used, which the page does not let an admin
replay. `Restart` empties the log and keeps the page.

*Abstractions.* An HMAC verifies under the secret that made it and no other; a
signature over another body, or none, counts as made with a secret the host does not
have. `Typed` are the requests an admin's
session posts without a row of the page. `replay-success` and `success` are one
result, since nothing reads the difference.

### Sessions

`uiSessions` is the map of that name, by token the time left (`-1`: expired and
still in the map); `cookie` what each browser keeps; `job` a goroutine with its
request, the cookie that came with it, where it is, and the `Set-Cookie` of its
answer. `idle`, `spent` and `late` are history. `hasAdminUISession(c, yes, no)` is
the function of that name, judged and extended in one critical section, with the
place where its handler goes on; `Gate` uses it as `requireAdminSession` and
`handleUILogin` do and `GateAgain` as `handleReplayCallback` does a second time.
`LeftOf` reads the map as `SessionLifecycle` sees it: an expired entry is no session any
more, although it is still there. `Answer` delivers a `Set-Cookie` or loses it, in any order with the other answers.
Tokens are never drawn twice (32 random bytes).

### Catalog

`hosts` (with the host secret), `products`, `accounts`, `policies` and `orders`
are the tables; `foreignKeys` is the DSN's choice, made in `Init` and never
changed, so a run covers both. `pc`, `header` and `todo` are a handler between
its orchestrator calls: `lookup` (the `GetHost` of `handleRegisterHost`), `auth`
(`authorizeHostSecret`), `act` (the call itself). The demo seed is a request with
five calls to make. `Fail` stands for every refusal and every store error; what
earlier calls of the request did stays. `Faults` names the two reads whose
transient error the code takes for "not found". `CreatePayment` is one step here:
nothing else in this module can run while it holds the mutex.

### FeePolicy

`Half` is 2^63 in the program and any positive number in the model. `Wrap` is
`int64` subtraction, `ToInt64` the conversion from `float64` (out of range, Go
leaves the result to the machine: both outcomes are possible).

A percentage is rounded three times before the rounding rule sees it: `value / 100`,
`float64(gross)`, and the product. Each is off by at most 2^-53 of itself, so the
product is within one part in `Precision` of the exact fee, with `Precision` = 2^51 in the
program and any positive number in the model. `Rounded` is the set of what the rule
makes of any number that near. Around an exact result or a midpoint that is both
neighbours, as in `100 * 0.07`, and for large amounts it is many units: a price of
2^60 + 127 at 100 percent may be charged 127 units off, and the model has it so. The
provider's 2.5 percent are computed in the same way. Fixed fees are taken as they are.
The properties are stated with the same two bounds, one unit and one part in
`Precision`, and hold for every price.

## 3. Runs

All runs but the last five must pass. TLC reports their sizes with two workers.

| Run | Question | Instance | Distinct states |
|---|---|---|---|
| `PaymentsHooks` | Does one order survive everything webhooks can do to it, does it refine `OrderLifecycle`, and does every handler get to its end? | 1 reference, 2 providers, 2 quotes, 2 keys, 2 outcomes, creation open or already settled, 2 handlers, 3 attempts, failing reads of the order and failing saves, crashes | 333 000 |
| `PaymentsLedger` | Do the ledger's rows stay accountable when it cannot be read and keys collide? | 2 references, which are also the keys webhooks carry, 2 quotes, an unsupported status, 1 handler, 1 attempt, failing reads of the ledger and failing saves, crashes | 5 019 000 |
| `Delivery` | Can a rotation, a late webhook, an old page or a rewritten log entry settle an order wrongly, or make the log lie, and is every verdict on a signature deserved? | 1 order, 2 outcomes, 2 handlers, 2 secrets of which either may be the host's at any time, signatures that arrive at the end of the window and age, a log of one entry, restarts | 649 000 |
| `DeliveryLive` | Is every request answered, and does redelivery settle the order? | 1 order, 2 outcomes, 1 handler, 2 attempts, failing reads, the two secrets, ages too early, in time and just in time | 134 000 |
| `Sessions` | Does a session end once, and alone, and is that all one sees of the map (`SessionLifecycle`)? | 2 tokens, 2 browsers, 2 requests at a time, a life of 2 steps | 170 000 |
| `Catalog` | Do interleaved requests keep the catalog and the orders consistent? | 2 hosts, 1 product they share, 2 environments, a client against an administrator, both settings of foreign keys, both faults | 895 000 |
| `FeePolicy` | Do settlements add up and follow the policy, and is nothing refused without cause? | 11-bit amounts, floats exact to one part in 512, 9 values in half units, 4 limits, 7 prices, all types and rounding rules, valid or not | 64 000 |
| `FindingLedgerLine` | "immutable settlement line" | 1 of each, ledger reads may fail | violated |
| `FindingInvoiceFirst` | intent before provider | 1 of each | violated |
| `FindingDeadLetter` | failed callbacks are kept for a retry | 1 of each, saves may fail | violated |
| `FindingEnvironments` | sandbox and production apart | 1 of each | violated |
| `FindingFreeFee` | fee follows the policy | 1 of each, policy reads may fail | violated |

*Bounds.* `MaxAttempts` is 3 in `PaymentsHooks`, as in the program; one is enough in
`PaymentsLedger` and `Delivery`, which do not ask about the retry loop, and two in
`DeliveryLive`, which have its cases: a failing attempt, a backoff and the last attempt.
Two handlers suffice for a race, since an attempt is one step and a third handler meets
only states two can make. Two references are needed where rows of different orders meet in the
ledger, one where they do not; with one handler there, since what meets in the table
are committed rows. Counters (`lastRow`, `audit`) are bounded by what
the properties say themselves: an order settles at most once in a process life.
In `Delivery` a log of one entry makes every entry fall out of it, and the page keeps one that
fell out. `Window` is 1 step, and a signature of `Delivery` arrives at its end (age 1), where the
code's `>` still accepts it; one `Tick` and it is beyond. `DeliveryLive` has an age too far in the
future, one inside and one at the end. `DeliveryLive` has one handler, since a
temporal check of two is out of reach; that a handler competes for the mutex is in
it, as creations take it. In `Sessions` two requests suffice for a race over one
session, and two tokens for a login while an older session is open or a logout is
under way. In `Catalog` one product suffices for a product that moves between hosts, and one
reference for an order that outlives its catalog. 11-bit amounts let a fixed fee
overflow the conversion, a net amount wrap around and a percentage meet exact
results and midpoints; with floats exact to one part in 512, a percentage of the highest
price is off by up to two units, as it is in the program beyond 2^52.

*Symmetry* is used in the safety runs over sets whose elements nothing tells
apart (keys only if they are not references), and not in `DeliveryLive`. `Catalog`'s demo host and product are told
apart from others, so hosts and products are not in its symmetry.

*Deadlock* is checked wherever the system runs forever; `FeePolicy` computes one
quote and stops.

*Fairness* (`FairDeliverySpec`). Weak fairness of the provider's answer:
`DummyGateway` returns at once (a real adapter would need a deadline, which the code
does not set). Weak fairness of `CreateSave`/`CreateSaveFails`, of the signature
check, `Backoff` and `Finish`: Go runs every goroutine that can run and timers fire.
Strong fairness of the steps that need the mutex, `ReadSecret` and `Reconcile`:
creations may take it again and again, but a Go mutex is handed over to a goroutine
that has waited for a millisecond. Which outcome of a step is taken is never fair,
so the store may fail every time; requests need not arrive, clients need not leave,
and the process need not crash.

*What the liveness properties say.* `EveryRequestAnswered` holds with store faults,
restarts and rotations going on forever. `EventuallySettled` assumes the sender does
its part, a good webhook again and again (`GoodArrival`: in time, right secret, a
final status), and that trouble ends (`Calm`: from some moment on no restart, failing
store call, new secret, client that hangs up, or signature that ages on its way to
the check). Each of these conditions is needed: the code answers a failing read with
401 (`handlers.go:1134`), checks only the current secret (1142) and looks at the
window when the handler gets there (1143), so any of them, repeated, refuses every
redelivery. Before that moment anything may have happened.

### Findings

1. `FindingLedgerLine`. `domain.go:250` calls the ledger an "immutable settlement
   line". When `GetLedger` fails for any reason, `ReconcileWebhook` makes up a
   line under the webhook's key with a policy id for a checksum
   (`orchestrator.go:318-329`), and that row is the one read from then on. The
   original row stays in the table unless a webhook carries its key, and then it
   no longer has a policy checksum (`LinesAccountable`).
2. `FindingInvoiceFirst`. `README.md:70-71` records the intent before it calls
   the provider. The code calls the provider first (`orchestrator.go:203`) and
   saves afterwards (248). The converse does hold (`OrderHasInvoice`).
3. `FindingDeadLetter`. `observability.go:105` keeps a "failed callback payload to
   retry later", and `callback-and-observability.md:36` drains the queue after
   failed reconciliations. The retry loop gives up without pushing anything
   (`orchestrator.go:371-373`); the only push is for an unsupported status, which no
   retry cures. The shortest trace is of a replay; a signed webhook is given up in the
   same loop.
4. `FindingEnvironments`. `README.md:78-79` separates sandbox from production;
   `selectProvider` falls back to a sandbox account, then to any.
5. `FindingFreeFee`. `README.md:74` and `PLAN.md:36` charge by the policy of
   product or host; `CreatePayment` takes a failed policy read for no policy.

Not counted as a finding: the idempotency map does not survive a restart. A key
once honoured that comes again with *another* status is then rejected, where
before it was answered with the stored one. A repetition of the same request is
accepted in both cases, and as long as the process lives, so is any status under an
honoured key (`AckIsStable`, `SuccessReplays`).

## 4. Proofs

`tlapm` checks `PaymentsProofs`, `DeliveryProofs`, `SessionsProofs`,
`CatalogProofs` and `FeePolicyProofs`. The
theorems hold for every value of the constants that the modules' assumptions
admit; each assumption states that a marker value is not a datum, that a bound
is positive, or that a set of names is what the code gives it.

*Payments.* `TypeCorrect` is inductive by itself. The safety invariants are not:
`AckMeansSettled` speaks of answers that have arrived, but what makes it true
happened before, when a handler chose its answer and had not sent it yet.
`Inv` in `PaymentsProofs` adds

- `Creating`: the reference being created has no order yet, and after the answer
  it has an invoice of its provider;
- `CreationKeysFree`: no row stands under the key of a creation whose invoice does not
  exist yet; with it, `CreateSave` never meets a row, whatever keys webhooks carry,
  because the mutex is held from the invoice to the save. `KeysKnown` is what it needs of
  the handlers: a key that is a reference is that of an invoice;
- `RowsOwned`, `IdsDrawn`, `CreationRows`, `HashRows`: a row belongs to an order that
  exists, under an id that was drawn; an order owns the row at the key of its creation;
  and a row under a policy checksum has its order's amounts;
- `AnswersSettled`: a handler about to acknowledge a status has a terminal order
  with that status;
- `AckedSettled`: the same for answers that arrived.

From `Inv` follow `AcknowledgedStays`, `OneSettlementPerOrder`,
`InvoiceComesFirst`, `LinesStayAccountable` (among the rows of an order, one has the
highest id), and, step by step, `OrdersFinal` and `RedeliveryAccepted`. The last rests on
`RepetitionNotRejected`: the key is looked up before the status, and what is remembered
under a key is an order of that provider (`HonouredKnown`).

The refinement of `OrderLifecycle` comes down to one lemma, `QuotedStep`: with the quote
of each order for its line, `CreateSave` is `Record`, `Settle` is `Finish`, and everything
else stutters. `Implements` reads the line as `GetLedger` does, by the highest id, and
assumes `"GetLedger" \notin Faults`. Under that assumption no line is ever made up
(`NoFallbackRow`), so that an order has one row. `LineImmutableWhenRead` follows in the
same way: it is the statement finding 1 refutes, so that a failing read is its one cause.
`LedgerTruthful` makes no assumption on the faults: its property says that lines are
the creations' *until* one has been made up, for whatever order.

`HandlersTerminate` proves `HandlersProgress`: each step of a handler, whatever others do
in between, decreases `StepsLeft`, a natural number, for every `MaxAttempts`. It is what
liveness rests on besides fairness: that the retry loop has no way to go on for ever.

*Delivery.* `ComposedIsPayments` shows that every behaviour of `Delivery` is one of
`Payments`, so `Inv` holds there, too. `AuthenticOutcomes` speaks of orders only, but
an order can be settled by a replay of a page that showed a log entry of a handler
that served a webhook; `DeliveryInv` therefore carries *vouched for* along that whole
way: `HeldCurrent` (what `GetHost` read is among the secrets the host has had since the
arrival), `HandlersVouched`,
`OrdersVouched`, and the entries of the log and the page. It also has `LogTrue`: an
entry marked as a success agrees with a settled order, which stays so because
settled orders never change. `SuccessNeverDisputed` follows from it and from
`RepetitionNotRejected` of `PaymentsProofs`. `VerdictsJustified` relates the secret in a
local variable to the time before it was read, again by `HeldCurrent`, which
`DeliveryInv` carries through `Rotate` and `Restart`. Every theorem of `PaymentsProofs`
holds in `Delivery` by way of `ComposedIsPayments`. The proofs rest on `HostsAssumption`
(each order has one host) and `StatusAssumption`; no assumption says who registers which
secret, or bounds the log, the ages or the number of secrets.

*Sessions.* `NoRevival` is not inductive: `Inv` of `SessionsProofs` adds that the time
left and the time since the last use add up while a session is good (`LeftAgrees`),
and that a request sent with a spent token stays at the door (`LateTurnedAway`). With
them a look that finds a session good cannot be one of those, and only such a look
extends. `SessionsImplement` is the refinement of `SessionLifecycle`. Its difficult step is
the logout, which closes the session of its cookie and counts it as spent: `Issued` says
that every token in a cookie, a request or an answer is of a session that was opened, so
that a logout either closes an open session or changes nothing. An expired entry that a
late look deletes is a stutter, since `Pass` closed the session before.

*Catalog.* `HostsOutliveOrders` and `NoOrphans` are proved together: an order is
made only while its host exists, and `DeleteHost` counts orders in the same
transaction that deletes. `NoOrphans` rests on the foreign keys, whichever step
a deletion falls between.

*FeePolicy.* `SettlementAddsUp` needs the bound on every intermediate amount: a
fee that overflowed to the least integer makes the first subtraction wrap, and
the second one then stays negative, so the creation is refused and never
accepted with a wrapped net amount (`NetExact`). It also needs the provider's fee not to
exceed the price, however coarse the floats (`ProviderFeeTyped`). `FeeFaithful` follows from
`RoundedOnce` (a rounding rule stays between the quotient rounded down and up),
`RoundedNear` (what floats add to that) and `ClampMonotone` (limits keep
the order of fees). `RefusalsDeserved` is the other direction, and `ShortInvariant` is what
it needs: a refused creation has a negative net amount, and with `HostFeeNear` and
`NetOfFee` that difference did not wrap, so that the fees exceed the price. `Half`,
`Precision`, `Scale` and the sets of inputs are arbitrary: no price is too high for what is
proved, only a host fee that may overflow its conversion is excluded from `FeeFaithful`
and `RefusalsDeserved`, where the code promises nothing.

`PolicyHonouredWhenRead` proves the statement of
finding 5 from `"GetHostPolicy" \notin Faults`: the failing read is its one cause.

*Only model-checked:* `EveryRequestAnswered` and `EventuallySettled`, since liveness
under fairness is out of the prover's reach (their safety part, `HandlersProgress`, is
proved). The statements of findings 2, 3 and 4 are not theorems under any fault setting:
a crash, a lost answer or the fallback by itself refutes them.

## 5. Not modelled

- *Registry mode* (an orchestrator without a store): only tests build it.
- *`ReplayGuard`, `CryptoEnvelope`, `DeadLetterQueue.Drain`*: no code of the program
  calls them, so no behaviour of the service depends on them.
- *`DelayForAttempt`'s arithmetic*: with the policy the program is built with (three
  attempts) it neither overflows nor reaches its cap; a backoff is a step that ends.
- *Cryptography*: a library's. HMAC is ideal and tokens do not collide.
- *Host proxy and SDK*: stateless forwarding.
- *Metrics, HTML pages, lists, redirect targets*: no state that a property is about.
- *A provider that never answers*: `CreatePayment` would hold the mutex for good and
  nothing else would get on; the code sets no deadline, so there is no promise to check.
- *Abandoned sessions*: nothing but a look at its token removes an entry of
  `uiSessions`, so the map grows with logins; no bound is stated to check against.
  The cookie's `MaxAge` does not slide with the session; `Drop` covers both this and
  a browser that forgets earlier.
- *float64 bit by bit*: abstracted to any number within the rounding errors of the
  exact one (section 2); values under 2^-1000, whose quotient would underflow, are left
  out.
- *The in-memory DSN* of an empty configuration, which a restart empties.

## 6. Plan

Built so far, in this order: `Payments` with its proofs, `OrderLifecycle` and the
refinement, `Catalog`, `FeePolicy`, `Delivery` on top of `Payments`, `Sessions`, the
proofs of each, `SessionLifecycle`, the invariants of the ledger under colliding keys,
and the conditional forms of findings 1 and 5.

What is left, in order of what it would tell:

1. A `Service` module that composes `Catalog` and `Payments`, whose quotes and
   providers are then those of the catalog, so that webhooks meet deleted products
   and moved accounts.
2. Registry mode as a second implementation of `OrderLifecycle`.
