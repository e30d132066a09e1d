------------------------------ MODULE Delivery ------------------------------
(***************************************************************************)
(* From a signed webhook to the callback log: Payments, composed with what *)
(* its handlers take as an input there.                                    *)
(*                                                                         *)
(*   - authorizeWebhookSignature and SignatureRing.VerifySignature: the    *)
(*     secret a webhook is signed with, the age of the signature, the      *)
(*     secret GetHost read, and the window of five minutes;                *)
(*   - handleRegisterHost and handleDemoSeed, which replace that secret    *)
(*     (who may is Catalog's business: any secret may become a host's);    *)
(*   - recordCallbackLog, which keeps the last deliveries, and the page    *)
(*     /ui/callbacks, which offers them for replay.                        *)
(*                                                                         *)
(* An HMAC is what it says: a signature verifies under the secret that     *)
(* made it and under no other.  A request without one, or with one of      *)
(* another body, counts as signed by a secret its host does not have.      *)
(***************************************************************************)
EXTENDS Payments, Sequences

CONSTANTS
  Hosts,       \* host ids
  HostOf,      \* the host of the order with a given reference
  Secrets,     \* secrets that webhooks are signed with
  Ages,        \* ages of a signature on arrival; negative: from the future
  Window,      \* the five minutes of VerifySignature
  MaxLogs,     \* maxCallbackLogs
  Typed        \* replay requests made without an entry of the page

ASSUME HostsAssumption ==
  /\ HostOf \in [Refs -> Hosts]
  /\ None \notin Secrets
ASSUME TimeAssumption == Ages \subseteq Int /\ Window \in Nat
ASSUME LogAssumption == MaxLogs \in Nat \ {0}
ASSUME TypedAssumption == Typed \subseteq Requests
(* A webhook may carry any final status a gateway may report. *)
ASSUME StatusAssumption == GatewayStatuses \cap Terminal \subseteq HookStatuses

Signatures == [by : Secrets, age : Int]

(* A log entry has the fields of a request, with the status that was       *)
(* answered when `ok`.  An entry that lacks one of them is None: the page  *)
(* disables its replay button.                                             *)
Entries == [req : Requests, ok : BOOLEAN]

ASSUME NoEntryAssumption == None \notin Signatures /\ None \notin Entries

VARIABLES
  secret,      \* hosts.webhook_secret
  sig,         \* the signature of the request a handler has yet to check
  seen,        \* the secret that its GetHost has read
  log,         \* callbackLogs, oldest first
  page,        \* the entry before the admin's eyes, as the page showed it
  held,        \* history: every secret that the host of its order has had
               \* since the request arrived, until the signature is checked
  vouched      \* history: what was let in with a signature by one of those,
               \* or typed by an admin

auth  == <<sig, seen, held>>
dvars == <<vars, secret, auth, log, page, vouched>>

DeliveryTypeOK ==
  /\ secret \in [Hosts -> Secrets]
  /\ sig \in [Workers -> Signatures \cup {None}]
  /\ seen \in [Workers -> Secrets \cup {None}]
  /\ held \in [Workers -> SUBSET Secrets]
  /\ log \in Seq(Entries \cup {None}) /\ Len(log) <= MaxLogs
  /\ page \in Entries \cup {None}
  /\ vouched \subseteq Requests
  /\ \A w \in Workers :
       /\ pc[w] \in {"lookup", "auth"} <=> sig[w] # None
       /\ pc[w] = "auth" <=> seen[w] # None
       /\ sig[w] # None <=> held[w] # {}

DeliveryInit ==
  /\ Init
  /\ secret \in [Hosts -> Secrets]
  /\ sig = [w \in Workers |-> None]
  /\ seen = [w \in Workers |-> None]
  /\ held = [w \in Workers |-> {}]
  /\ log = << >>
  /\ page = None
  /\ vouched = {}

-----------------------------------------------------------------------------
(* Faulty variants for the mutants, as in Payments.                        *)

VerifiesTimeOnly(s, k) == s.age \in -Window .. Window
VerifiesStrictly(s, k) == s.age < Window /\ s.age >= -Window /\ s.by = k
LogEntryAsSent(w) == [req |-> req[w], ok |-> reply[w] \in Statuses]
KeepLatestLate(l) ==
  IF Len(l) > MaxLogs + 1 THEN SubSeq(l, Len(l) - MaxLogs, Len(l)) ELSE l

-----------------------------------------------------------------------------
(* The callback log.                                                       *)

KeepLatest(l) ==
  IF Len(l) > MaxLogs THEN SubSeq(l, Len(l) - MaxLogs + 1, Len(l)) ELSE l

recordCallbackLog(e) == log' = KeepLatest(Append(log, e))

(* "success" logs the status that was answered, "failed" the one sent.     *)
LogEntry(w) ==
  IF reply[w] \in Statuses
    THEN [req |-> [req[w] EXCEPT !.status = reply[w]], ok |-> TRUE]
    ELSE [req |-> req[w], ok |-> FALSE]

-----------------------------------------------------------------------------
(* The handlers.                                                           *)

(* A webhook with a complete payload arrives. *)
Arrive(w, d, s) ==
  /\ Receive(w, d, "lookup")
  /\ sig' = [sig EXCEPT ![w] = s]
  /\ held' = [held EXCEPT ![w] = {secret[HostOf[d.ref]]}]
  /\ UNCHANGED <<secret, seen, log, page, vouched>>

(* One that cannot be read, is no JSON or lacks a field is logged at once. *)
Malformed ==
  /\ recordCallbackLog(None)
  /\ UNCHANGED <<vars, secret, auth, page, vouched>>

ReadSecret(w) ==
  /\ Lookup(w)
  /\ seen' = [seen EXCEPT ![w] = secret[HostOf[req[w].ref]]]
  /\ UNCHANGED <<secret, sig, held, log, page, vouched>>

ReadSecretFails(w) ==
  /\ LookupFails(w)
  /\ sig' = [sig EXCEPT ![w] = None]
  /\ held' = [held EXCEPT ![w] = {}]
  /\ UNCHANGED <<secret, seen, log, page, vouched>>

(* SignatureRing.VerifySignature with the ring that the handler makes: it  *)
(* has a current secret and no previous one.                               *)
Verifies(s, k) == s.age \in -Window .. Window /\ s.by = k

ForgetSignature(w) ==
  /\ sig' = [sig EXCEPT ![w] = None]
  /\ seen' = [seen EXCEPT ![w] = None]
  /\ held' = [held EXCEPT ![w] = {}]

LetIn(w) ==
  /\ Authorize(w)
  /\ Verifies(sig[w], seen[w])
  /\ vouched' = vouched \cup {d \in {req[w]} : sig[w].by \in held[w]}
  /\ ForgetSignature(w)
  /\ UNCHANGED <<secret, log, page>>

TurnAway(w) ==
  /\ Refuse(w)
  /\ ~Verifies(sig[w], seen[w])
  /\ ForgetSignature(w)
  /\ UNCHANGED <<secret, log, page, vouched>>

(* The replay button posts the fields of its row ...                       *)
Replay(w) ==
  /\ page # None
  /\ Receive(w, page.req, "attempt")
  /\ UNCHANGED <<secret, auth, log, page, vouched>>

(* ... but an admin's session may post any others as well.                 *)
ReplayTyped(w, d) ==
  /\ Receive(w, d, "attempt")
  /\ vouched' = vouched \cup {d}
  /\ UNCHANGED <<secret, auth, log, page>>

Work(w) ==
  /\ Reconcile(w) \/ Backoff(w)
  /\ UNCHANGED <<secret, auth, log, page, vouched>>

Leave(w) ==
  /\ Cancel(w)
  /\ UNCHANGED <<secret, auth, log, page, vouched>>

(* What came of the request is logged, unless it was turned away, and then *)
(* answered.                                                               *)
Finish(w, delivered) ==
  /\ IF reply[w] = "unauthorized" THEN UNCHANGED log
                                  ELSE recordCallbackLog(LogEntry(w))
  /\ Respond(w, delivered)
  /\ UNCHANGED <<secret, auth, page, vouched>>

Handle(w) ==
  \/ \E d \in Requests, b \in Secrets, a \in Ages : Arrive(w, d, [by |-> b, age |-> a])
  \/ ReadSecret(w)
  \/ ReadSecretFails(w)
  \/ LetIn(w)
  \/ TurnAway(w)
  \/ Replay(w)
  \/ \E d \in Typed : ReplayTyped(w, d)
  \/ Work(w)
  \/ Leave(w)
  \/ \E delivered \in BOOLEAN : Finish(w, delivered)

-----------------------------------------------------------------------------
(* Around the handlers.                                                    *)

(* GET /ui/callbacks; an entry with an empty field has no replay button.   *)
View ==
  /\ \E i \in DOMAIN log : log[i] # None /\ page' = log[i]
  /\ UNCHANGED <<vars, secret, auth, log, vouched>>

(* RegisterHost, for a host that exists: by whoever knows its secret, by    *)
(* the demo seed, or by anybody when the GetHost of handleRegisterHost     *)
(* fails and nothing is asked.                                             *)
Rotate(h) ==
  /\ creating = None
  /\ \E s \in Secrets :
       /\ secret' = [secret EXCEPT ![h] = s]
       /\ held' = [w \in Workers |->
            IF held[w] # {} /\ HostOf[req[w].ref] = h THEN held[w] \cup {s} ELSE held[w]]
  /\ UNCHANGED <<vars, sig, seen, log, page, vouched>>

(* Time passes; a signature that is too old stays too old. *)
Tick ==
  /\ sig' = [w \in Workers |->
       IF sig[w] # None /\ sig[w].age <= Window
         THEN [sig[w] EXCEPT !.age = @ + 1] ELSE sig[w]]
  /\ UNCHANGED <<vars, secret, seen, held, log, page, vouched>>

(* The log lives in the memory of the process, the page in a browser.      *)
Restart ==
  /\ Crash
  /\ sig' = [w \in Workers |-> None]
  /\ seen' = [w \in Workers |-> None]
  /\ held' = [w \in Workers |-> {}]
  /\ log' = << >>
  /\ UNCHANGED <<secret, page, vouched>>

Sell == Create /\ UNCHANGED <<secret, auth, log, page, vouched>>

DeliveryNext ==
  \/ Sell
  \/ \E w \in Workers : Handle(w)
  \/ Malformed
  \/ View
  \/ \E h \in Hosts : Rotate(h)
  \/ Tick
  \/ Restart

DeliverySpec == DeliveryInit /\ [][DeliveryNext]_dvars

-----------------------------------------------------------------------------
(* Safety.                                                                 *)

(* An order that is settled was settled as an admin said, or a signature   *)
(* by a secret its host was registered with while the webhook was on its   *)
(* way, or its gateway created it so; also when the request came back from *)
(* the callback log, which rewrites statuses, and whoever replaced the     *)
(* secret meanwhile (authorizeWebhookSignature, handleReplayCallback).     *)
AuthenticOutcomes ==
  \A r \in Refs :
    LET o == orders[r] IN
    o # None /\ o.status \in Terminal \ GatewayStatuses =>
      \E d \in vouched :
        d.ref = r /\ d.provider = o.provider /\ d.status = o.status

(* What the console calls a success is what the database holds, whatever   *)
(* became of the answer and however late the entry was written.            *)
Succeeded == {log[i].req : i \in {j \in DOMAIN log : log[j] # None /\ log[j].ok}}
               \cup (IF page # None /\ page.ok THEN {page.req} ELSE {})

LogTruthful ==
  \A d \in Succeeded :
    /\ orders[d.ref] # None
    /\ orders[d.ref].provider = d.provider
    /\ orders[d.ref].status = d.status
    /\ d.status \in Terminal

(* An entry logged as a success can be replayed without being rejected,    *)
(* from an old page and after a restart, too: replay "replays", it never   *)
(* disputes (handleReplayCallback).                                        *)
SuccessReplays ==
  [][\A w \in Workers :
       reply[w] # "rejected" /\ reply'[w] = "rejected" =>
         req[w] \notin Succeeded]_dvars

(* The verdict on a signature judges its age at that very moment, and the  *)
(* secret it was made with by one the host had at some moment since the    *)
(* arrival, although that secret is read in one critical section, may be   *)
(* replaced, and the HMAC is compared outside of any: nobody is let in     *)
(* with a secret that was replaced before the request came, and nobody     *)
(* turned away who signed in time with the only secret there was           *)
(* (authorizeWebhookSignature).                                            *)
VerdictJustified ==
  [][\A w \in Workers :
       pc[w] = "auth" /\ pc'[w] \in {"attempt", "replied"} =>
         \E k \in held[w] :
           pc'[w] = "attempt" <=> sig[w].by = k /\ sig[w].age \in -Window .. Window]_dvars

-----------------------------------------------------------------------------
(* Liveness.                                                               *)

(* Go runs every goroutine that can run, and its mutex hands itself to a   *)
(* goroutine that has waited for a millisecond, so one that keeps finding  *)
(* Orchestrator.mu free again in between gets it: strong fairness.  The    *)
(* signature is checked without the mutex.  The provider's answer is a     *)
(* fact of DummyGateway, which returns at once; the code itself sets no    *)
(* deadline for CreateInvoice.                                             *)
Untouched == UNCHANGED <<secret, auth, log, page, vouched>>

DeliveryFairness ==
  /\ WF_dvars(/\ Untouched
              /\ \/ \E s \in GatewayStatuses : GatewayAnswers(s)
                 \/ \E issued \in BOOLEAN : GatewayFails(issued))
  /\ WF_dvars(Untouched /\ (CreateSave \/ CreateSaveFails))
  /\ \A w \in Workers :
       /\ SF_dvars(ReadSecret(w) \/ ReadSecretFails(w))
       /\ WF_dvars(LetIn(w) \/ TurnAway(w))
       /\ SF_dvars(Untouched /\ Reconcile(w))
       /\ WF_dvars(Untouched /\ Backoff(w))
       /\ WF_dvars(\E delivered \in BOOLEAN : Finish(w, delivered))

FairDeliverySpec == DeliverySpec /\ DeliveryFairness

(* Every request gets an answer, or the process dies: no sequence of store *)
(* faults keeps a handler in its retry loop, and no creation keeps the     *)
(* mutex for good (ReconcileWebhookWithRetryWithAttempts, CreatePayment).  *)
EveryRequestAnswered ==
  \A w \in Workers :
    pc[w] \in {"lookup", "auth", "attempt", "backoff"} ~> pc[w] \in {"replied", "idle"}

(* A webhook that should be honoured: about an existing order, from its    *)
(* provider, with a final status, signed in time with the secret its host  *)
(* is registered with.                                                     *)
GoodArrival(r) ==
  \E w \in Workers, d \in Requests, a \in Ages \cap (-Window .. Window) :
    /\ d.ref = r /\ Known(d) /\ Supported(d.status)
    /\ Arrive(w, d, [by |-> secret[HostOf[r]], age |-> a])

(* Nothing goes wrong: no restart, no failing store, no new secret, no     *)
(* client that hangs up, no signature that ages before it is checked.      *)
Calm ==
  /\ secret' = secret
  /\ ~Restart /\ ~Tick
  /\ \A w \in Workers :
       /\ ~ReadFails(w) /\ ~SaveFails(w) /\ ~Leave(w)
       /\ ~(ReadSecretFails(w) /\ orders[req[w].ref] # None)

(* A sender that keeps redelivering settles the order in the end, once the *)
(* trouble is over, whatever came before: retries given up, secrets        *)
(* replaced under way, restarts, and other requests all the time.          *)
EventuallySettled ==
  \A r \in Refs :
    <>[][Calm]_dvars /\ []<><<GoodArrival(r)>>_dvars =>
      <>(orders[r] # None /\ Final(orders[r]))
=============================================================================
