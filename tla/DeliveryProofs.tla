--------------------------- MODULE DeliveryProofs ---------------------------
(* Machine-checked proofs about Delivery, for every value of its constants. *)
EXTENDS Delivery, PaymentsProofs

-----------------------------------------------------------------------------
(* Delivery is Payments with more detail: each of its steps is a step of   *)
(* Payments or leaves Payments' variables alone.                           *)

LEMMA StepIsPayments ==
  ASSUME DeliveryTypeOK, [DeliveryNext]_dvars
  PROVE  [Next]_vars
<1>1. ASSUME NEW w \in Workers, Handle(w) PROVE Serve(w)
  <2>1. CASE \E d \in Requests, b \in Secrets, a \in Ages : Arrive(w, d, [by |-> b, age |-> a])
    BY <2>1 DEF Arrive, Serve
  <2>2. CASE ReadSecret(w) \/ ReadSecretFails(w) \/ LetIn(w) \/ TurnAway(w)
    BY <2>2 DEF ReadSecret, ReadSecretFails, LetIn, TurnAway, Serve
  <2>3. CASE Replay(w)
    BY <2>3 DEF Replay, Serve, DeliveryTypeOK, Entries
  <2>4. CASE \E d \in Typed : ReplayTyped(w, d)
    BY <2>4, TypedAssumption DEF ReplayTyped, Serve
  <2>5. CASE Work(w) \/ Leave(w)
    BY <2>5 DEF Work, Leave, Serve
  <2>6. CASE \E delivered \in BOOLEAN : Finish(w, delivered)
    BY <2>6 DEF Finish, Serve
  <2>7. QED
    BY <1>1, <2>1, <2>2, <2>3, <2>4, <2>5, <2>6 DEF Handle
<1>2. CASE Sell \/ Restart
  BY <1>2 DEF Sell, Restart, Next
<1>3. CASE Malformed \/ View \/ (\E h \in Hosts : Rotate(h)) \/ Tick \/ UNCHANGED dvars
  BY <1>3 DEF Malformed, View, Rotate, Tick, dvars
<1>4. QED
  BY <1>1, <1>2, <1>3 DEF DeliveryNext, Next

-----------------------------------------------------------------------------
(* The inductive invariant.  What was vouched for stays so, hence it is    *)
(* carried from the signature check through the handler into the order and *)
(* the log, and from the log through the page back into a handler.  A      *)
(* logged success keeps agreeing with the database because a settled order *)
(* stays settled.                                                          *)

VouchedAs(r, p, s) ==
  s \in GatewayStatuses \/ \E d \in vouched : d.ref = r /\ d.provider = p /\ d.status = s
Vouched(d) == VouchedAs(d.ref, d.provider, d.status)

(* Between a request's arrival and its verdict, the secret its handler has *)
(* read and the one its host has now are among those the host has had.     *)
HeldCurrent ==
  \A w \in Workers : held[w] # {} =>
    /\ req[w] # None
    /\ secret[HostOf[req[w].ref]] \in held[w]
    /\ seen[w] # None => seen[w] \in held[w]

(* A final status of an order is one that a webhook may carry. *)
StatusesCarried ==
  \A r \in Refs : orders[r] # None /\ orders[r].status \in Terminal =>
    orders[r].status \in HookStatuses

OrdersVouched ==
  \A r \in Refs : orders[r] # None /\ orders[r].status \in Terminal =>
    VouchedAs(r, orders[r].provider, orders[r].status)

InService(w) ==
  pc[w] \in {"attempt", "backoff"} \/ (pc[w] = "replied" /\ reply[w] # "unauthorized")

HandlersVouched == \A w \in Workers : InService(w) => Vouched(req[w])

EntryTrue(e) == Vouched(e.req) /\ (e.ok => Settled(e.req, e.req.status))

LogTrue ==
  /\ \A i \in DOMAIN log : log[i] # None => EntryTrue(log[i])
  /\ page # None => EntryTrue(page)

DeliveryInv ==
  /\ Inv
  /\ DeliveryTypeOK
  /\ HeldCurrent
  /\ StatusesCarried
  /\ OrdersVouched
  /\ HandlersVouched
  /\ LogTrue

LEMMA DeliveryInvInit == DeliveryInit => DeliveryInv
<1> SUFFICES ASSUME DeliveryInit PROVE DeliveryInv
  OBVIOUS
<1>1. Inv
  BY InvInit DEF DeliveryInit
<1>2. DeliveryTypeOK
  BY HostsAssumption, LogAssumption DEF DeliveryInit, DeliveryTypeOK, Init
<1>3. HeldCurrent /\ StatusesCarried /\ OrdersVouched /\ HandlersVouched /\ LogTrue
  BY DEF DeliveryInit, HeldCurrent, StatusesCarried, OrdersVouched, HandlersVouched, LogTrue,
         InService, Init
<1>4. QED
  BY <1>1, <1>2, <1>3 DEF DeliveryInv

(* The log: the entries of a longer log are those of the old one, and one  *)
(* more.                                                                   *)
LEMMA LogKept ==
  ASSUME NEW S, NEW l \in Seq(S), Len(l) <= MaxLogs, NEW e \in S
  PROVE  /\ KeepLatest(Append(l, e)) \in Seq(S)
         /\ Len(KeepLatest(Append(l, e))) <= MaxLogs
         /\ \A i \in DOMAIN KeepLatest(Append(l, e)) :
              \/ KeepLatest(Append(l, e))[i] = e
              \/ \E j \in DOMAIN l : KeepLatest(Append(l, e))[i] = l[j]
<1> DEFINE m == Append(l, e)
<1>1. m \in Seq(S) /\ Len(m) = Len(l) + 1 /\ Len(l) \in Nat
  OBVIOUS
<1>2. \A i \in 1 .. Len(m) : m[i] = e \/ \E j \in DOMAIN l : m[i] = l[j]
  OBVIOUS
<1>3. CASE Len(m) <= MaxLogs
  BY <1>1, <1>2, <1>3, LogAssumption DEF KeepLatest
<1>4. CASE Len(m) > MaxLogs
  <2>1. Len(m) = MaxLogs + 1 /\ Len(m) - MaxLogs + 1 = 2
    BY <1>1, <1>4, LogAssumption
  <2>2. KeepLatest(m) = SubSeq(m, 2, Len(m))
    BY <1>4, <2>1 DEF KeepLatest
  <2> HIDE DEF m
  <2>3. /\ SubSeq(m, 2, Len(m)) \in Seq(S)
        /\ Len(SubSeq(m, 2, Len(m))) = MaxLogs
        /\ \A i \in 1 .. MaxLogs : SubSeq(m, 2, Len(m))[i] = m[i + 1]
    BY <1>1, <2>1, LogAssumption
  <2>4. QED
    BY <1>1, <1>2, <2>1, <2>2, <2>3, LogAssumption DEF m
<1>5. QED
  BY <1>1, <1>3, <1>4, LogAssumption

-----------------------------------------------------------------------------
(* Every step preserves the invariant.                                     *)

LEMMA VouchedGrows ==
  ASSUME [DeliveryNext]_dvars
  PROVE  vouched \subseteq vouched'
BY DEF DeliveryNext, dvars, Sell, Handle, Arrive, ReadSecret, ReadSecretFails, LetIn, TurnAway,
       Replay, ReplayTyped, Work, Leave, Finish, Malformed, View, Rotate, Tick, Restart

LEMMA LogEntryTyped ==
  ASSUME DeliveryInv, NEW w \in Workers, pc[w] = "replied", reply[w] # "unauthorized"
  PROVE  LogEntry(w) \in Entries /\ EntryTrue(LogEntry(w))
<1> DEFINE d == req[w]
<1>1. d \in Requests /\ Vouched(d)
  BY DEF DeliveryInv, Inv, TypeOK, HandlersVouched, InService
<1>2. CASE reply[w] \in Statuses
  <2>1. Settled(d, reply[w])
    BY <1>2 DEF DeliveryInv, Inv, AnswersSettled
  <2>2. reply[w] \in HookStatuses /\ VouchedAs(d.ref, d.provider, reply[w])
    BY <1>1, <2>1 DEF Settled, DeliveryInv, StatusesCarried, OrdersVouched, Requests
  <2>3. LogEntry(w) = [req |-> [d EXCEPT !.status = reply[w]], ok |-> TRUE]
    BY <1>2 DEF LogEntry
  <2> DEFINE e == [d EXCEPT !.status = reply[w]]
  <2>4. /\ e \in Requests
        /\ e.ref = d.ref /\ e.provider = d.provider /\ e.status = reply[w]
    BY <1>1, <2>2 DEF Requests
  <2>5. Vouched(e) /\ Settled(e, e.status)
    BY <2>1, <2>2, <2>4 DEF Vouched, Settled
  <2> HIDE DEF e
  <2>6. LogEntry(w) \in Entries /\ LogEntry(w).req = e
    BY <2>3, <2>4 DEF Entries, e
  <2>7. QED
    BY <2>5, <2>6 DEF EntryTrue
<1>3. CASE reply[w] \notin Statuses
  BY <1>1, <1>3 DEF LogEntry, Entries, EntryTrue
<1>4. QED
  BY <1>2, <1>3

(* The entries of the log after a step: older ones, or what a handler has  *)
(* just done.                                                              *)
LEMMA LogStep ==
  ASSUME DeliveryInv, [DeliveryNext]_dvars
  PROVE  /\ log' \in Seq(Entries \cup {None}) /\ Len(log') <= MaxLogs
         /\ \A i \in DOMAIN log' : log'[i] # None =>
              \/ \E j \in DOMAIN log : log'[i] = log[j]
              \/ EntryTrue(log'[i])
         /\ page' \in Entries \cup {None}
         /\ \/ page' = page
            \/ \E j \in DOMAIN log : log[j] # None /\ page' = log[j]
<1>0. /\ log \in Seq(Entries \cup {None}) /\ Len(log) <= MaxLogs
      /\ page \in Entries \cup {None}
  BY DEF DeliveryInv, DeliveryTypeOK
<1>1. CASE UNCHANGED <<log, page>>
  BY <1>0, <1>1
<1>2. CASE Malformed
  BY <1>0, <1>2, LogKept DEF Malformed, recordCallbackLog
<1>3. ASSUME NEW w \in Workers, NEW delivered \in BOOLEAN, Finish(w, delivered),
             reply[w] # "unauthorized"
      PROVE  /\ log' \in Seq(Entries \cup {None}) /\ Len(log') <= MaxLogs
             /\ \A i \in DOMAIN log' :
                  \/ \E j \in DOMAIN log : log'[i] = log[j]
                  \/ EntryTrue(log'[i])
             /\ page' = page
  <2>1. LogEntry(w) \in Entries /\ EntryTrue(LogEntry(w))
    BY <1>3, LogEntryTyped DEF Finish, Respond
  <2>2. log' = KeepLatest(Append(log, LogEntry(w))) /\ page' = page
    BY <1>3 DEF Finish, recordCallbackLog
  <2>3. /\ log' \in Seq(Entries \cup {None}) /\ Len(log') <= MaxLogs
        /\ \A i \in DOMAIN log' : log'[i] = LogEntry(w) \/ \E j \in DOMAIN log : log'[i] = log[j]
    BY <1>0, <2>1, <2>2, LogKept
  <2>4. ASSUME NEW e, e = LogEntry(w) PROVE EntryTrue(e)
    BY <2>1, <2>4
  <2>5. QED
    BY <2>2, <2>3, <2>4
<1>4. CASE View
  BY <1>0, <1>4 DEF View
<1>5. CASE Restart
  BY <1>0, <1>5, LogAssumption DEF Restart
<1>6. ASSUME NEW w \in Workers, Handle(w), ~UNCHANGED <<log, page>>
      PROVE  \E delivered \in BOOLEAN : Finish(w, delivered) /\ reply[w] # "unauthorized"
  BY <1>6 DEF Handle, Arrive, ReadSecret, ReadSecretFails, LetIn, TurnAway, Replay, ReplayTyped,
              Work, Leave, Finish
<1>7. CASE Sell \/ (\E h \in Hosts : Rotate(h)) \/ Tick \/ UNCHANGED dvars
  BY <1>1, <1>7 DEF Sell, Rotate, Tick, dvars
<1>8. QED
  BY <1>0, <1>1, <1>2, <1>3, <1>4, <1>5, <1>6, <1>7 DEF DeliveryNext

HeldTyped ==
  /\ held \in [Workers -> SUBSET Secrets]
  /\ \A w \in Workers : sig[w] # None <=> held[w] # {}

LEMMA HeldStep ==
  ASSUME DeliveryInv, [DeliveryNext]_dvars
  PROVE  HeldTyped' /\ HeldCurrent'
<1>0. DeliveryTypeOK /\ TypeOK /\ HeldCurrent
  BY DEF DeliveryInv, Inv
<1>1. HeldTyped
  BY <1>0 DEF DeliveryTypeOK, HeldTyped
<1>2. \A w \in Workers : held[w] # {} <=> pc[w] \in {"lookup", "auth"}
  BY <1>0 DEF DeliveryTypeOK
<1>3. ASSUME NEW w \in Workers, Handle(w) PROVE HeldTyped' /\ HeldCurrent'
  <2>1. ASSUME NEW d \in Requests, NEW b \in Secrets, NEW a \in Ages,
               Arrive(w, d, [by |-> b, age |-> a])
        PROVE  HeldTyped' /\ HeldCurrent'
    <3>1. secret[HostOf[d.ref]] \in Secrets /\ d # None
      BY <1>0, HostsAssumption, NoneAssumption DEF DeliveryTypeOK, Requests
    <3>2. [by |-> b, age |-> a] # None
      BY TimeAssumption, NoEntryAssumption DEF Signatures
    <3>3. seen[w] = None
      BY <1>0, <2>1 DEF Arrive, Receive, DeliveryTypeOK
    <3>4. QED
      BY <1>0, <1>1, <2>1, <3>1, <3>2, <3>3
      DEF Arrive, Receive, TypeOK, DeliveryTypeOK, HeldTyped, HeldCurrent
  <2>2. CASE ReadSecret(w)
    BY <1>0, <1>1, <2>2 DEF ReadSecret, Lookup, TypeOK, DeliveryTypeOK, HeldTyped, HeldCurrent
  <2>3. CASE ReadSecretFails(w)
    BY <1>0, <1>1, <2>3
    DEF ReadSecretFails, LookupFails, Answer, TypeOK, DeliveryTypeOK, HeldTyped, HeldCurrent
  <2>4. CASE LetIn(w) \/ TurnAway(w)
    BY <1>0, <1>1, <2>4
    DEF LetIn, TurnAway, ForgetSignature, Authorize, Refuse, Answer, TypeOK, DeliveryTypeOK,
        HeldTyped, HeldCurrent
  <2>5. CASE Replay(w) \/ (\E d \in Typed : ReplayTyped(w, d)) \/ Work(w) \/ Leave(w)
             \/ \E delivered \in BOOLEAN : Finish(w, delivered)
    <3>1. UNCHANGED <<secret, sig, seen, held>>
      BY <2>5 DEF Replay, ReplayTyped, Work, Leave, Finish, auth
    <3>2. held[w] = {}
      BY <1>2, <2>5 DEF Replay, ReplayTyped, Receive, Work, Reconcile, ReadFails, Reject, Repeat,
         DeadLetter, Settle, SaveFails, Locked, Backoff, Leave, Cancel, Finish, Respond
    <3>3. \A v \in Workers \ {w} : req'[v] = req[v]
      BY <1>0, <2>5 DEF Replay, ReplayTyped, Receive, Work, Reconcile, ReadFails, Reject, Repeat,
         DeadLetter, Settle, SaveFails, Backoff, FailAttempt, Answer, Leave, Cancel, Finish,
         Respond, TypeOK
    <3>4. QED
      BY <1>0, <1>1, <3>1, <3>2, <3>3 DEF HeldTyped, HeldCurrent
  <2>6. QED
    BY <1>3, <2>1, <2>2, <2>3, <2>4, <2>5 DEF Handle
<1>4. ASSUME NEW h \in Hosts, Rotate(h) PROVE HeldTyped' /\ HeldCurrent'
  <2>1. PICK s \in Secrets :
          /\ secret' = [secret EXCEPT ![h] = s]
          /\ held' = [w \in Workers |->
               IF held[w] # {} /\ HostOf[req[w].ref] = h THEN held[w] \cup {s} ELSE held[w]]
    BY <1>4 DEF Rotate
  <2>2. s \in Secrets /\ secret \in [Hosts -> Secrets]
    BY <1>0, HostsAssumption DEF DeliveryTypeOK
  <2>3. UNCHANGED <<sig, seen, req>>
    BY <1>4 DEF Rotate, vars, handler
  <2>4. ASSUME NEW w \in Workers
        PROVE  /\ held'[w] \subseteq Secrets
               /\ held[w] \subseteq held'[w]
               /\ held'[w] # {} <=> held[w] # {}
               /\ held[w] # {} => secret'[HostOf[req[w].ref]] \in held'[w]
    BY <1>0, <1>1, <2>1, <2>2 DEF HeldTyped, HeldCurrent
  <2>5. held' \in [Workers -> SUBSET Secrets]
    BY <2>1, <2>4
  <2>6. QED
    BY <1>0, <1>1, <2>3, <2>4, <2>5 DEF HeldTyped, HeldCurrent
<1>5. CASE Restart
  BY <1>0, <1>5 DEF Restart, Crash, HeldTyped, HeldCurrent
<1>6. CASE Tick
  <2>1. \A w \in Workers : sig'[w] # None <=> sig[w] # None
    BY <1>0, <1>6, NoEntryAssumption DEF Tick, DeliveryTypeOK, Signatures
  <2>2. UNCHANGED <<secret, seen, held, req>>
    BY <1>6 DEF Tick, vars, handler
  <2>3. QED
    BY <1>0, <1>1, <2>1, <2>2 DEF HeldTyped, HeldCurrent
<1>7. CASE Sell \/ Malformed \/ View \/ UNCHANGED dvars
  <2>1. UNCHANGED <<secret, sig, seen, held, req>>
    BY <1>7 DEF Sell, Malformed, View, dvars, auth, vars, handler, Create, CreateBegin,
                GatewayAnswers, GatewayFails, CreateSave, CreateSaveFails
  <2>2. QED
    BY <1>0, <1>1, <2>1 DEF HeldTyped, HeldCurrent
<1>8. QED
  BY <1>3, <1>4, <1>5, <1>6, <1>7 DEF DeliveryNext

LEMMA DeliveryTypeStep ==
  ASSUME DeliveryInv, [DeliveryNext]_dvars
  PROVE  DeliveryTypeOK' /\ HeldCurrent'
<1>0. DeliveryTypeOK /\ TypeOK
  BY DEF DeliveryInv, Inv
<1>1. /\ log' \in Seq(Entries \cup {None}) /\ Len(log') <= MaxLogs
      /\ page' \in Entries \cup {None}
  BY LogStep
<1>2. secret' \in [Hosts -> Secrets]
  BY <1>0 DEF DeliveryTypeOK, DeliveryNext, dvars, Sell, Handle, Arrive, ReadSecret,
     ReadSecretFails, LetIn, TurnAway, Replay, ReplayTyped, Work, Leave, Finish, Malformed, View,
     Rotate, Tick, Restart
<1>3. vouched' \subseteq Requests
  BY <1>0, TypedAssumption DEF DeliveryTypeOK, TypeOK, DeliveryNext, dvars, Sell, Handle, Arrive,
     ReadSecret, ReadSecretFails, LetIn, TurnAway, Replay, ReplayTyped, Work, Leave, Finish,
     Malformed, View, Rotate, Tick, Restart, Authorize
<1> DEFINE Locals ==
      /\ sig \in [Workers -> Signatures \cup {None}]
      /\ seen \in [Workers -> Secrets \cup {None}]
      /\ \A w \in Workers :
           /\ pc[w] \in {"lookup", "auth"} <=> sig[w] # None
           /\ pc[w] = "auth" <=> seen[w] # None
<1>4. Locals
  BY <1>0 DEF DeliveryTypeOK
<1>5. ASSUME NEW w \in Workers, Handle(w) PROVE Locals'
  <2>1. ASSUME NEW d \in Requests, NEW b \in Secrets, NEW a \in Ages,
               Arrive(w, d, [by |-> b, age |-> a])
        PROVE  Locals'
    <3>1. [by |-> b, age |-> a] \in Signatures /\ [by |-> b, age |-> a] # None
      BY TimeAssumption, NoEntryAssumption DEF Signatures
    <3>2. QED
      BY <1>0, <1>4, <2>1, <3>1 DEF Arrive, Receive, TypeOK
  <2>2. CASE ReadSecret(w)
    <3>1. HostOf[req[w].ref] \in Hosts /\ secret[HostOf[req[w].ref]] \in Secrets
      BY <1>0, <2>2, HostsAssumption DEF ReadSecret, Lookup, TypeOK, Requests, DeliveryTypeOK
    <3>2. QED
      BY <1>0, <1>4, <2>2, <3>1, HostsAssumption DEF ReadSecret, Lookup, TypeOK
  <2>3. CASE ReadSecretFails(w)
    BY <1>0, <1>4, <2>3 DEF ReadSecretFails, LookupFails, Answer, TypeOK
  <2>4. CASE LetIn(w) \/ TurnAway(w)
    BY <1>0, <1>4, <2>4 DEF LetIn, TurnAway, ForgetSignature, Authorize, Refuse, Answer, TypeOK
  <2>5. CASE Replay(w) \/ \E d \in Typed : ReplayTyped(w, d)
    BY <1>0, <1>4, <2>5 DEF Replay, ReplayTyped, Receive, auth, TypeOK
  <2>6. CASE Work(w)
    BY <1>0, <1>4, <2>6 DEF Work, auth, Reconcile, ReadFails, Reject, Repeat, DeadLetter, Settle,
       SaveFails, Locked, FailAttempt, Answer, Backoff, TypeOK
  <2>7. CASE Leave(w) \/ \E delivered \in BOOLEAN : Finish(w, delivered)
    BY <1>0, <1>4, <2>7 DEF Leave, Finish, auth, Cancel, Respond, Answer, TypeOK
  <2>8. QED
    BY <1>5, <2>1, <2>2, <2>3, <2>4, <2>5, <2>6, <2>7 DEF Handle
<1>6. ASSUME Tick PROVE Locals'
  <2>1. sig' \in [Workers -> Signatures \cup {None}]
    BY <1>4, <1>6 DEF Tick, Signatures
  <2>2. \A w \in Workers : sig'[w] # None <=> sig[w] # None
    BY <1>4, <1>6, NoEntryAssumption DEF Tick, Signatures
  <2>3. QED
    BY <1>4, <1>6, <2>1, <2>2 DEF Tick, vars, handler
<1>7. ASSUME Restart PROVE Locals'
  BY <1>0, <1>7 DEF Restart, Crash
<1>8. ASSUME Sell \/ Malformed \/ View \/ (\E h \in Hosts : Rotate(h)) \/ UNCHANGED dvars
      PROVE  Locals'
  <2>1. UNCHANGED <<sig, seen, pc, req>>
    BY <1>8 DEF Sell, Malformed, View, Rotate, dvars, auth, vars, handler, Create, CreateBegin,
                GatewayAnswers, GatewayFails, CreateSave, CreateSaveFails
  <2>2. QED
    BY <1>4, <2>1
<1>9. Locals'
  BY <1>5, <1>6, <1>7, <1>8 DEF DeliveryNext
<1>10. QED
  BY <1>1, <1>2, <1>3, <1>9, HeldStep DEF DeliveryTypeOK, HeldTyped

(* A step that changes an order creates it or settles it for a handler.    *)
LEMMA OrdersChange ==
  ASSUME DeliveryInv, [DeliveryNext]_dvars
  PROVE  \/ UNCHANGED orders
         \/ CreateSave /\ vouched' = vouched
         \/ \E w \in Workers : Settle(w) /\ vouched' = vouched
<1>1. CASE Sell
  BY <1>1 DEF Sell, Create, CreateBegin, GatewayAnswers, GatewayFails, CreateSaveFails, store
<1>2. ASSUME NEW w \in Workers, Handle(w)
      PROVE  UNCHANGED orders \/ (Settle(w) /\ vouched' = vouched)
  <2>1. CASE Work(w)
    BY <2>1 DEF Work, Reconcile, ReadFails, Reject, Repeat, DeadLetter, SaveFails, Backoff, store
  <2>2. CASE ~Work(w)
    BY <1>2, <2>2 DEF Handle, Arrive, ReadSecret, ReadSecretFails, LetIn, TurnAway, Replay,
       ReplayTyped, Leave, Finish, Receive, Lookup, LookupFails, Authorize, Refuse, Cancel,
       Respond, store
  <2>3. QED
    BY <2>1, <2>2
<1>3. CASE Malformed \/ View \/ (\E h \in Hosts : Rotate(h)) \/ Tick \/ Restart \/ UNCHANGED dvars
  BY <1>3 DEF Malformed, View, Rotate, Tick, Restart, Crash, dvars, vars, store
<1>4. QED
  BY <1>1, <1>2, <1>3 DEF DeliveryNext

LEMMA OrdersVouchedStep ==
  ASSUME DeliveryInv, [DeliveryNext]_dvars
  PROVE  StatusesCarried' /\ OrdersVouched'
<1>0. TypeOK
  BY DEF DeliveryInv, Inv
<1>1. CASE UNCHANGED orders
  BY <1>1, VouchedGrows DEF DeliveryInv, StatusesCarried, OrdersVouched, VouchedAs
<1>2. CASE CreateSave /\ vouched' = vouched
  <2>1. PICK o : /\ orders' = [orders EXCEPT ![creating.ref] = o]
                 /\ o.status \in Terminal => o.status \in GatewayStatuses
    <3> DEFINE status == IF creating.answer = "" THEN "created" ELSE creating.answer
    <3>1. creating \in Creations /\ creating.answer \in GatewayStatuses
      BY <1>0, <1>2 DEF CreateSave, Answered, TypeOK, Creations
    <3>2. status \in Terminal => status \in GatewayStatuses
      BY <3>1 DEF Terminal
    <3> HIDE DEF status
    <3>3. orders' = [orders EXCEPT ![creating.ref] =
            [provider |-> creating.provider, quote |-> creating.quote, status |-> status]]
      BY <1>2 DEF CreateSave, SaveOrder, status
    <3> DEFINE new == [provider |-> creating.provider, quote |-> creating.quote,
                       status |-> status]
    <3>4. new.status = status
      OBVIOUS
    <3> HIDE DEF new
    <3>5. QED
      BY <3>2, <3>3, <3>4 DEF new
  <2>2. creating.ref \in Refs
    BY <1>0, <1>2 DEF CreateSave, TypeOK, Creations
  <2>3. \A r \in Refs : orders'[r] = IF r = creating.ref THEN o ELSE orders[r]
    BY <1>0, <2>1, <2>2 DEF TypeOK
  <2>4. StatusesCarried'
    BY <2>1, <2>3, StatusAssumption DEF DeliveryInv, StatusesCarried
  <2>5. OrdersVouched'
    BY <1>2, <2>1, <2>3 DEF DeliveryInv, OrdersVouched, VouchedAs
  <2>6. QED
    BY <2>4, <2>5
<1>3. ASSUME NEW w \in Workers, Settle(w), vouched' = vouched
      PROVE  StatusesCarried' /\ OrdersVouched'
  <2> DEFINE d == req[w]
  <2>1. /\ d \in Requests /\ orders[d.ref] \in Orders
        /\ orders[d.ref].provider = d.provider
        /\ orders' = [orders EXCEPT ![d.ref] = [@ EXCEPT !.status = d.status]]
    BY <1>3, SettleEffect DEF DeliveryInv
  <2>2. VouchedAs(d.ref, d.provider, d.status)
    BY <1>3 DEF DeliveryInv, HandlersVouched, InService, Settle, Locked, Vouched
  <2>3. d.ref \in Refs /\ d.status \in HookStatuses
    BY <2>1 DEF Requests
  <2> HIDE DEF d
  <2>4. \A r \in Refs \ {d.ref} : orders'[r] = orders[r]
    BY <1>0, <2>1 DEF TypeOK
  <2>5. orders'[d.ref].provider = d.provider /\ orders'[d.ref].status = d.status
    BY <1>0, <2>1, <2>3 DEF TypeOK, Orders
  <2>6. StatusesCarried'
    BY <2>3, <2>4, <2>5 DEF DeliveryInv, StatusesCarried
  <2>7. OrdersVouched'
    BY <1>3, <2>2, <2>4, <2>5 DEF DeliveryInv, OrdersVouched, VouchedAs
  <2>8. QED
    BY <2>6, <2>7
<1>4. QED
  BY <1>1, <1>2, <1>3, OrdersChange

(* Nobody gets past the signature check, or in from the console, with a    *)
(* request that nobody vouched for.                                        *)
LEMMA HandlersVouchedStep ==
  ASSUME DeliveryInv, [DeliveryNext]_dvars
  PROVE  HandlersVouched'
<1>0. TypeOK /\ DeliveryTypeOK
  BY DEF DeliveryInv, Inv
<1>1. ASSUME NEW v \in Workers, InService(v), req'[v] = req[v] PROVE Vouched(req[v])'
  BY <1>1, VouchedGrows DEF DeliveryInv, HandlersVouched, Vouched, VouchedAs
<1>2. ASSUME NEW w \in Workers, Handle(w), NEW v \in Workers, InService(v)'
      PROVE  Vouched(req[v])'
  <2>1. CASE LetIn(w) /\ v = w
    <3>1. sig[w].by = seen[w] /\ seen[w] \in held[w]
      BY <2>1, <1>0 DEF LetIn, Authorize, Verifies, DeliveryTypeOK, DeliveryInv, HeldCurrent
    <3>2. req[w] \in vouched' /\ req'[w] = req[w]
      BY <2>1, <3>1 DEF LetIn, Authorize
    <3>3. QED
      BY <2>1, <3>2 DEF Vouched, VouchedAs
  <2>2. CASE Replay(w) /\ v = w
    <3>1. EntryTrue(page) /\ req'[w] = page.req
      BY <1>0, <2>2 DEF Replay, Receive, DeliveryInv, LogTrue, TypeOK
    <3>2. QED
      BY <2>2, <3>1, VouchedGrows DEF EntryTrue, Vouched, VouchedAs
  <2>3. CASE (\E d \in Typed : ReplayTyped(w, d)) /\ v = w
    BY <1>0, <2>3 DEF ReplayTyped, Receive, TypeOK, Vouched, VouchedAs
  <2>4. CASE ~(v = w /\ (LetIn(w) \/ Replay(w) \/ \E d \in Typed : ReplayTyped(w, d)))
    <3>1. CASE v # w
      <4>1. pc'[v] = pc[v] /\ req'[v] = req[v] /\ reply'[v] = reply[v]
        BY <1>0, <1>2, <3>1 DEF Handle, Arrive, ReadSecret, ReadSecretFails, LetIn, TurnAway,
           Replay, ReplayTyped, Work, Leave, Finish, Receive, Lookup, LookupFails, Authorize,
           Refuse, Reconcile, ReadFails, Reject, Repeat, DeadLetter, Settle, SaveFails, Backoff,
           Cancel, Respond, FailAttempt, Answer, TypeOK
      <4>2. QED
        BY <1>1, <1>2, <4>1 DEF InService
    <3>2. CASE v = w
      <4>1. CASE Work(w) \/ Leave(w)
        <5>1. InService(v) /\ req'[v] = req[v]
          BY <1>0, <3>2, <4>1 DEF Work, Leave, Reconcile, ReadFails, Reject, Repeat, DeadLetter,
             Settle, SaveFails, Locked, Backoff, Cancel, FailAttempt, Answer, InService
        <5>2. QED
          BY <1>1, <5>1
      <4>2. CASE ~(Work(w) \/ Leave(w))
        BY <1>0, <1>2, <2>4, <3>2, <4>2 DEF Handle, Arrive, ReadSecret, ReadSecretFails, TurnAway,
           Finish, Receive, Lookup, LookupFails, Refuse, Respond, Answer, TypeOK, InService
      <4>3. QED
        BY <4>1, <4>2
    <3>3. QED
      BY <3>1, <3>2
  <2>5. QED
    BY <2>1, <2>2, <2>3, <2>4
<1>3. CASE Sell \/ Malformed \/ View \/ (\E h \in Hosts : Rotate(h)) \/ Tick \/ UNCHANGED dvars
  <2>1. UNCHANGED <<pc, req, reply>>
    BY <1>3 DEF Sell, Malformed, View, Rotate, Tick, dvars, vars, handler, Create, CreateBegin,
                GatewayAnswers, GatewayFails, CreateSave, CreateSaveFails
  <2>2. QED
    BY <1>1, <2>1 DEF HandlersVouched, InService
<1>4. CASE Restart
  BY <1>4 DEF Restart, Crash, HandlersVouched, InService
<1>5. QED
  BY <1>2, <1>3, <1>4 DEF DeliveryNext, HandlersVouched

LEMMA SettledStays ==
  ASSUME DeliveryInv, [DeliveryNext]_dvars, NEW d \in Requests, NEW s, Settled(d, s)
  PROVE  Settled(d, s)'
<1>1. [Next]_vars /\ Inv
  BY StepIsPayments DEF DeliveryInv
<1>2. d.ref \in Refs /\ orders[d.ref] # None /\ orders[d.ref].status \in Terminal
  BY DEF Requests, Settled
<1>3. orders'[d.ref] = orders[d.ref]
  BY <1>1, <1>2, OrderStep
<1>4. QED
  BY <1>3 DEF Settled

LEMMA LogTrueStep ==
  ASSUME DeliveryInv, [DeliveryNext]_dvars
  PROVE  LogTrue'
<1>1. ASSUME NEW e \in Entries, EntryTrue(e) PROVE EntryTrue(e)'
  <2>1. e.req \in Requests
    BY DEF Entries
  <2>2. Vouched(e.req)'
    BY <1>1, VouchedGrows DEF EntryTrue, Vouched, VouchedAs
  <2>3. e.ok => Settled(e.req, e.req.status)'
    BY <1>1, <2>1, SettledStays DEF EntryTrue
  <2>4. QED
    BY <2>2, <2>3 DEF EntryTrue
<1>2. \A i \in DOMAIN log : log[i] \in Entries \cup {None}
  BY DEF DeliveryInv, DeliveryTypeOK
<1>3. ASSUME NEW i \in DOMAIN log', log'[i] # None
      PROVE  \E e \in Entries : e = log'[i] /\ EntryTrue(e)'
  <2>1. PICK e \in Entries : e = log'[i] /\ EntryTrue(e)
    BY <1>2, <1>3, LogStep DEF DeliveryInv, LogTrue
  <2>2. QED
    BY <1>1, <2>1
<1>4. ASSUME page' # None PROVE \E e \in Entries : e = page' /\ EntryTrue(e)'
  <2>1. PICK e \in Entries : e = page' /\ EntryTrue(e)
    BY <1>2, <1>4, LogStep DEF DeliveryInv, DeliveryTypeOK, LogTrue
  <2>2. QED
    BY <1>1, <2>1
<1>5. QED
  BY <1>3, <1>4 DEF LogTrue, EntryTrue, Vouched, VouchedAs, Settled

LEMMA DeliveryInvStep == DeliveryInv /\ [DeliveryNext]_dvars => DeliveryInv'
<1> SUFFICES ASSUME DeliveryInv, [DeliveryNext]_dvars PROVE DeliveryInv'
  OBVIOUS
<1>1. Inv'
  BY StepIsPayments, InvStep DEF DeliveryInv
<1>2. QED
  BY <1>1, DeliveryTypeStep, OrdersVouchedStep, HandlersVouchedStep, LogTrueStep DEF DeliveryInv

LEMMA DeliveryInvariant == DeliverySpec => []DeliveryInv
BY DeliveryInvInit, DeliveryInvStep, PTL DEF DeliverySpec

-----------------------------------------------------------------------------
(* The theorems.                                                           *)

(* Every behaviour with signatures, rotation and the log is a behaviour of *)
(* Payments: what is proved there of Spec holds here.                      *)
THEOREM ComposedIsPayments == DeliverySpec => Spec
<1>1. DeliveryInit => Init
  BY DEF DeliveryInit
<1>2. DeliveryInv /\ [DeliveryNext]_dvars => [Next]_vars
  BY StepIsPayments DEF DeliveryInv
<1>3. QED
  BY <1>1, <1>2, DeliveryInvariant, PTL DEF DeliverySpec, Spec

(* The log never exceeds its limit and holds complete entries or gaps, a   *)
(* handler has a signature exactly until it has checked it, and a host has *)
(* a secret at any time.                                                   *)
THEOREM DeliveryTypeCorrect == DeliverySpec => []DeliveryTypeOK
<1>1. DeliveryInv => DeliveryTypeOK
  BY DEF DeliveryInv
<1>2. QED
  BY <1>1, DeliveryInvariant, PTL

(* No order is settled but as its gateway said, an admin, or whoever signs *)
(* with a secret that its host was registered with at some moment between  *)
(* the arrival of the webhook and the verdict on it, however the secrets   *)
(* are replaced and the log replayed.                                      *)
THEOREM SettledByOwner == DeliverySpec => []AuthenticOutcomes
<1>1. DeliveryInv => AuthenticOutcomes
  BY DEF DeliveryInv, OrdersVouched, VouchedAs, AuthenticOutcomes
<1>2. QED
  BY <1>1, DeliveryInvariant, PTL

LEMMA SucceededSettled ==
  ASSUME DeliveryInv, NEW d \in Succeeded
  PROVE  d \in Requests /\ Settled(d, d.status)
<1>1. PICK e \in Entries : e.ok /\ e.req = d /\ EntryTrue(e)
  BY DEF Succeeded, DeliveryInv, DeliveryTypeOK, LogTrue
<1>2. QED
  BY <1>1 DEF EntryTrue, Entries

(* A success in the callback log is a settled order in the database.       *)
THEOREM LogNeverLies == DeliverySpec => []LogTruthful
<1>1. DeliveryInv => LogTruthful
  BY SucceededSettled DEF LogTruthful, Settled
<1>2. QED
  BY <1>1, DeliveryInvariant, PTL

(* A logged success is replayed, never disputed. *)
THEOREM SuccessNeverDisputed == DeliverySpec => SuccessReplays
<1>1. DeliveryInv /\ [DeliveryNext]_dvars =>
        [\A w \in Workers :
           reply[w] # "rejected" /\ reply'[w] = "rejected" => req[w] \notin Succeeded]_dvars
  <2> SUFFICES ASSUME DeliveryInv, [DeliveryNext]_dvars, NEW w \in Workers,
                      reply[w] # "rejected", req[w] \in Succeeded
               PROVE  reply'[w] # "rejected"
    OBVIOUS
  <2>1. req[w] \in Requests /\ Settled(req[w], req[w].status)
    BY SucceededSettled
  <2>2. TypeOK /\ [Next]_vars /\ Known(req[w])
    BY <2>1, StepIsPayments DEF DeliveryInv, Inv, Settled, Known
  <2>3. QED
    BY <2>1, <2>2, RepetitionNotRejected
<1>2. QED
  BY <1>1, DeliveryInvariant, PTL DEF DeliverySpec, SuccessReplays

(* A verdict on a signature judges its age when it is given, and its maker *)
(* by a secret of the host that no replacement before the request's        *)
(* arrival has ended, whatever secrets are replaced meanwhile.             *)
THEOREM VerdictsJustified == DeliverySpec => VerdictJustified
<1>1. DeliveryInv /\ [DeliveryNext]_dvars =>
        [\A w \in Workers :
           pc[w] = "auth" /\ pc'[w] \in {"attempt", "replied"} =>
             \E k \in held[w] :
               pc'[w] = "attempt" <=> sig[w].by = k /\ sig[w].age \in -Window .. Window]_dvars
  <2> SUFFICES ASSUME DeliveryInv, [DeliveryNext]_dvars,
                      NEW w \in Workers, pc[w] = "auth", pc'[w] \in {"attempt", "replied"}
               PROVE  \E k \in held[w] :
                        pc'[w] = "attempt" <=> sig[w].by = k /\ sig[w].age \in -Window .. Window
    OBVIOUS
  <2>0. TypeOK /\ DeliveryTypeOK
    BY DEF DeliveryInv, Inv
  <2>1. seen[w] \in held[w]
    BY <2>0 DEF DeliveryInv, DeliveryTypeOK, HeldCurrent
  <2>2. \/ LetIn(w) /\ pc'[w] = "attempt"
        \/ TurnAway(w) /\ pc'[w] = "replied"
    <3>1. PICK v \in Workers : Handle(v)
      BY <2>0 DEF DeliveryNext, Sell, Malformed, View, Rotate, Tick, Restart, Crash, dvars, vars,
         handler, Create, CreateBegin, GatewayAnswers, GatewayFails, CreateSave, CreateSaveFails,
         TypeOK
    <3>2. v = w
      BY <2>0, <3>1 DEF Handle, Arrive, ReadSecret, ReadSecretFails, LetIn, TurnAway, Replay,
         ReplayTyped, Work, Leave, Finish, Receive, Lookup, LookupFails, Authorize, Refuse,
         Reconcile, ReadFails, Reject, Repeat, DeadLetter, Settle, SaveFails, Backoff, Cancel,
         Respond, FailAttempt, Answer, TypeOK
    <3>3. LetIn(w) \/ TurnAway(w)
      BY <3>1, <3>2 DEF Handle, Arrive, ReadSecret, ReadSecretFails, Replay, ReplayTyped, Work,
         Leave, Finish, Receive, Lookup, LookupFails, Reconcile, ReadFails, Reject, Repeat,
         DeadLetter, Settle, SaveFails, Locked, Backoff, Cancel, Respond
    <3>4. QED
      BY <2>0, <3>3 DEF LetIn, TurnAway, Authorize, Refuse, Answer, TypeOK
  <2>3. QED
    BY <2>1, <2>2 DEF LetIn, TurnAway, Verifies
<1>2. QED
  BY <1>1, DeliveryInvariant, PTL DEF DeliverySpec, VerdictJustified
=============================================================================
