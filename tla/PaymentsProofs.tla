--------------------------- MODULE PaymentsProofs ---------------------------
(* Machine-checked proofs about Payments, for every value of its constants. *)
EXTENDS Payments, TLAPS, WellFoundedInduction

-----------------------------------------------------------------------------
(* Type correctness.                                                       *)

Lines == [ref : Refs, quote : Quotes, sum : {"hash", "id"}]

LEMMA UpsertTyped ==
  ASSUME TypeOK, NEW k \in LedgerKeys, NEW line \in Lines, Upsert(k, line)
  PROVE  /\ ledger' \in [LedgerKeys -> Rows \cup {None}]
         /\ lastRow' \in Nat
<1>1. CASE ledger[k] = None
  BY <1>1 DEF TypeOK, Upsert, Rows, Lines
<1>2. CASE ledger[k] # None
  <2>1. ledger[k] \in Rows
    BY <1>2 DEF TypeOK
  <2>2. [ledger[k] EXCEPT !.quote = line.quote, !.sum = line.sum] \in Rows
    BY <2>1 DEF Rows, Lines
  <2>3. ledger' = [ledger EXCEPT ![k] =
                    [ledger[k] EXCEPT !.quote = line.quote, !.sum = line.sum]]
    BY <1>2 DEF Upsert, TypeOK
  <2>4. QED
    BY <1>2, <2>2, <2>3 DEF TypeOK, Upsert
<1>3. QED
  BY <1>1, <1>2

LEMMA LogTyped ==
  ASSUME TypeOK, NEW e \in Events, NEW r \in Refs, Log(e, r)
  PROVE  audit' \in [Events -> [Refs -> Nat]]
BY DEF TypeOK, Log

LEMMA AnswerTyped ==
  ASSUME TypeOK, NEW w \in Workers, NEW a \in Replies, pc[w] # "idle", Answer(w, a)
  PROVE  /\ pc' \in [Workers -> Places]
         /\ req' \in [Workers -> Requests \cup {None}]
         /\ tries' \in [Workers -> 0 .. MaxAttempts]
         /\ reply' \in [Workers -> Replies]
         /\ \A v \in Workers :
              /\ pc'[v] # "idle" => req'[v] \in Requests
              /\ pc'[v] # "replied" => tries'[v] < MaxAttempts
BY DEF TypeOK, Places, Answer

(* A failed attempt leaves the handler with an attempt to go or an answer. *)
LEMMA FailAttemptTyped ==
  ASSUME TypeOK, NEW w \in Workers, pc[w] = "attempt", FailAttempt(w)
  PROVE  /\ pc' \in [Workers -> Places]
         /\ req' \in [Workers -> Requests \cup {None}]
         /\ tries' \in [Workers -> 0 .. MaxAttempts]
         /\ reply' \in [Workers -> Replies]
         /\ \A v \in Workers :
              /\ pc'[v] # "idle" => req'[v] \in Requests
              /\ pc'[v] # "replied" => tries'[v] < MaxAttempts
<1>1. CASE LastAttempt(tries[w] + 1)
  BY <1>1, AnswerTyped DEF FailAttempt, Replies, Errors
<1>2. CASE ~LastAttempt(tries[w] + 1)
  <2>1. tries[w] \in 0 .. MaxAttempts /\ tries[w] + 1 < MaxAttempts
    BY <1>2, MaxAttemptsAssumption DEF LastAttempt, TypeOK
  <2>2. tries' = [tries EXCEPT ![w] = tries[w] + 1] /\ pc' = [pc EXCEPT ![w] = "backoff"]
        /\ UNCHANGED <<req, reply>>
    BY <1>2 DEF FailAttempt
  <2>3. QED
    BY <2>1, <2>2, MaxAttemptsAssumption DEF TypeOK, Places
<1>3. QED
  BY <1>1, <1>2

LEMMA CreateTyped == TypeOK /\ Create => TypeOK'
<1> SUFFICES ASSUME TypeOK, Create PROVE TypeOK'
  OBVIOUS
<1>1. CASE \E r \in Refs, p \in Providers, q \in Quotes : CreateBegin(r, p, q)
  BY <1>1 DEF TypeOK, CreateBegin, Creations, store, handler
<1>2. CASE \E s \in GatewayStatuses : GatewayAnswers(s)
  BY <1>2 DEF TypeOK, GatewayAnswers, Creations, store, handler
<1>3. CASE \E issued \in BOOLEAN : GatewayFails(issued)
  BY <1>3 DEF TypeOK, GatewayFails, Creations, store, handler
<1>4. CASE CreateSave
  <2> DEFINE c == creating
             status == IF c.answer = "" THEN "created" ELSE c.answer
             order == [provider |-> c.provider, quote |-> c.quote, status |-> status]
  <2>1. c \in Creations /\ c.answer \in GatewayStatuses
    BY <1>4 DEF CreateSave, Answered, TypeOK, Creations
  <2>2. order \in Orders
    BY <2>1 DEF Creations, Orders, Statuses
  <2>3. orders' = [orders EXCEPT ![c.ref] = order]
    BY <1>4 DEF CreateSave, SaveOrder
  <2>4. orders' \in [Refs -> Orders \cup {None}]
    BY <2>1, <2>2, <2>3 DEF TypeOK, Creations
  <2>5. Line(c.ref, c.quote, "hash") \in Lines /\ c.ref \in LedgerKeys
    BY <2>1 DEF Line, Lines, Creations, LedgerKeys
  <2>6. /\ ledger' \in [LedgerKeys -> Rows \cup {None}]
        /\ lastRow' \in Nat
    BY <1>4, <2>5, UpsertTyped DEF CreateSave, SaveOrder, CreationKey
  <2>7. audit' \in [Events -> [Refs -> Nat]]
    BY <1>4, <2>1, LogTyped DEF CreateSave, Events, Creations
  <2>8. QED
    BY <1>4, <2>4, <2>6, <2>7 DEF TypeOK, CreateSave, handler
<1>5. CASE CreateSaveFails
  BY <1>5 DEF TypeOK, CreateSaveFails, store, handler
<1>6. QED
  BY <1>1, <1>2, <1>3, <1>4, <1>5 DEF Create

LEMMA ReconcileTyped ==
  ASSUME TypeOK, NEW w \in Workers, Reconcile(w)
  PROVE  TypeOK'
<1>0. pc[w] = "attempt" /\ req[w] \in Requests
  BY DEF TypeOK, Reconcile, ReadFails, Reject, Repeat, DeadLetter, Settle, SaveFails, Locked
<1>1. CASE ReadFails(w)
  BY <1>0, <1>1, FailAttemptTyped DEF ReadFails, TypeOK, store, memory
<1>2. CASE Reject(w)
  BY <1>0, <1>2, AnswerTyped DEF Reject, TypeOK, store, memory, Replies, Errors
<1>3. CASE Repeat(w)
  <2>1. orders[req[w].ref].status \in Statuses
    BY <1>0, <1>3 DEF Repeat, Known, TypeOK, Orders, Requests
  <2>2. QED
    BY <1>0, <1>3, <2>1, AnswerTyped DEF Repeat, TypeOK, store, memory, Replies
<1>4. CASE DeadLetter(w)
  BY <1>0, <1>4, AnswerTyped DEF DeadLetter, TypeOK, store, Replies, Errors
<1>5. CASE Settle(w)
  <2> DEFINE d == req[w]
             order == [orders[d.ref] EXCEPT !.status = d.status]
  <2>1. /\ d.ref \in Refs /\ d.provider \in Providers /\ d.key \in Keys
        /\ d.status \in Statuses
        /\ orders[d.ref] \in Orders
    BY <1>0, <1>5 DEF Settle, Fresh, Known, Supported, Statuses, TypeOK, Requests
  <2>2. order \in Orders
    BY <2>1 DEF Orders
  <2>3. PICK k \in LedgerKeys, line \in Lines : SaveOrder(d.ref, order, k, line)
    <3>1. CASE \E k \in LatestRow(d.ref) :
                 SaveOrder(d.ref, order, k, Line(d.ref, ledger[k].quote, ledger[k].sum))
      <4>1. PICK k \in LatestRow(d.ref) :
                 SaveOrder(d.ref, order, k, Line(d.ref, ledger[k].quote, ledger[k].sum))
        BY <3>1
      <4>2. k \in LedgerKeys /\ ledger[k] \in Rows
        BY DEF LatestRow, RowsOf, TypeOK
      <4>3. Line(d.ref, ledger[k].quote, ledger[k].sum) \in Lines
        BY <2>1, <4>2 DEF Line, Lines, Rows
      <4>4. QED
        BY <4>1, <4>2, <4>3
    <3>2. CASE SaveOrder(d.ref, order, FallbackKey(d), Line(d.ref, order.quote, "id"))
      BY <2>1, <2>2, <3>2 DEF FallbackKey, LedgerKeys, Line, Lines, Orders
    <3>3. QED
      BY <1>5, <3>1, <3>2 DEF Settle
  <2>4. orders' \in [Refs -> Orders \cup {None}]
    BY <2>1, <2>2, <2>3 DEF SaveOrder, TypeOK
  <2>5. /\ ledger' \in [LedgerKeys -> Rows \cup {None}]
        /\ lastRow' \in Nat
    BY <2>3, UpsertTyped DEF SaveOrder
  <2>6. audit' \in [Events -> [Refs -> Nat]]
    BY <1>5, <2>1, LogTyped DEF Settle, Events
  <2>7. idempotent' \subseteq Refs \X Providers \X Keys
    BY <1>5, <2>1 DEF Settle, TypeOK
  <2>8. d.status \in Replies /\ Answer(w, d.status)
    BY <1>5, <2>1 DEF Settle, Replies
  <2>9. QED
    BY <1>0, <1>5, <2>4, <2>5, <2>6, <2>7, <2>8, AnswerTyped DEF Settle, TypeOK
<1>6. CASE SaveFails(w)
  BY <1>0, <1>6, FailAttemptTyped DEF SaveFails, TypeOK, store, memory
<1>7. QED
  BY <1>1, <1>2, <1>3, <1>4, <1>5, <1>6 DEF Reconcile

LEMMA ServeTyped ==
  ASSUME TypeOK, NEW w \in Workers, Serve(w)
  PROVE  TypeOK'
<1>1. CASE \E d \in Requests, entry \in {"lookup", "attempt"} : Receive(w, d, entry)
  BY <1>1 DEF TypeOK, Places, Receive, store, memory
<1>2. CASE Lookup(w) \/ Authorize(w)
  BY <1>2 DEF TypeOK, Places, Lookup, Authorize, store, memory
<1>3. CASE LookupFails(w) \/ Refuse(w)
  BY <1>3, AnswerTyped DEF TypeOK, LookupFails, Refuse, store, memory, Replies, Errors
<1>4. CASE Reconcile(w)
  BY <1>4, ReconcileTyped
<1>5. CASE Backoff(w)
  BY <1>5 DEF TypeOK, Places, Backoff, store, memory
<1>6. CASE Cancel(w)
  BY <1>6, AnswerTyped DEF TypeOK, Cancel, store, memory, Replies, Errors
<1>7. CASE \E delivered \in BOOLEAN : Respond(w, delivered)
  BY <1>7, MaxAttemptsAssumption DEF TypeOK, Places, Respond, store, memory, Replies
<1>8. QED
  BY <1>1, <1>2, <1>3, <1>4, <1>5, <1>6, <1>7 DEF Serve

LEMMA TypeStep == TypeOK /\ [Next]_vars => TypeOK'
<1>1. TypeOK /\ Crash => TypeOK'
  BY MaxAttemptsAssumption DEF TypeOK, Places, Crash, store, Replies, Events
<1>2. TypeOK /\ UNCHANGED vars => TypeOK'
  BY DEF TypeOK, vars, store, memory, handler
<1>3. QED
  BY <1>1, <1>2, CreateTyped, ServeTyped DEF Next

(* Every variable keeps to its values: the columns of the two tables, the  *)
(* maps of the orchestrator and the locals of the handlers.                *)
THEOREM TypeCorrect == Spec => []TypeOK
<1>1. Init => TypeOK
  BY MaxAttemptsAssumption DEF Init, TypeOK, Places, Replies, Events
<1>2. QED
  BY <1>1, TypeStep, PTL DEF Spec

-----------------------------------------------------------------------------
(* Safety.  The properties hold because of what they say together with     *)
(* facts none of them states: a creation in progress is for a reference    *)
(* without order and row and, once answered, with its invoice; a key named *)
(* after a reference stays free until its invoice has left the process, as *)
(* no webhook can name it before; every ledger row belongs to a recorded   *)
(* order, and every order owns the row under its creation key; a row under *)
(* a checksum is such a row, with its order's amounts; and an answer on    *)
(* its way already agrees with the database.                               *)

Creating ==
  creating # None =>
    /\ orders[creating.ref] = None
    /\ ledger[creating.ref] = None
    /\ creating.answer # None => invoices[creating.ref] = creating.provider

CreationKeysFree == \A r \in Refs : invoices[r] = None => ledger[r] = None

KeysKnown ==
  \A w \in Workers :
    pc[w] # "idle" /\ req[w].key \in Refs => invoices[req[w].key] # None

CreationRows ==
  \A r \in Refs : orders[r] # None => ledger[r] # None /\ ledger[r].ref = r

HashRows ==
  \A k \in LedgerKeys : ledger[k] # None /\ ledger[k].sum = "hash" =>
    k \in Refs /\ ledger[k].ref = k /\ ledger[k].quote = orders[k].quote

RowsOwned ==
  \A k \in LedgerKeys : ledger[k] # None => orders[ledger[k].ref] # None

IdsDrawn == \A k \in LedgerKeys : ledger[k] # None => ledger[k].id <= lastRow

(* What a 2xx answer with status s says about request d. *)
Settled(d, s) ==
  /\ orders[d.ref] # None
  /\ orders[d.ref].provider = d.provider
  /\ orders[d.ref].status = s
  /\ s \in Terminal

AnswersSettled ==
  \A w \in Workers :
    pc[w] = "replied" /\ reply[w] \in Statuses => Settled(req[w], reply[w])

AckedSettled == \A a \in acked : Settled(a[1], a[2])

Traces(r) == {t \in idempotent : t[1] = r}

Inv ==
  /\ TypeOK
  /\ Creating
  /\ CreationKeysFree
  /\ KeysKnown
  /\ RowsOwned
  /\ IdsDrawn
  /\ CreationRows
  /\ HashRows
  /\ OrderHasInvoice
  /\ AnswersSettled
  /\ AckedSettled
  /\ TracesAgree

LEMMA InvInit == Init => Inv
<1> SUFFICES ASSUME Init PROVE Inv
  OBVIOUS
<1>1. TypeOK
  BY MaxAttemptsAssumption DEF Init, TypeOK, Places, Replies, Events
<1>2. /\ Creating /\ CreationKeysFree /\ KeysKnown /\ RowsOwned /\ IdsDrawn /\ CreationRows
      /\ HashRows /\ OrderHasInvoice
  BY DEF Init, Creating, CreationKeysFree, KeysKnown, RowsOwned, IdsDrawn, CreationRows,
         HashRows, OrderHasInvoice, LedgerKeys
<1>3. AnswersSettled /\ AckedSettled
  BY DEF Init, AnswersSettled, AckedSettled
<1>4. TracesAgree
  BY DEF Init, TracesAgree, Events
<1>5. QED
  BY <1>1, <1>2, <1>3, <1>4 DEF Inv

(* Steps that leave the two tables, the memory traces and the answers      *)
(* alone keep every conjunct that is about them.                           *)
LEMMA TablesKept ==
  ASSUME Inv, UNCHANGED store
  PROVE  RowsOwned' /\ IdsDrawn' /\ CreationRows' /\ HashRows'
BY DEF Inv, RowsOwned, IdsDrawn, CreationRows, HashRows, store

(* A new row takes the next id, an old one keeps its own. *)
LEMMA UpsertDraws ==
  ASSUME TypeOK, IdsDrawn, NEW k \in LedgerKeys, NEW line \in Lines, Upsert(k, line)
  PROVE  IdsDrawn'
<1>1. lastRow \in Nat /\ \A j \in LedgerKeys : ledger[j] # None => ledger[j].id \in Nat
  BY DEF TypeOK, Rows
<1>2. lastRow' \in Nat /\ lastRow <= lastRow'
  BY <1>1 DEF Upsert
<1>3. \A j \in LedgerKeys \ {k} : ledger'[j] = ledger[j]
  BY DEF Upsert, TypeOK
<1>4. ledger'[k].id <= lastRow'
  <2>1. CASE ledger[k] = None
    BY <1>1, <2>1 DEF Upsert, TypeOK
  <2>2. CASE ledger[k] # None
    <3>1. ledger[k] \in Rows
      BY <2>2 DEF TypeOK
    <3>2. ledger'[k] = [ledger[k] EXCEPT !.quote = line.quote, !.sum = line.sum]
      BY <2>2 DEF Upsert, TypeOK
    <3>3. ledger'[k].id = ledger[k].id
      BY <3>1, <3>2 DEF Rows
    <3>4. QED
      BY <1>1, <1>2, <2>2, <3>3 DEF IdsDrawn
  <2>3. QED
    BY <2>1, <2>2
<1>5. QED
  BY <1>1, <1>2, <1>3, <1>4 DEF IdsDrawn

LEMMA LeastNatural ==
  ASSUME NEW T \in SUBSET Nat, T # {}
  PROVE  \E m \in T : \A n \in T : m <= n
<1> DEFINE R == OpToRel(<, Nat)
<1>1. IsWellFoundedOn(R, Nat)
  BY NatLessThanWellFounded
<1>2. \A a, b \in Nat : a < b => <<a, b>> \in R
  BY DEF OpToRel
<1> HIDE DEF R
<1>3. \E m \in T : \A n \in T : <<n, m>> \notin R
  BY <1>1, WFMin
<1>4. PICK m \in T : \A n \in T : <<n, m>> \notin R
  BY <1>3
<1>5. \A n \in T : n \in Nat /\ ~(n < m) /\ m \in Nat
  BY <1>2, <1>4
<1>6. \A n \in T : m <= n
  BY <1>5
<1>7. QED
  BY <1>6

(* GetLedger finds a row wherever there is one: of the rows of an order,   *)
(* one has the highest id, since every id was drawn from the counter.      *)
LEMMA LatestExists ==
  ASSUME TypeOK, IdsDrawn, NEW r \in Refs, RowsOf(r) # {}
  PROVE  LatestRow(r) # {}
<1> DEFINE age(k) == lastRow - ledger[k].id
           T == {age(k) : k \in RowsOf(r)}
<1>1. /\ lastRow \in Nat
      /\ \A k \in RowsOf(r) : ledger[k].id \in Nat /\ ledger[k].id <= lastRow
  BY DEF TypeOK, Rows, RowsOf, IdsDrawn
<1>2. T \in SUBSET Nat /\ T # {}
  BY <1>1
<1>3. \E m \in T : \A n \in T : m <= n
  <2> HIDE DEF T
  <2>1. QED
    BY <1>2, LeastNatural
<1>4. PICK k \in RowsOf(r) : \A j \in RowsOf(r) : age(k) <= age(j)
  BY <1>3
<1>5. \A j \in RowsOf(r) : ledger[j].id <= ledger[k].id
  BY <1>1, <1>4
<1>6. QED
  BY <1>5 DEF LatestRow

LEMMA KeysKept ==
  ASSUME Inv, UNCHANGED ledger, UNCHANGED handler,
         \A r \in Refs : invoices[r] # None => invoices'[r] # None
  PROVE  CreationKeysFree' /\ KeysKnown'
BY DEF Inv, CreationKeysFree, KeysKnown, handler

LEMMA AnswersKept ==
  ASSUME Inv, UNCHANGED orders, UNCHANGED handler, UNCHANGED acked
  PROVE  AnswersSettled' /\ AckedSettled'
BY DEF Inv, AnswersSettled, AckedSettled, Settled, handler

LEMMA TracesKept ==
  ASSUME Inv, UNCHANGED <<orders, idempotent, audit>>
  PROVE  TracesAgree'
BY DEF Inv, TracesAgree

LEMMA CreateSafe == Inv /\ Create => Inv'
<1> SUFFICES ASSUME Inv, Create PROVE Inv'
  OBVIOUS
<1>0. TypeOK /\ TypeOK'
  BY CreateTyped DEF Inv
<1>1. CASE \E r \in Refs, p \in Providers, q \in Quotes : CreateBegin(r, p, q)
  <2>1. Creating'
    BY <1>1 DEF CreateBegin, Creating, CreationKeysFree, Inv, store
  <2>2. OrderHasInvoice'
    BY <1>1 DEF CreateBegin, OrderHasInvoice, Inv, store
  <2>3. UNCHANGED <<orders, ledger, invoices, idempotent, audit, acked>> /\ UNCHANGED handler
        /\ UNCHANGED store
    BY <1>1 DEF CreateBegin, store
  <2>4. QED
    BY <1>0, <2>1, <2>2, <2>3, TablesKept, KeysKept, AnswersKept, TracesKept DEF Inv
<1>2. CASE \/ \E s \in GatewayStatuses : GatewayAnswers(s)
           \/ \E issued \in BOOLEAN : GatewayFails(issued)
           \/ CreateSaveFails
  <2>0. creating \in Creations
    BY <1>0, <1>2 DEF GatewayAnswers, GatewayFails, CreateSaveFails, TypeOK
  <2>1. Creating'
    BY <1>0, <1>2, <2>0
    DEF GatewayAnswers, GatewayFails, CreateSaveFails, Creating, Inv, store, TypeOK, Creations
  <2>2. OrderHasInvoice'
    BY <1>0, <1>2, <2>0
    DEF GatewayAnswers, GatewayFails, CreateSaveFails, OrderHasInvoice, Creating, Inv, store,
        TypeOK, Creations
  <2>3. UNCHANGED <<orders, ledger, idempotent, audit, acked>> /\ UNCHANGED handler
        /\ UNCHANGED store
    BY <1>2 DEF GatewayAnswers, GatewayFails, CreateSaveFails, store
  <2>4. \A r \in Refs : invoices[r] # None => invoices'[r] # None
    BY <1>0, <1>2, <2>0, NoneAssumption
    DEF GatewayAnswers, GatewayFails, CreateSaveFails, TypeOK, Creations
  <2>5. QED
    BY <1>0, <2>1, <2>2, <2>3, <2>4, TablesKept, KeysKept, AnswersKept, TracesKept DEF Inv
<1>3. CASE CreateSave
  <2> DEFINE c == creating
             status == IF c.answer = "" THEN "created" ELSE c.answer
             order == [provider |-> c.provider, quote |-> c.quote, status |-> status]
  <2>1. /\ c \in Creations /\ c.ref \in Refs /\ c.ref \in LedgerKeys
        /\ orders[c.ref] = None /\ ledger[c.ref] = None
        /\ invoices[c.ref] = c.provider
    BY <1>0, <1>3 DEF CreateSave, Answered, TypeOK, Inv, Creating, Creations, LedgerKeys
  <2>2. orders' = [orders EXCEPT ![c.ref] = order]
    BY <1>3 DEF CreateSave, SaveOrder
  <2>3. ledger' = [ledger EXCEPT ![c.ref] =
                     [ref |-> c.ref, quote |-> c.quote, sum |-> "hash", id |-> lastRow + 1]]
    BY <1>3, <2>1 DEF CreateSave, SaveOrder, Upsert, CreationKey, Line
  <2>4. /\ orders'[c.ref] # None
        /\ orders'[c.ref].provider = c.provider
        /\ orders'[c.ref].quote = c.quote
    <3>1. c.answer \in GatewayStatuses
      BY <1>3, <2>1 DEF CreateSave, Answered, Creations
    <3>2. order \in Orders
      BY <2>1, <3>1 DEF Creations, Orders, Statuses
    <3>3. orders'[c.ref] = order
      BY <1>0, <2>1, <2>2 DEF TypeOK
    <3>4. \A o \in Orders : o # None
      BY NoneAssumption
    <3>5. order.provider = c.provider /\ order.quote = c.quote
      OBVIOUS
    <3> HIDE DEF order
    <3>6. QED
      BY <3>2, <3>3, <3>4, <3>5
  <2>5. /\ ledger'[c.ref] # None
        /\ ledger'[c.ref].ref = c.ref
        /\ ledger'[c.ref].quote = c.quote
        /\ ledger'[c.ref].sum = "hash"
    <3> DEFINE row == [ref |-> c.ref, quote |-> c.quote, sum |-> "hash", id |-> lastRow + 1]
    <3>1. row \in Rows
      BY <1>0, <2>1 DEF Rows, Creations, TypeOK
    <3>2. ledger'[c.ref] = row
      BY <1>0, <2>1, <2>3 DEF TypeOK
    <3>3. QED
      BY <3>1, <3>2, NoneAssumption
  <2>6. \A r \in Refs \ {c.ref} : orders'[r] = orders[r]
    BY <1>0, <2>2 DEF TypeOK
  <2>7. \A k \in LedgerKeys \ {c.ref} : ledger'[k] = ledger[k]
    BY <1>0, <2>3 DEF TypeOK
  <2>8. Creating'
    BY <1>3 DEF CreateSave, Creating
  <2>9. CreationKeysFree' /\ KeysKnown'
    <3>1. UNCHANGED <<invoices, handler>> /\ c.provider # None
      BY <1>3, <2>1, NoneAssumption DEF CreateSave, Creations
    <3>2. QED
      BY <2>1, <2>7, <3>1 DEF Inv, CreationKeysFree, KeysKnown, LedgerKeys, handler
  <2>10. RowsOwned'
    <3> SUFFICES ASSUME NEW k \in LedgerKeys, ledger'[k] # None
                 PROVE  orders'[ledger'[k].ref] # None
      BY DEF RowsOwned
    <3>1. CASE k = c.ref
      BY <2>4, <2>5, <3>1
    <3>2. CASE k # c.ref
      <4>1. ledger[k] \in Rows /\ orders[ledger[k].ref] # None
        BY <1>0, <2>7, <3>2 DEF Inv, RowsOwned, TypeOK
      <4>2. QED
        BY <2>1, <2>4, <2>6, <2>7, <3>2, <4>1 DEF Rows
    <3>3. QED
      BY <3>1, <3>2
  <2>10a. IdsDrawn'
    <3>1. Line(c.ref, c.quote, "hash") \in Lines /\ Upsert(c.ref, Line(c.ref, c.quote, "hash"))
      BY <1>3, <2>1 DEF Line, Lines, Creations, CreateSave, SaveOrder, CreationKey
    <3>2. QED
      BY <1>0, <2>1, <3>1, UpsertDraws DEF Inv
  <2>11. OrderHasInvoice'
    BY <1>3, <2>1, <2>4, <2>6 DEF CreateSave, Inv, OrderHasInvoice
  <2>12. CreationRows'
    BY <2>4, <2>5, <2>6, <2>7 DEF Inv, CreationRows, LedgerKeys
  <2>12a. HashRows'
    <3> SUFFICES ASSUME NEW k \in LedgerKeys, ledger'[k] # None, ledger'[k].sum = "hash"
                 PROVE  k \in Refs /\ ledger'[k].ref = k /\ ledger'[k].quote = orders'[k].quote
      BY DEF HashRows
    <3>1. CASE k = c.ref
      BY <2>1, <2>4, <2>5, <3>1
    <3>2. CASE k # c.ref
      BY <2>6, <2>7, <3>2 DEF Inv, HashRows
    <3>3. QED
      BY <3>1, <3>2
  <2>13. AnswersSettled' /\ AckedSettled'
    <3>1. \A d \in Requests, s \in Statuses : Settled(d, s) => Settled(d, s)'
      BY <2>1, <2>6 DEF Settled, Requests
    <3>2. UNCHANGED acked /\ UNCHANGED <<pc, req, reply>>
      BY <1>3 DEF CreateSave, handler
    <3>3. \A w \in Workers : pc[w] = "replied" => req[w] \in Requests
      BY <1>0 DEF TypeOK
    <3>4. \A a \in acked : a[1] \in Requests /\ a[2] \in Statuses
      BY <1>0 DEF TypeOK
    <3>5. QED
      BY <3>1, <3>2, <3>3, <3>4 DEF Inv, AnswersSettled, AckedSettled, Settled
  <2>14. TracesAgree'
    <3>1. UNCHANGED idempotent
      BY <1>3 DEF CreateSave
    <3>2. \A r \in Refs : audit'["payment_webhook"][r] = audit["payment_webhook"][r]
      BY <1>0, <1>3, <2>1 DEF CreateSave, Log, TypeOK, Events
    <3>3. \A r \in Refs : orders[r] # None => orders'[r] = orders[r]
      BY <2>1, <2>6
    <3>4. QED
      BY <3>1, <3>2, <3>3 DEF Inv, TracesAgree
  <2>15. QED
    BY <1>0, <2>8, <2>9, <2>10, <2>10a, <2>11, <2>12, <2>12a, <2>13, <2>14 DEF Inv
<1>4. QED
  BY <1>1, <1>2, <1>3 DEF Create

(* The ledger side of Settle: re-saving the line that was read changes     *)
(* nothing, and a fallback line, wherever it lands, takes no row away from *)
(* its order and puts no checksum on amounts of its own.                   *)
LEMMA ResaveKeepsLedger ==
  ASSUME TypeOK, NEW r \in Refs, NEW k \in LatestRow(r),
         Upsert(k, Line(r, ledger[k].quote, ledger[k].sum))
  PROVE  ledger' = ledger
<1>1. k \in LedgerKeys /\ ledger[k] # None /\ ledger[k] \in Rows
  BY DEF LatestRow, RowsOf, TypeOK
<1>2. ledger' = [ledger EXCEPT ![k] =
                  [ledger[k] EXCEPT !.quote = ledger[k].quote, !.sum = ledger[k].sum]]
  BY <1>1 DEF Upsert, Line, TypeOK
<1>3. [ledger[k] EXCEPT !.quote = ledger[k].quote, !.sum = ledger[k].sum] = ledger[k]
  BY <1>1 DEF Rows
<1>4. QED
  BY <1>1, <1>2, <1>3 DEF TypeOK

LEMMA FallbackKeepsOwners ==
  ASSUME TypeOK, NEW r \in Refs, NEW k \in Keys, NEW q \in Quotes,
         Upsert(k, Line(r, q, "id"))
  PROVE  /\ \A j \in LedgerKeys \ {k} : ledger'[j] = ledger[j]
         /\ ledger'[k] # None
         /\ ledger'[k].sum = "id"
         /\ ledger'[k].ref = IF ledger[k] = None THEN r ELSE ledger[k].ref
<1>1. k \in LedgerKeys
  BY DEF LedgerKeys
<1>2. \A j \in LedgerKeys \ {k} : ledger'[j] = ledger[j]
  BY <1>1 DEF Upsert, TypeOK
<1>3. CASE ledger[k] = None
  <2> DEFINE row == [ref |-> r, quote |-> q, sum |-> "id", id |-> lastRow + 1]
  <2>1. row \in Rows
    BY DEF Rows, TypeOK
  <2>2. ledger'[k] = row
    BY <1>1, <1>3 DEF Upsert, Line, TypeOK
  <2>3. QED
    BY <1>2, <1>3, <2>1, <2>2, NoneAssumption
<1>4. CASE ledger[k] # None
  <2> DEFINE row == [ledger[k] EXCEPT !.quote = q, !.sum = "id"]
  <2>1. ledger[k] \in Rows
    BY <1>1, <1>4 DEF TypeOK
  <2>2. row \in Rows /\ row.ref = ledger[k].ref /\ row.sum = "id"
    BY <2>1 DEF Rows
  <2>3. ledger'[k] = row
    BY <1>1, <1>4 DEF Upsert, Line, TypeOK
  <2>4. QED
    BY <1>2, <1>4, <2>2, <2>3, NoneAssumption
<1>5. QED
  BY <1>3, <1>4

(* What a step of ReconcileWebhook that changes an order amounts to. *)
LEMMA SettleEffect ==
  ASSUME Inv, NEW w \in Workers, Settle(w)
  PROVE  /\ req[w] \in Requests
         /\ orders[req[w].ref] \in Orders
         /\ orders[req[w].ref].provider = req[w].provider
         /\ orders[req[w].ref].status \notin Terminal
         /\ req[w].status \in Terminal
         /\ orders' = [orders EXCEPT ![req[w].ref] = [@ EXCEPT !.status = req[w].status]]
         /\ IdsDrawn'
         /\ \/ ledger' = ledger
            \/ LET k == req[w].key IN
               /\ \A j \in LedgerKeys \ {k} : ledger'[j] = ledger[j]
               /\ ledger'[k] # None
               /\ ledger'[k].sum = "id"
               /\ ledger'[k].ref = IF ledger[k] = None THEN req[w].ref ELSE ledger[k].ref
         /\ "GetLedger" \notin Faults /\ LatestRow(req[w].ref) # {} => ledger' = ledger
<1> DEFINE d == req[w]
           order == [orders[d.ref] EXCEPT !.status = d.status]
<1>0. TypeOK /\ IdsDrawn
  BY DEF Inv
<1>1. /\ d \in Requests /\ d.ref \in Refs /\ d.key \in Keys
      /\ orders[d.ref] # None /\ orders[d.ref] \in Orders
      /\ orders[d.ref].provider = d.provider
      /\ orders[d.ref].status \notin Terminal
      /\ d.status \in Terminal
  BY <1>0 DEF TypeOK, Settle, Locked, Fresh, Known, Final, Supported, Requests
<1>2. order.quote \in Quotes /\ order.quote = orders[d.ref].quote
  BY <1>1 DEF Orders
<1>3. CASE \E k \in LatestRow(d.ref) :
             SaveOrder(d.ref, order, k, Line(d.ref, ledger[k].quote, ledger[k].sum))
  <2>1. ledger' = ledger /\ orders' = [orders EXCEPT ![d.ref] = order]
    BY <1>0, <1>1, <1>3, ResaveKeepsLedger DEF SaveOrder
  <2>2. lastRow' = lastRow
    BY <1>3 DEF SaveOrder, Upsert, LatestRow, RowsOf
  <2>3. QED
    BY <1>0, <1>1, <2>1, <2>2 DEF IdsDrawn
<1>4. CASE /\ LatestRow(d.ref) = {} \/ "GetLedger" \in Faults
           /\ SaveOrder(d.ref, order, FallbackKey(d), Line(d.ref, order.quote, "id"))
  <2> HIDE DEF order
  <2>1. /\ \A j \in LedgerKeys \ {d.key} : ledger'[j] = ledger[j]
        /\ ledger'[d.key] # None
        /\ ledger'[d.key].sum = "id"
        /\ ledger'[d.key].ref = IF ledger[d.key] = None THEN d.ref ELSE ledger[d.key].ref
    BY <1>0, <1>1, <1>2, <1>4, FallbackKeepsOwners DEF SaveOrder, FallbackKey
  <2>2. orders' = [orders EXCEPT ![d.ref] = order]
    BY <1>4 DEF SaveOrder
  <2>3. IdsDrawn'
    <3>1. Line(d.ref, order.quote, "id") \in Lines /\ d.key \in LedgerKeys
      BY <1>1, <1>2 DEF Line, Lines, LedgerKeys
    <3>2. QED
      BY <1>0, <1>4, <3>1, UpsertDraws DEF SaveOrder, FallbackKey
  <2>4. QED
    BY <1>1, <1>4, <2>1, <2>2, <2>3 DEF order
<1>5. QED
  BY <1>3, <1>4 DEF Settle

LEMMA SettleSafe ==
  ASSUME Inv, NEW w \in Workers, Settle(w)
  PROVE  Inv'
<1> DEFINE d == req[w]
<1>0. TypeOK /\ TypeOK'
  BY ReconcileTyped DEF Inv, Reconcile
<1>1. /\ d \in Requests /\ d.ref \in Refs /\ d.provider \in Providers /\ d.key \in Keys
      /\ orders[d.ref] \in Orders /\ orders[d.ref] # None
      /\ orders[d.ref].provider = d.provider
      /\ orders[d.ref].status \notin Terminal
      /\ d.status \in Terminal
  BY SettleEffect, NoneAssumption DEF Requests
<1>2. /\ orders'[d.ref] # None
      /\ orders'[d.ref].provider = d.provider
      /\ orders'[d.ref].quote = orders[d.ref].quote
      /\ orders'[d.ref].status = d.status
  <2>1. orders'[d.ref] = [orders[d.ref] EXCEPT !.status = d.status]
    BY <1>0, <1>1, SettleEffect DEF TypeOK
  <2>2. d.status \in Statuses
    BY <1>1 DEF Statuses
  <2>3. QED
    BY <1>1, <2>1, <2>2, NoneAssumption DEF Orders
<1>3. \A r \in Refs \ {d.ref} : orders'[r] = orders[r]
  <2>1. orders' = [orders EXCEPT ![d.ref] = [@ EXCEPT !.status = d.status]]
    BY SettleEffect
  <2>2. QED
    BY <1>0, <2>1 DEF TypeOK
<1>4. /\ creating = None /\ creating' = None /\ UNCHANGED <<invoices, acked, req>>
      /\ \A v \in Workers : pc'[v] # "idle" => pc[v] # "idle"
  BY <1>0 DEF Settle, Locked, Answer, TypeOK
<1>5. Creating' /\ OrderHasInvoice' /\ KeysKnown'
  BY <1>1, <1>2, <1>3, <1>4 DEF Inv, Creating, OrderHasInvoice, KeysKnown
<1>6. \A r \in Refs : orders[r] # None => orders'[r] # None /\ orders'[r].quote = orders[r].quote
  BY <1>2, <1>3
<1>7. CreationKeysFree' /\ RowsOwned' /\ IdsDrawn' /\ CreationRows' /\ HashRows'
  <2>1. CASE ledger' = ledger
    <3>1. CreationKeysFree' /\ CreationRows'
      BY <1>1, <1>3, <1>4, <2>1 DEF Inv, CreationKeysFree, CreationRows
    <3>2. \A k \in LedgerKeys : ledger[k] # None => ledger[k].ref \in Refs
      BY <1>0 DEF TypeOK, Rows
    <3>3. RowsOwned' /\ HashRows'
      BY <1>6, <2>1, <3>2 DEF Inv, RowsOwned, HashRows
    <3>4. QED
      BY <3>1, <3>3, SettleEffect
  <2>2. CASE /\ \A j \in LedgerKeys \ {d.key} : ledger'[j] = ledger[j]
             /\ ledger'[d.key] # None
             /\ ledger'[d.key].sum = "id"
             /\ ledger'[d.key].ref = IF ledger[d.key] = None THEN d.ref ELSE ledger[d.key].ref
    <3>0. d.key \in LedgerKeys /\ \A k \in LedgerKeys : ledger[k] # None => ledger[k].ref \in Refs
      BY <1>0, <1>1 DEF LedgerKeys, TypeOK, Rows
    <3>1. CreationKeysFree'
      <4>1. d.key \in Refs => invoices[d.key] # None
        BY DEF Inv, KeysKnown, Settle, Locked
      <4>2. QED
        BY <1>4, <2>2, <4>1 DEF Inv, CreationKeysFree, LedgerKeys
    <3>2. RowsOwned'
      BY <1>1, <1>6, <2>2, <3>0 DEF Inv, RowsOwned
    <3>3. CreationRows'
      BY <1>1, <1>3, <2>2 DEF Inv, CreationRows, LedgerKeys
    <3>4. HashRows'
      <4> SUFFICES ASSUME NEW k \in LedgerKeys, ledger'[k] # None, ledger'[k].sum = "hash"
                   PROVE  k \in Refs /\ ledger'[k].ref = k /\ ledger'[k].quote = orders'[k].quote
        BY DEF HashRows
      <4>1. k # d.key /\ ledger'[k] = ledger[k]
        BY <2>2
      <4>2. k \in Refs /\ ledger[k].ref = k /\ ledger[k].quote = orders[k].quote /\ orders[k] # None
        BY <4>1 DEF Inv, HashRows, RowsOwned
      <4>3. QED
        BY <1>6, <4>1, <4>2
    <3>5. QED
      BY <3>1, <3>2, <3>3, <3>4, SettleEffect
  <2>3. QED
    BY <2>1, <2>2, SettleEffect
<1>8. \A e \in Requests, s \in Statuses : Settled(e, s) => Settled(e, s)'
  BY <1>1, <1>3 DEF Settled, Requests
<1>9. AckedSettled'
  BY <1>0, <1>4, <1>8 DEF Inv, AckedSettled, TypeOK
<1>10. AnswersSettled'
  <2> SUFFICES ASSUME NEW v \in Workers, pc'[v] = "replied", reply'[v] \in Statuses
               PROVE  Settled(req[v], reply[v])'
    BY DEF AnswersSettled
  <2>1. CASE v = w
    <3>1. reply'[v] = d.status /\ UNCHANGED req
      BY <1>0, <2>1 DEF Settle, Answer, TypeOK
    <3>2. QED
      BY <1>1, <1>2, <2>1, <3>1 DEF Settled
  <2>2. CASE v # w
    <3>1. pc[v] = "replied" /\ reply'[v] = reply[v] /\ UNCHANGED req
      BY <1>0, <2>2 DEF Settle, Answer, TypeOK
    <3>2. req[v] \in Requests /\ Settled(req[v], reply[v])
      BY <1>0, <3>1 DEF Inv, AnswersSettled, TypeOK
    <3>3. QED
      BY <1>8, <3>1, <3>2 DEF Settled
  <2>3. QED
    BY <2>1, <2>2
<1>11. TracesAgree'
  <2> DEFINE t == <<d.ref, d.provider, d.key>>
  <2>1. idempotent' = idempotent \cup {t}
    BY DEF Settle
  <2>2. /\ audit'["payment_webhook"][d.ref] = audit["payment_webhook"][d.ref] + 1
        /\ \A r \in Refs \ {d.ref} :
             audit'["payment_webhook"][r] = audit["payment_webhook"][r]
    BY <1>0, <1>1 DEF Settle, Log, TypeOK, Events
  <2>3. {u \in idempotent : u[1] = d.ref} = {} /\ audit["payment_webhook"][d.ref] = 0
    BY <1>1 DEF Inv, TracesAgree
  <2>4. {u \in idempotent' : u[1] = d.ref} = {t}
    BY <2>1, <2>3
  <2>5. \A r \in Refs \ {d.ref} :
          {u \in idempotent' : u[1] = r} = {u \in idempotent : u[1] = r}
    BY <2>1
  <2> SUFFICES ASSUME NEW r \in Refs
               PROVE  LET honoured == {u \in idempotent' : u[1] = r} IN
                      \/ honoured = {} /\ audit'["payment_webhook"][r] = 0
                      \/ /\ audit'["payment_webhook"][r] = 1
                         /\ \E u \in honoured :
                              honoured = {u} /\ orders'[r].provider = u[2]
                         /\ orders'[r] # None /\ orders'[r].status \in Terminal
    BY DEF TracesAgree
  <2>6. CASE r = d.ref
    <3>1. audit'["payment_webhook"][r] = 1
      BY <2>2, <2>3, <2>6
    <3>2. t[2] = d.provider
      OBVIOUS
    <3>3. /\ orders'[r].provider = t[2]
          /\ orders'[r] # None /\ orders'[r].status \in Terminal
      BY <1>1, <1>2, <2>6, <3>2
    <3> HIDE DEF t
    <3>4. \E u \in {u \in idempotent' : u[1] = r} :
             {v \in idempotent' : v[1] = r} = {u} /\ orders'[r].provider = u[2]
      BY <2>4, <2>6, <3>3
    <3>5. QED
      BY <3>1, <3>3, <3>4
  <2>7. CASE r # d.ref
    <3>1. /\ {u \in idempotent' : u[1] = r} = {u \in idempotent : u[1] = r}
          /\ audit'["payment_webhook"][r] = audit["payment_webhook"][r]
          /\ orders'[r] = orders[r]
      BY <1>3, <2>2, <2>5, <2>7
    <3>2. QED
      BY <3>1 DEF Inv, TracesAgree
  <2>8. QED
    BY <2>6, <2>7
<1>12. QED
  BY <1>0, <1>5, <1>7, <1>9, <1>10, <1>11 DEF Inv

(* The other steps of a handler read the order and leave an answer that    *)
(* agrees with it.                                                         *)
LEMMA ServeSafe ==
  ASSUME Inv, NEW w \in Workers, Serve(w)
  PROVE  Inv'
<1>0. TypeOK /\ TypeOK'
  BY ServeTyped DEF Inv
<1>1. CASE Settle(w)
  BY <1>1, SettleSafe
<1>2. CASE \E delivered \in BOOLEAN : Respond(w, delivered)
  <2>1. UNCHANGED <<orders, ledger, invoices, creating, idempotent, audit>> /\ UNCHANGED store
    BY <1>2 DEF Respond, store, memory
  <2>2. AckedSettled'
    BY <1>0, <1>2, <2>1 DEF Inv, AckedSettled, AnswersSettled, Respond, Settled
  <2>3. AnswersSettled'
    BY <1>0, <1>2, <2>1 DEF Inv, AnswersSettled, Respond, Settled, TypeOK
  <2>4. Creating' /\ OrderHasInvoice' /\ CreationKeysFree'
    BY <2>1 DEF Inv, Creating, OrderHasInvoice, CreationKeysFree
  <2>5. KeysKnown'
    BY <1>0, <1>2, <2>1 DEF Inv, KeysKnown, Respond, TypeOK
  <2>6. QED
    BY <1>0, <2>1, <2>2, <2>3, <2>4, <2>5, TablesKept, TracesKept DEF Inv
<1>3. CASE \/ \E d \in Requests, entry \in {"lookup", "attempt"} : Receive(w, d, entry)
           \/ Lookup(w) \/ LookupFails(w) \/ Authorize(w) \/ Refuse(w) \/ Backoff(w) \/ Cancel(w)
           \/ ReadFails(w) \/ Reject(w) \/ Repeat(w) \/ DeadLetter(w) \/ SaveFails(w)
  <2>1. /\ UNCHANGED <<orders, ledger, invoices, creating, idempotent, audit, acked>>
        /\ UNCHANGED store
    BY <1>3 DEF Receive, Lookup, LookupFails, Authorize, Refuse, Backoff, Cancel, ReadFails,
        Reject, Repeat,
                DeadLetter, SaveFails, store, memory
  <2>2. Creating' /\ OrderHasInvoice' /\ CreationKeysFree' /\ AckedSettled'
    BY <2>1 DEF Inv, Creating, OrderHasInvoice, CreationKeysFree, AckedSettled, Settled
  <2>2a. KeysKnown'
    <3>1. \/ \E d \in Requests : /\ d.key \in Refs => invoices[d.key] # None
                               /\ req' = [req EXCEPT ![w] = d]
          \/ req' = req /\ pc[w] # "idle"
      BY <1>3 DEF Receive, Lookup, LookupFails, Authorize, Refuse, Backoff, Cancel, ReadFails,
         Reject, Repeat, DeadLetter, SaveFails, Locked, Answer, FailAttempt
    <3>2. \A v \in Workers \ {w} : pc'[v] = pc[v]
      BY <1>0, <1>3 DEF Receive, Lookup, LookupFails, Authorize, Refuse, Backoff, Cancel,
         ReadFails, Reject, Repeat, DeadLetter, SaveFails, Answer, FailAttempt, TypeOK
    <3>3. QED
      BY <1>0, <2>1, <3>1, <3>2 DEF Inv, KeysKnown, TypeOK
  <2>3. /\ \A v \in Workers \ {w} : pc'[v] = pc[v] /\ reply'[v] = reply[v] /\ req'[v] = req[v]
        /\ pc'[w] = "replied" =>
             /\ req'[w] = req[w]
             /\ \/ reply'[w] \in Errors
                \/ Repeat(w) /\ reply'[w] = orders[req[w].ref].status
    BY <1>0, <1>3 DEF Receive, Lookup, LookupFails, Authorize, Refuse, Backoff, Cancel,
        ReadFails, Reject, Repeat,
                DeadLetter, SaveFails, Answer, FailAttempt, TypeOK, Errors
  <2>4. Errors \cap Statuses = {}
    BY GatewayAssumption DEF Errors, Statuses, Terminal
  <2>5. ASSUME Repeat(w) PROVE Settled(req[w], orders[req[w].ref].status)
    <3>1. req[w] \in Requests /\ Known(req[w])
      BY <1>0, <2>5 DEF Repeat, Locked, TypeOK
    <3>2. CASE Duplicate(req[w])
      <4>1. <<req[w].ref, req[w].provider, req[w].key>> \in
              {t \in idempotent : t[1] = req[w].ref}
        BY <3>2 DEF Duplicate
      <4>2. orders[req[w].ref].status \in Terminal
        BY <3>1, <4>1 DEF Inv, TracesAgree, Requests
      <4>3. QED
        BY <3>1, <4>2 DEF Known, Settled
    <3>3. CASE Final(orders[req[w].ref])
      BY <3>1, <3>3 DEF Known, Final, Settled
    <3>4. QED
      BY <2>5, <3>2, <3>3 DEF Repeat
  <2>6. AnswersSettled'
    BY <2>1, <2>3, <2>4, <2>5 DEF Inv, AnswersSettled, Settled
  <2>7. QED
    BY <1>0, <2>1, <2>2, <2>2a, <2>6, TablesKept, TracesKept DEF Inv
<1>4. QED
  BY <1>1, <1>2, <1>3 DEF Serve, Reconcile

LEMMA CrashSafe == Inv /\ Crash => Inv'
<1> SUFFICES ASSUME Inv, Crash PROVE Inv'
  OBVIOUS
<1>1. TypeOK'
  BY TypeStep DEF Inv, Next
<1>2. UNCHANGED <<orders, ledger, invoices, acked>> /\ UNCHANGED store
  BY DEF Crash, store
<1>3. Creating' /\ OrderHasInvoice' /\ CreationKeysFree' /\ KeysKnown'
  BY <1>2 DEF Inv, Crash, Creating, OrderHasInvoice, CreationKeysFree, KeysKnown
<1>4. AnswersSettled' /\ AckedSettled'
  BY <1>2 DEF Inv, Crash, AnswersSettled, AckedSettled, Settled
<1>5. TracesAgree'
  BY DEF Crash, TracesAgree, Events
<1>6. QED
  BY <1>1, <1>2, <1>3, <1>4, <1>5, TablesKept DEF Inv

LEMMA InvStep == Inv /\ [Next]_vars => Inv'
<1>1. Inv /\ UNCHANGED vars => Inv'
  <2> SUFFICES ASSUME Inv, UNCHANGED vars PROVE Inv'
    OBVIOUS
  <2>1. TypeOK'
    BY TypeStep DEF Inv
  <2>2. UNCHANGED <<orders, ledger, invoices, creating, idempotent, audit, acked>> /\ UNCHANGED handler
        /\ UNCHANGED store
    BY DEF vars, store, memory
  <2>3. Creating' /\ OrderHasInvoice'
    BY <2>2 DEF Inv, Creating, OrderHasInvoice
  <2>4. QED
    BY <2>1, <2>2, <2>3, TablesKept, KeysKept, AnswersKept, TracesKept DEF Inv
<1>2. QED
  BY <1>1, CreateSafe, ServeSafe, CrashSafe DEF Next

LEMMA Invariant == Spec => []Inv
BY InvInit, InvStep, PTL DEF Spec

(* An acknowledgement is never taken back. *)
THEOREM AcknowledgedStays == Spec => []AckMeansSettled
<1>1. Inv => AckMeansSettled
  BY DEF Inv, AckedSettled, Settled, AckMeansSettled
<1>2. QED
  BY <1>1, Invariant, PTL

(* Audit trail, idempotency map and database agree on what webhooks did,   *)
(* and at most one webhook settles an order in one life of the process.    *)
THEOREM OneSettlementPerOrder == Spec => []TracesAgree
<1>1. Inv => TracesAgree
  BY DEF Inv
<1>2. QED
  BY <1>1, Invariant, PTL

(* No order is recorded without the invoice of its provider. *)
THEOREM InvoiceComesFirst == Spec => []OrderHasInvoice
<1>1. Inv => OrderHasInvoice
  BY DEF Inv
<1>2. QED
  BY <1>1, Invariant, PTL

(* Under every store fault and for any keys webhooks carry, each order     *)
(* owns a row, and only the amounts of its creation stand under a policy's *)
(* checksum.                                                               *)
THEOREM LinesStayAccountable == Spec => []LinesAccountable
<1>1. Inv => LinesAccountable
  <2> SUFFICES ASSUME Inv PROVE LinesAccountable
    OBVIOUS
  <2>1. ASSUME NEW r \in Refs, orders[r] # None PROVE LatestRow(r) # {}
    <3>1. r \in RowsOf(r)
      BY <2>1 DEF Inv, CreationRows, RowsOf, LedgerKeys
    <3>2. QED
      BY <3>1, LatestExists DEF Inv
  <2>2. QED
    BY <2>1 DEF Inv, HashRows, LinesAccountable
<1>2. QED
  BY <1>1, Invariant, PTL

(* One step of the program, seen from one order. *)
LEMMA OrderStep ==
  ASSUME Inv, [Next]_vars, NEW r \in Refs, orders[r] # None
  PROVE  \/ orders'[r] = orders[r]
         \/ /\ orders[r].status \notin Terminal
            /\ \E s \in Terminal : orders'[r] = [orders[r] EXCEPT !.status = s]
<1>0. TypeOK
  BY DEF Inv
<1>1. CASE CreateSave
  <2>1. orders[creating.ref] = None
    BY <1>1 DEF CreateSave, Inv, Creating
  <2>2. r # creating.ref
    BY <2>1
  <2>3. QED
    BY <1>0, <1>1, <2>2 DEF CreateSave, SaveOrder, TypeOK
<1>2. CASE \E w \in Workers : Settle(w)
  <2>1. PICK w \in Workers : Settle(w)
    BY <1>2
  <2>2. /\ orders' = [orders EXCEPT ![req[w].ref] = [@ EXCEPT !.status = req[w].status]]
        /\ req[w] \in Requests
        /\ orders[req[w].ref].status \notin Terminal
        /\ req[w].status \in Terminal
    BY <2>1, SettleEffect
  <2>3. QED
    BY <1>0, <2>2 DEF TypeOK
<1>3. CASE UNCHANGED orders
  BY <1>3
<1>4. CASE Create
  BY <1>1, <1>3, <1>4
  DEF Create, CreateBegin, GatewayAnswers, GatewayFails, CreateSaveFails, store
<1>5. ASSUME NEW w \in Workers, Serve(w) PROVE UNCHANGED orders \/ Settle(w)
  BY <1>5 DEF Serve, Receive, Lookup, LookupFails, Authorize, Refuse, Reconcile, ReadFails,
      Reject, Repeat, DeadLetter,
              SaveFails, Backoff, Cancel, Respond, store
<1>6. CASE Crash
  BY <1>3, <1>6 DEF Crash, store
<1>7. CASE UNCHANGED vars
  BY <1>3, <1>7 DEF vars, store
<1>8. QED
  BY <1>2, <1>3, <1>4, <1>5, <1>6, <1>7 DEF Next

(* A terminal order is final, and settling changes nothing but a status. *)
THEOREM OrdersFinal == Spec => OrdersOnlySettle
<1>1. Inv /\ [Next]_vars =>
        [\A r \in Refs : orders[r] # None =>
           \/ orders'[r] = orders[r]
           \/ /\ orders[r].status \notin Terminal
              /\ \E s \in Terminal : orders'[r] = [orders[r] EXCEPT !.status = s]]_vars
  BY OrderStep
<1>2. QED
  BY <1>1, Invariant, PTL DEF Spec, OrdersOnlySettle

(* Whoever asks for what the order already is, or repeats a key that was   *)
(* honoured, is not rejected.                                              *)
LEMMA RepetitionNotRejected ==
  ASSUME TypeOK, [Next]_vars, NEW w \in Workers, reply[w] # "rejected",
         Known(req[w]),
         Duplicate(req[w]) \/ Settled(req[w], req[w].status)
  PROVE  reply'[w] # "rejected"
<1> SUFFICES ASSUME reply'[w] = "rejected" PROVE FALSE
  OBVIOUS
<1> DEFINE d == req[w]
<1>1. Duplicate(d) \/ (Final(orders[d.ref]) /\ SameOutcome(orders[d.ref], d))
  BY DEF Settled, Final, SameOutcome
<1>2. ~Reject(w) /\ ~DeadLetter(w)
  BY <1>1 DEF Reject, DeadLetter, Fresh
<1>3. ~Create /\ ~Crash /\ ~UNCHANGED vars
  BY DEF Create, CreateBegin, GatewayAnswers, GatewayFails, CreateSave, CreateSaveFails, Crash,
         vars, handler
<1>4. ASSUME NEW v \in Workers, Serve(v) PROVE v = w
  BY <1>4 DEF Serve, Receive, Lookup, LookupFails, Authorize, Refuse, Reconcile, ReadFails,
     Reject, Repeat, DeadLetter, Settle, SaveFails, Backoff, Cancel, Respond, Answer,
     FailAttempt, TypeOK
<1>5. Serve(w)
  BY <1>3, <1>4 DEF Next
<1>6. Repeat(w)
  <2>1. ~Settle(w)
    BY <1>1 DEF Settle, Fresh
  <2>2. QED
    BY <1>2, <1>5, <2>1 DEF Serve, Receive, Lookup, LookupFails, Authorize, Refuse, Reconcile,
       ReadFails, SaveFails, Backoff, Cancel, Respond, Answer, FailAttempt, TypeOK
<1>7. reply'[w] \in Statuses
  <2>1. d \in Requests /\ orders[d.ref] \in Orders
    BY <1>6 DEF Repeat, Locked, Known, TypeOK, Requests
  <2>2. QED
    BY <1>6, <2>1 DEF Repeat, Answer, Orders, TypeOK
<1>8. QED
  BY <1>7, GatewayAssumption DEF Statuses, Terminal, Errors

(* An order whose key was honoured is known under the provider of the key. *)
LEMMA HonouredKnown ==
  ASSUME Inv, NEW d, Duplicate(d)
  PROVE  Known(d)
<1>0. d.ref \in Refs
  BY DEF Duplicate, Inv, TypeOK
<1>1. <<d.ref, d.provider, d.key>> \in {t \in idempotent : t[1] = d.ref}
  BY DEF Duplicate
<1>2. /\ orders[d.ref] # None
      /\ orders[d.ref].provider = d.provider
  BY <1>0, <1>1 DEF Inv, TracesAgree
<1>3. QED
  BY <1>2 DEF Known

(* A redelivery of an acknowledged request is never rejected, even by a    *)
(* process that has forgotten the first delivery, and neither is anything  *)
(* under a key it remembers.                                               *)
THEOREM RedeliveryAccepted == Spec => AckIsStable
<1> DEFINE A == \A w \in Workers :
       reply[w] # "rejected" /\ reply'[w] = "rejected" =>
         /\ <<req[w], req[w].status>> \notin acked
         /\ <<req[w].ref, req[w].provider, req[w].key>> \notin idempotent
<1>1. Inv /\ [Next]_vars => [A]_vars
  <2> SUFFICES ASSUME Inv, [Next]_vars, NEW w \in Workers,
                      reply[w] # "rejected", reply'[w] = "rejected"
               PROVE  /\ <<req[w], req[w].status>> \notin acked
                      /\ <<req[w].ref, req[w].provider, req[w].key>> \notin idempotent
    OBVIOUS
  <2>0. TypeOK
    BY DEF Inv
  <2>1. ASSUME <<req[w], req[w].status>> \in acked PROVE FALSE
    <3>1. Settled(req[w], req[w].status)
      BY <2>1 DEF Inv, AckedSettled
    <3>2. QED
      BY <2>0, <3>1, RepetitionNotRejected DEF Settled, Known
  <2>2. ASSUME <<req[w].ref, req[w].provider, req[w].key>> \in idempotent PROVE FALSE
    <3>1. Duplicate(req[w])
      BY <2>2 DEF Duplicate
    <3>2. QED
      BY <2>0, <3>1, HonouredKnown, RepetitionNotRejected
  <2>3. QED
    BY <2>1, <2>2
<1>2. QED
  BY <1>1, Invariant, PTL DEF Spec, AckIsStable

-----------------------------------------------------------------------------
(* Termination of the handlers: StepsLeft is a variant of the retry loop.  *)
(* It is the part of the runs' liveness property a proof can reach; what   *)
(* is left of it is the fairness of the scheduler.                         *)

LEMMA StepsNatural ==
  TypeOK => \A w \in Workers : StepsLeft(w) \in Nat
<1> SUFFICES ASSUME TypeOK, NEW w \in Workers PROVE StepsLeft(w) \in Nat
  OBVIOUS
<1>1. tries[w] \in 0 .. MaxAttempts
  BY DEF TypeOK
<1>2. QED
  BY <1>1, MaxAttemptsAssumption DEF StepsLeft

LEMMA AttemptProgress ==
  ASSUME TypeOK, NEW w \in Workers, Reconcile(w)
  PROVE  StepsLeft(w)' < StepsLeft(w)
<1>0. /\ pc[w] = "attempt" /\ tries[w] \in 0 .. MaxAttempts /\ tries[w] < MaxAttempts
      /\ StepsLeft(w) = 2 * (MaxAttempts - tries[w])
  BY DEF TypeOK, Reconcile, ReadFails, Reject, Repeat, DeadLetter, Settle, SaveFails, Locked,
         StepsLeft
<1>1. CASE pc' = [pc EXCEPT ![w] = "replied"]
  <2>1. StepsLeft(w)' = 0
    BY <1>1 DEF TypeOK, StepsLeft
  <2>2. QED
    BY <1>0, <2>1, MaxAttemptsAssumption
<1>2. CASE /\ pc' = [pc EXCEPT ![w] = "backoff"]
           /\ tries' = [tries EXCEPT ![w] = tries[w] + 1]
  <2>1. StepsLeft(w)' = 2 * (MaxAttempts - (tries[w] + 1)) + 1
    BY <1>2 DEF TypeOK, StepsLeft
  <2>2. QED
    BY <1>0, <2>1, MaxAttemptsAssumption
<1>3. QED
  BY <1>1, <1>2 DEF Reconcile, ReadFails, Reject, Repeat, DeadLetter, Settle, SaveFails,
                    FailAttempt, Answer

LEMMA HandlerProgress ==
  ASSUME TypeOK, NEW w \in Workers, Serve(w), pc[w] \notin {"idle", "replied"}
  PROVE  StepsLeft(w)' < StepsLeft(w)
<1>0. tries[w] \in 0 .. MaxAttempts /\ tries[w] < MaxAttempts
  BY DEF TypeOK
<1>1. CASE Lookup(w)
  BY <1>1, MaxAttemptsAssumption DEF TypeOK, Lookup, StepsLeft
<1>2. CASE Authorize(w)
  <2>1. StepsLeft(w) = 2 * MaxAttempts + 1 /\ StepsLeft(w)' = 2 * (MaxAttempts - tries[w])
    BY <1>2 DEF TypeOK, Authorize, StepsLeft
  <2>2. QED
    BY <1>0, <2>1, MaxAttemptsAssumption
<1>3. CASE Backoff(w)
  <2>1. /\ StepsLeft(w) = 2 * (MaxAttempts - tries[w]) + 1
        /\ StepsLeft(w)' = 2 * (MaxAttempts - tries[w])
    BY <1>3 DEF TypeOK, Backoff, StepsLeft
  <2>2. QED
    BY <1>0, <2>1, MaxAttemptsAssumption
<1>4. CASE LookupFails(w) \/ Refuse(w) \/ Cancel(w)
  <2>1. pc[w] \in {"lookup", "auth", "attempt", "backoff"} /\ StepsLeft(w)' = 0
    BY <1>4 DEF TypeOK, LookupFails, Refuse, Cancel, Answer, StepsLeft
  <2>2. StepsLeft(w) > 0
    BY <1>0, <2>1, MaxAttemptsAssumption DEF StepsLeft
  <2>3. QED
    BY <2>1, <2>2
<1>5. QED
  BY <1>1, <1>2, <1>3, <1>4, AttemptProgress DEF Serve, Receive, Respond

(* A crash ends every request, and no other goroutine moves a handler.     *)
LEMMA ProgressStep ==
  ASSUME TypeOK, [Next]_vars, NEW w \in Workers, pc[w] \notin {"idle", "replied"},
         <<pc[w], tries[w]>>' # <<pc[w], tries[w]>>
  PROVE  StepsLeft(w)' \in 0 .. StepsLeft(w) - 1
<1>0. StepsLeft(w) \in Nat /\ StepsLeft(w)' \in Nat
  <2>1. tries'[w] \in 0 .. MaxAttempts
    BY TypeStep DEF TypeOK
  <2>2. QED
    BY <2>1, StepsNatural, MaxAttemptsAssumption DEF StepsLeft
<1>1. ASSUME Crash PROVE StepsLeft(w)' < StepsLeft(w)
  <2>1. StepsLeft(w)' = 0
    BY <1>1 DEF Crash, StepsLeft
  <2>2. StepsLeft(w) > 0
    <3>1. /\ pc[w] \in {"lookup", "auth", "attempt", "backoff"}
          /\ tries[w] \in 0 .. MaxAttempts /\ tries[w] < MaxAttempts
      BY DEF TypeOK, Places
    <3>2. QED
      BY <3>1, MaxAttemptsAssumption DEF StepsLeft
  <2>3. QED
    BY <2>1, <2>2
<1>2. ~Create /\ ~UNCHANGED vars
  BY DEF Create, CreateBegin, GatewayAnswers, GatewayFails, CreateSave, CreateSaveFails,
         vars, handler
<1>3. ASSUME NEW v \in Workers, Serve(v) PROVE v = w
  BY <1>3 DEF Serve, Receive, Lookup, LookupFails, Authorize, Refuse, Reconcile, ReadFails,
     Reject, Repeat, DeadLetter, Settle, SaveFails, Backoff, Cancel, Respond, Answer,
     FailAttempt, TypeOK
<1>4. StepsLeft(w)' < StepsLeft(w)
  BY <1>1, <1>2, <1>3, HandlerProgress DEF Next
<1>5. QED
  BY <1>0, <1>4

(* Every handler is done after a bounded number of its own steps, for any  *)
(* retry policy, whatever fails and whoever else is at work.               *)
THEOREM HandlersTerminate == Spec => HandlersProgress
<1>1. TypeOK /\ [Next]_vars =>
        [\A w \in Workers :
           pc[w] \notin {"idle", "replied"} /\ <<pc[w], tries[w]>>' # <<pc[w], tries[w]>> =>
             StepsLeft(w)' \in 0 .. StepsLeft(w) - 1]_vars
  BY ProgressStep
<1>2. QED
  BY <1>1, TypeCorrect, PTL DEF Spec, HandlersProgress

-----------------------------------------------------------------------------
(* The settlement line.  While the ledger can be read the fallback of      *)
(* ReconcileWebhook never writes, so an order has exactly one row.         *)

NoFallbackRow == MadeUp = {}

LEMMA OneRow ==
  ASSUME Inv, NoFallbackRow, NEW r \in Refs
  PROVE  LatestRow(r) = IF orders[r] = None THEN {} ELSE {r}
<1>0. TypeOK
  BY DEF Inv
<1>1. \A k \in LedgerKeys : ledger[k] # None => ledger[k].sum = "hash"
  BY <1>0 DEF NoFallbackRow, MadeUp, TypeOK, Rows
<1>2. RowsOf(r) = IF orders[r] = None THEN {} ELSE {r}
  BY <1>1 DEF RowsOf, Inv, HashRows, RowsOwned, CreationRows, LedgerKeys
<1>3. orders[r] # None => ledger[r].id \in Nat
  BY <1>0 DEF Inv, CreationRows, TypeOK, LedgerKeys, Rows
<1>4. QED
  BY <1>2, <1>3 DEF LatestRow

LEMMA OriginalLine ==
  ASSUME Inv, NoFallbackRow, NEW r \in Refs, orders[r] # None
  PROVE  ledger[r].quote = orders[r].quote /\ ledger[r].sum = "hash"
<1>1. r \in LedgerKeys /\ ledger[r] \in Rows /\ ledger[r] # None
  BY DEF Inv, TypeOK, CreationRows, LedgerKeys
<1>2. ledger[r].sum = "hash"
  BY <1>1 DEF NoFallbackRow, MadeUp, Rows
<1>3. QED
  BY <1>1, <1>2 DEF Inv, HashRows

LEMMA NoFallbackStep ==
  ASSUME Inv, NoFallbackRow, "GetLedger" \notin Faults, [Next]_vars
  PROVE  NoFallbackRow'
<1>0. TypeOK
  BY DEF Inv
<1>1. CASE CreateSave
  <2>1. creating.ref \in LedgerKeys /\ ledger[creating.ref] = None
    BY <1>0, <1>1 DEF CreateSave, TypeOK, Creations, LedgerKeys, Inv, Creating
  <2>2. \A k \in LedgerKeys \ {creating.ref} : ledger'[k] = ledger[k]
    BY <1>0, <1>1, <2>1 DEF CreateSave, SaveOrder, Upsert, CreationKey, TypeOK
  <2>3. ledger'[creating.ref].sum = "hash"
    <3> DEFINE line == Line(creating.ref, creating.quote, "hash")
    <3>1. Upsert(creating.ref, line)
      BY <1>1 DEF CreateSave, SaveOrder, CreationKey
    <3>2. line.sum = "hash"
      BY DEF Line
    <3> HIDE DEF line
    <3>3. QED
      BY <1>0, <2>1, <3>1, <3>2 DEF Upsert, TypeOK
  <2>4. QED
    BY <2>1, <2>2, <2>3 DEF NoFallbackRow, MadeUp
<1>2. CASE \E w \in Workers : Settle(w)
  <2>1. PICK w \in Workers : Settle(w)
    BY <1>2
  <2>2. req[w].ref \in Refs /\ orders[req[w].ref] # None
    BY <1>0, <2>1, SettleEffect, NoneAssumption DEF Requests
  <2>3. LatestRow(req[w].ref) # {}
    BY <2>2, OneRow
  <2>4. ledger' = ledger
    BY <2>1, <2>3, SettleEffect
  <2>5. QED
    BY <2>4 DEF NoFallbackRow, MadeUp
<1>3. CASE UNCHANGED ledger
  BY <1>3 DEF NoFallbackRow, MadeUp
<1>4. CASE Create
  BY <1>1, <1>3, <1>4
  DEF Create, CreateBegin, GatewayAnswers, GatewayFails, CreateSaveFails, store
<1>5. ASSUME NEW w \in Workers, Serve(w) PROVE UNCHANGED ledger \/ Settle(w)
  BY <1>5 DEF Serve, Receive, Lookup, LookupFails, Authorize, Refuse, Reconcile, ReadFails,
      Reject, Repeat, DeadLetter,
              SaveFails, Backoff, Cancel, Respond, store
<1>6. CASE Crash
  BY <1>3, <1>6 DEF Crash, store
<1>7. CASE UNCHANGED vars
  BY <1>3, <1>7 DEF vars, store
<1>8. QED
  BY <1>2, <1>3, <1>4, <1>5, <1>6, <1>7 DEF Next

LEMMA LedgerInvariant ==
  ASSUME "GetLedger" \notin Faults
  PROVE  Spec => [](Inv /\ NoFallbackRow)
<1>1. Init => NoFallbackRow
  BY DEF Init, NoFallbackRow, MadeUp
<1>2. Inv /\ NoFallbackRow /\ [Next]_vars => NoFallbackRow'
  BY NoFallbackStep
<1>3. QED
  BY <1>1, <1>2, Invariant, PTL DEF Spec

(* What GetLedger returns for an order is the settlement it was created    *)
(* with, until a line has been made up.                                    *)
THEOREM LedgerTruthful == Spec => []LedgerMatchesOrder
<1>1. Inv => LedgerMatchesOrder
  <2> SUFFICES ASSUME Inv, NEW r \in Refs, orders[r] # None, MadeUp = {}
               PROVE  \E k \in LatestRow(r) :
                        ledger[k].quote = orders[r].quote /\ ledger[k].sum = "hash"
    BY DEF LedgerMatchesOrder
  <2>1. LatestRow(r) = {r}
    BY OneRow DEF NoFallbackRow
  <2>2. ledger[r].quote = orders[r].quote /\ ledger[r].sum = "hash"
    BY OriginalLine DEF NoFallbackRow
  <2>3. QED
    BY <2>1, <2>2
<1>2. QED
  BY <1>1, Invariant, PTL

QuoteOf(r) == IF orders[r] = None THEN None ELSE orders[r].quote

LEMMA LineIsQuote ==
  Inv /\ NoFallbackRow => \A r \in Refs : LineOf(r) = QuoteOf(r)
<1> SUFFICES ASSUME Inv, NoFallbackRow, NEW r \in Refs PROVE LineOf(r) = QuoteOf(r)
  OBVIOUS
<1> USE DEF QuoteOf
<1>1. CASE orders[r] = None
  BY <1>1, OneRow DEF LineOf
<1>2. CASE orders[r] # None
  <2>1. LatestRow(r) = {r}
    BY <1>2, OneRow
  <2>2. (CHOOSE k \in LatestRow(r) : TRUE) = r
    BY <2>1
  <2>3. ledger[r].quote = orders[r].quote
    BY <1>2, OriginalLine
  <2>4. QED
    BY <1>2, <2>1, <2>2, <2>3 DEF LineOf
<1>3. QED
  BY <1>1, <1>2

(* The orders, each with the quote it was created with for its line: while *)
(* the ledger can be read, the refinement mapping comes down to this one.  *)
Quoted ==
  INSTANCE OrderLifecycle WITH order <- orders, line <- [r \in Refs |-> QuoteOf(r)]

(* Every step of the program records one order with its line, finishes one *)
(* order, or changes neither orders nor lines.                             *)
LEMMA QuotedStep ==
  ASSUME Inv, [Next]_vars
  PROVE  [Quoted!Next]_(Quoted!vars)
<1> DEFINE line == [r \in Refs |-> QuoteOf(r)]
<1>0. TypeOK
  BY DEF Inv
<1>3. CASE CreateSave
  <2>1. PICK o \in Orders : orders' = [orders EXCEPT ![creating.ref] = o]
    <3>1. creating \in Creations /\ creating.answer \in GatewayStatuses
      BY <1>0, <1>3 DEF CreateSave, Answered, TypeOK, Creations
    <3>2. [provider |-> creating.provider, quote |-> creating.quote,
           status |-> IF creating.answer = "" THEN "created" ELSE creating.answer] \in Orders
      BY <3>1 DEF Creations, Orders, Statuses
    <3>3. QED
      BY <1>3, <3>2 DEF CreateSave, SaveOrder
  <2>2. creating.ref \in Refs /\ orders[creating.ref] = None
    BY <1>0, <1>3 DEF CreateSave, TypeOK, Creations, Inv, Creating
  <2>3. line' = [line EXCEPT ![creating.ref] = o.quote]
    <3>1. o # None
      BY NoneAssumption
    <3>2. \A r \in Refs : QuoteOf(r)' = IF r = creating.ref THEN o.quote ELSE QuoteOf(r)
      BY <1>0, <2>1, <2>2, <3>1 DEF QuoteOf, TypeOK
    <3>3. QED
      BY <2>2, <3>2
  <2>4. QED
    BY <2>1, <2>2, <2>3 DEF Quoted!Next, Quoted!Record, Quoted!Orders, Orders
<1>4. CASE \E w \in Workers : Settle(w)
  <2>1. PICK w \in Workers : Settle(w)
    BY <1>4
  <2> DEFINE d == req[w]
  <2>2. /\ d.ref \in Refs
        /\ orders[d.ref] # None
        /\ orders[d.ref] \in Orders
        /\ orders[d.ref].status \notin Terminal
        /\ d.status \in Terminal
        /\ orders' = [orders EXCEPT ![d.ref] = [@ EXCEPT !.status = d.status]]
    BY <2>1, SettleEffect, NoneAssumption DEF Requests
  <2> HIDE DEF d
  <2>3. orders' = [orders EXCEPT ![d.ref].status = d.status]
    BY <2>2
  <2>4. line' = line
    <3>1. \A r \in Refs : orders[r] # None =>
            orders'[r] # None /\ orders'[r].quote = orders[r].quote
      <4>1. [orders[d.ref] EXCEPT !.status = d.status] \in Orders
        BY <2>2 DEF Orders, Statuses
      <4>2. [orders[d.ref] EXCEPT !.status = d.status].quote = orders[d.ref].quote
        BY <2>2 DEF Orders
      <4>3. QED
        BY <1>0, <2>2, <4>1, <4>2, NoneAssumption DEF TypeOK
    <3>2. \A r \in Refs : orders[r] = None => orders'[r] = None
      BY <1>0, <2>2 DEF TypeOK
    <3>3. \A r \in Refs : QuoteOf(r)' = QuoteOf(r)
      BY <3>1, <3>2 DEF QuoteOf
    <3>4. QED
      BY <3>3
  <2>5. QED
    BY <2>2, <2>3, <2>4 DEF Quoted!Next, Quoted!Finish
<1>5. CASE UNCHANGED orders
  <2>1. \A r \in Refs : QuoteOf(r)' = QuoteOf(r)
    BY <1>5 DEF QuoteOf
  <2>2. line' = line
    BY <2>1
  <2>3. QED
    BY <1>5, <2>2 DEF Quoted!vars
<1>6. CASE Create
  BY <1>3, <1>5, <1>6
  DEF Create, CreateBegin, GatewayAnswers, GatewayFails, CreateSaveFails, store
<1>7. ASSUME NEW w \in Workers, Serve(w) PROVE UNCHANGED orders \/ Settle(w)
  BY <1>7 DEF Serve, Receive, Lookup, LookupFails, Authorize, Refuse, Reconcile, ReadFails,
      Reject, Repeat, DeadLetter,
              SaveFails, Backoff, Cancel, Respond, store
<1>8. CASE Crash
  BY <1>5, <1>8 DEF Crash, store
<1>9. CASE UNCHANGED vars
  BY <1>5, <1>9 DEF vars, store
<1>10. QED
  BY <1>4, <1>5, <1>6, <1>7, <1>8, <1>9 DEF Next

(* While the ledger can be read, the orders and the settlement lines       *)
(* implement OrderLifecycle.                                               *)
THEOREM Implements ==
  ASSUME "GetLedger" \notin Faults
  PROVE  Spec => ImplementsLifecycle
<1> DEFINE Same == [r \in Refs |-> LineOf(r)] = [r \in Refs |-> QuoteOf(r)]
<1>1. Init => Lifecycle!Init
  <2> SUFFICES ASSUME Init PROVE Lifecycle!Init
    OBVIOUS
  <2>1. \A r \in Refs : LineOf(r) = None
    BY DEF Init, LineOf, LatestRow, RowsOf
  <2>2. QED
    BY <2>1 DEF Init, Lifecycle!Init
<1>2. Inv /\ NoFallbackRow => Same
  BY LineIsQuote
<1>3. Inv /\ Same /\ Same' /\ [Next]_vars => [Lifecycle!Next]_(Lifecycle!vars)
  BY QuotedStep
  DEF Quoted!Next, Quoted!Record, Quoted!Finish, Quoted!Orders, Quoted!vars,
      Lifecycle!Next, Lifecycle!Record, Lifecycle!Finish, Lifecycle!Orders, Lifecycle!vars
<1> HIDE DEF Same
<1>4. QED
  BY <1>1, <1>2, <1>3, LedgerInvariant, PTL DEF Spec, ImplementsLifecycle, Lifecycle!Spec

(* The settlement line read back is immutable, as domain.go says, in every *)
(* behaviour in which the ledger can be read: a failing GetLedger is the   *)
(* only cause of the counterexample TLC shows.                             *)
THEOREM LineImmutableWhenRead ==
  ASSUME "GetLedger" \notin Faults
  PROVE  Spec => SettlementLineImmutable
<1> DEFINE A == \A r \in Refs, k \in LedgerKeys :
       k \in LatestRow(r) => \A j \in LatestRow(r)' :
         ledger'[j].quote = ledger[k].quote /\ ledger'[j].sum = ledger[k].sum
<1> DEFINE OnlyRow == \A r \in Refs : orders[r] # None =>
       /\ LatestRow(r) = {r}
       /\ ledger[r].quote = orders[r].quote /\ ledger[r].sum = "hash"
<1>0. Inv /\ NoFallbackRow => OnlyRow
  BY OneRow, OriginalLine
<1>1. Inv /\ NoFallbackRow /\ Inv' /\ OnlyRow' /\ [Next]_vars => [A]_vars
  <2> SUFFICES ASSUME Inv, NoFallbackRow, Inv', OnlyRow', [Next]_vars PROVE A
    OBVIOUS
  <2> SUFFICES ASSUME NEW r \in Refs, NEW k \in LedgerKeys, k \in LatestRow(r),
                      NEW j \in LatestRow(r)'
               PROVE  ledger'[j].quote = ledger[k].quote /\ ledger'[j].sum = ledger[k].sum
    OBVIOUS
  <2>1. orders[r] # None /\ k = r
    BY OneRow
  <2>2. /\ orders'[r] # None
        /\ orders'[r].quote = orders[r].quote
    <3>1. TypeOK /\ TypeOK' /\ orders[r] \in Orders
      BY <2>1 DEF Inv, TypeOK
    <3>2. \A s : [orders[r] EXCEPT !.status = s].quote = orders[r].quote
      BY <3>1 DEF Orders
    <3>3. \A s \in Terminal : [orders[r] EXCEPT !.status = s] \in Orders
      BY <3>1 DEF Orders, Statuses
    <3>4. orders'[r] = orders[r] \/ \E s \in Terminal : orders'[r] = [orders[r] EXCEPT !.status = s]
      BY <2>1, OrderStep
    <3>5. QED
      BY <2>1, <3>1, <3>2, <3>3, <3>4, NoneAssumption
  <2>3. j = r
    BY <2>2
  <2>4. /\ ledger[r].quote = orders[r].quote /\ ledger[r].sum = "hash"
        /\ ledger'[r].quote = orders'[r].quote /\ ledger'[r].sum = "hash"
    BY <2>1, <2>2, OriginalLine
  <2>5. QED
    BY <2>1, <2>2, <2>3, <2>4
<1> HIDE DEF OnlyRow
<1>2. QED
  BY <1>0, <1>1, LedgerInvariant, PTL DEF Spec, SettlementLineImmutable
=============================================================================
