--------------------------- MODULE SessionsProofs ---------------------------
(* Machine-checked proofs about Sessions, for every value of its constants. *)
EXTENDS Sessions, TLAPS

-----------------------------------------------------------------------------
(* Type correctness.                                                       *)

JobTyped(j) ==
  /\ j \in Jobs \cup {None}
  /\ j # None =>
       /\ j.sets # {} => j.at = "answer"
       /\ j.at \in {"again", "act"} => j.sent \in Tokens

JobsTyped ==
  /\ job \in [Threads -> Jobs \cup {None}]
  /\ \A c \in Threads : JobTyped(job[c])

LEMMA JobUpdate ==
  ASSUME JobsTyped, NEW c \in Threads, NEW j, JobTyped(j),
         job' = [job EXCEPT ![c] = j]
  PROVE  JobsTyped'
<1>1. j \in Jobs \cup {None}
  BY DEF JobTyped
<1>2. job' \in [Threads -> Jobs \cup {None}]
  BY <1>1 DEF JobsTyped
<1>3. ASSUME NEW x \in Threads PROVE JobTyped(job'[x])
  BY DEF JobsTyped
<1>4. QED
  BY <1>2, <1>3 DEF JobsTyped, JobTyped

LEMMA TypedJobs == TypeOK => JobsTyped
BY DEF TypeOK, JobsTyped, JobTyped

(* A handler moves on: only its place changes. *)
LEMMA Moved ==
  ASSUME TypeOK, NEW c \in Threads, job[c] # None, NEW place \in Places,
         place \in {"again", "act"} => job[c].sent \in Tokens,
         job[c].at # "answer", Goes(c, place)
  PROVE  /\ JobsTyped'
         /\ job'[c] # None /\ job'[c].at = place /\ job'[c].sent = job[c].sent
         /\ \A x \in Threads : x # c => job'[x] = job[x]
<1> DEFINE j == [job[c] EXCEPT !.at = place]
<1>1. job[c] \in Jobs /\ job[c].sets = {}
  BY DEF TypeOK
<1>2. j \in Jobs /\ j.at = place /\ j.sets = {} /\ j.sent = job[c].sent
  BY <1>1 DEF Jobs
<1>3. job' = [job EXCEPT ![c] = j]
  BY DEF Goes
<1>4. JobTyped(j)
  BY <1>2, NoJobAssumption DEF JobTyped
<1>5. JobsTyped'
  BY <1>3, <1>4, TypedJobs, JobUpdate
<1>6. job'[c] = j /\ \A x \in Threads : x # c => job'[x] = job[x]
  BY <1>3 DEF TypeOK
<1>7. QED
  BY <1>2, <1>5, <1>6, NoJobAssumption

(* A handler that opens or closes a session has an answer with a cookie. *)
LEMMA Told ==
  ASSUME TypeOK, NEW c \in Threads, job[c] # None, NEW v \in Tokens \cup {None},
         AnswerSets(c, v)
  PROVE  /\ JobsTyped'
         /\ job'[c] # None /\ job'[c].at = "answer" /\ job'[c].sent = job[c].sent
         /\ job'[c].kind = job[c].kind
         /\ \A x \in Threads : x # c => job'[x] = job[x]
<1> DEFINE j == [job[c] EXCEPT !.at = "answer", !.sets = {v}]
<1>1. job[c] \in Jobs
  BY DEF TypeOK
<1>2. /\ j \in Jobs /\ j.at = "answer" /\ j.sent = job[c].sent
      /\ j.kind = job[c].kind
  BY <1>1 DEF Jobs, Places
<1>3. job' = [job EXCEPT ![c] = j]
  BY DEF AnswerSets
<1>4. JobTyped(j)
  BY <1>2, NoJobAssumption DEF JobTyped
<1>5. JobsTyped'
  BY <1>3, <1>4, TypedJobs, JobUpdate
<1>6. job'[c] = j /\ \A x \in Threads : x # c => job'[x] = job[x]
  BY <1>3 DEF TypeOK
<1>7. QED
  BY <1>2, <1>5, <1>6, NoJobAssumption

-----------------------------------------------------------------------------
(* The inductive invariant.  The time left and the time since the last use *)
(* add up while a session is good; a token that was spent stays so,        *)
(* because only a look that finds it good extends it; and a request that   *)
(* came with a spent token can therefore only be turned away.              *)

LeftAgrees == \A t \in Tokens : Good(t) => uiSessions[t] = TTL - idle[t]

LateTurnedAway ==
  \A c \in late :
    /\ job[c] # None
    /\ job[c].sent = None \/ job[c].sent \in spent
    /\ job[c].at \notin {"again", "act"}

Inv == TypeOK /\ LeftAgrees /\ NoRevival /\ LateTurnedAway

LEMMA InitInv == Init => Inv
BY TTLAssumption, NoneAssumption
   DEF Init, Inv, TypeOK, LeftAgrees, NoRevival, LateTurnedAway, Good

(* The map is the same part of every step that does not touch it.          *)
LEMMA MapUnchanged ==
  ASSUME Inv, UNCHANGED <<uiSessions, idle, spent>>
  PROVE  LeftAgrees' /\ NoRevival'
BY DEF Inv, LeftAgrees, NoRevival, Good

LEMMA LookKeepsInv ==
  ASSUME Inv, NEW c \in Threads, job[c] # None, job[c].at # "answer",
         NEW yes \in Places, NEW no \in Places \ {"again", "act"},
         hasAdminUISession(c, yes, no)
  PROVE  Inv'
<1> DEFINE t == job[c].sent
<1>1. TypeOK /\ t \in Tokens \cup {None}
  BY DEF Inv, TypeOK, Jobs
<1>2. CASE Good(t)
  <2>1. t \in Tokens
    BY <1>1, <1>2 DEF Good
  <2>2. /\ uiSessions' = Extended(t)
        /\ idle' = [idle EXCEPT ![t] = 0]
        /\ Goes(c, yes)
        /\ UNCHANGED <<cookie, spent, late>>
    BY <1>2 DEF hasAdminUISession
  <2>3. /\ JobsTyped'
        /\ job'[c] # None /\ job'[c].sent = t
        /\ \A x \in Threads : x # c => job'[x] = job[x]
    BY <1>1, <2>1, <2>2, Moved
  <2>4. TypeOK'
    BY <1>1, <2>1, <2>2, <2>3, TTLAssumption DEF TypeOK, JobsTyped, JobTyped, Extended
  <2>5. LeftAgrees'
    BY <1>1, <2>1, <2>2, TTLAssumption, NoneAssumption
       DEF Inv, LeftAgrees, TypeOK, Good, Extended
  <2>6. t \notin spent
    BY <1>2 DEF Inv, NoRevival
  <2>7. NoRevival'
    BY <1>1, <2>1, <2>2, <2>6 DEF Inv, NoRevival, TypeOK, Good, Extended
  <2>8. c \notin late
    BY <2>1, <2>6, NoneAssumption DEF Inv, LateTurnedAway
  <2>9. LateTurnedAway'
    BY <1>1, <2>2, <2>3, <2>8 DEF Inv, LateTurnedAway, TypeOK
  <2>10. QED
    BY <2>4, <2>5, <2>7, <2>9 DEF Inv
<1>3. CASE ~Good(t)
  <2>1. /\ uiSessions' = Deleted(t)
        /\ Goes(c, no)
        /\ UNCHANGED <<idle, cookie, spent, late>>
    BY <1>3 DEF hasAdminUISession
  <2>2. /\ JobsTyped'
        /\ job'[c] # None /\ job'[c].sent = t /\ job'[c].at = no
        /\ \A x \in Threads : x # c => job'[x] = job[x]
    BY <1>1, <2>1, Moved
  <2>3. TypeOK'
    BY <1>1, <2>1, <2>2 DEF TypeOK, JobsTyped, JobTyped, Deleted
  <2>4. LeftAgrees' /\ NoRevival'
    BY <1>1, <2>1 DEF Inv, LeftAgrees, NoRevival, TypeOK, Good, Deleted
  <2>5. LateTurnedAway'
    BY <1>1, <2>1, <2>2 DEF Inv, LateTurnedAway, TypeOK
  <2>6. QED
    BY <2>3, <2>4, <2>5 DEF Inv
<1>4. QED
  BY <1>2, <1>3

(* A step of one handler that leaves the sessions alone. *)
LEMMA MoveKeepsInv ==
  ASSUME Inv, NEW c \in Threads, job[c] # None, job[c].at # "answer", Goes(c, "answer"),
         UNCHANGED <<uiSessions, cookie, idle, spent, late>>
  PROVE  Inv'
<1>1. /\ JobsTyped'
      /\ job'[c] # None /\ job'[c].sent = job[c].sent /\ job'[c].at = "answer"
      /\ \A x \in Threads : x # c => job'[x] = job[x]
  BY Moved DEF Inv, Places
<1>2. TypeOK'
  BY <1>1 DEF Inv, TypeOK, JobsTyped, JobTyped
<1>3. LateTurnedAway'
  BY <1>1 DEF Inv, LateTurnedAway, TypeOK
<1>4. QED
  BY <1>2, <1>3, MapUnchanged DEF Inv

LEMMA StepInv == Inv /\ [Next]_vars => Inv'
<1> SUFFICES ASSUME Inv, [Next]_vars PROVE Inv'
  OBVIOUS
<1>0. TypeOK /\ LeftAgrees /\ NoRevival /\ LateTurnedAway
  BY DEF Inv
<1>1. ASSUME NEW c \in Threads, NEW b \in Browsers, NEW k \in Kinds, Send(c, b, k)
      PROVE  Inv'
  <2> DEFINE j == [kind |-> k, from |-> b, sent |-> cookie[b], at |-> "arrived", sets |-> {}]
  <2>1. j \in Jobs /\ JobTyped(j)
    BY <1>0 DEF TypeOK, Jobs, Places, JobTyped
  <2>2. job' = [job EXCEPT ![c] = j]
    BY <1>1 DEF Send
  <2>3. JobsTyped'
    BY <1>0, <2>1, <2>2, TypedJobs, JobUpdate
  <2>4. TypeOK'
    BY <1>0, <1>1, <2>3 DEF TypeOK, JobsTyped, JobTyped, Send
  <2>5. job'[c] = j /\ \A x \in Threads : x # c => job'[x] = job[x]
    BY <1>0, <2>2 DEF TypeOK
  <2>6. ASSUME NEW x \in late'
        PROVE  /\ job'[x] # None
               /\ job'[x].sent = None \/ job'[x].sent \in spent
               /\ job'[x].at \notin {"again", "act"}
    <3>1. CASE x = c /\ (cookie[b] = None \/ cookie[b] \in spent)
      BY <2>1, <2>5, <3>1, NoJobAssumption
    <3>2. CASE x = c /\ ~(cookie[b] = None \/ cookie[b] \in spent)
      <4>1. c \in late
        BY <1>1, <2>6, <3>2 DEF Send
      <4>2. QED
        BY <1>0, <1>1, <4>1 DEF Send, LateTurnedAway
    <3>3. CASE x # c
      BY <1>0, <1>1, <2>5, <2>6, <3>3 DEF Send, LateTurnedAway, TypeOK
    <3>4. QED
      BY <3>1, <3>2, <3>3
  <2>7. QED
    BY <1>1, <2>4, <2>6, MapUnchanged DEF Inv, Send, LateTurnedAway
<1>2. ASSUME NEW c \in Threads, Gate(c) \/ GateAgain(c) PROVE Inv'
  <2>1. job[c] # None /\ job[c].at # "answer"
    BY <1>2 DEF Gate, GateAgain, At
  <2>2. \E yes \in Places, no \in Places \ {"again", "act"} : hasAdminUISession(c, yes, no)
    BY <1>2 DEF Gate, GateAgain, Places
  <2>3. QED
    BY <2>1, <2>2, LookKeepsInv
<1>3. ASSUME NEW c \in Threads, Act(c) \/ LoginFails(c) PROVE Inv'
  BY <1>3, MoveKeepsInv DEF Act, LoginFails, At
<1>4. ASSUME NEW c \in Threads, NEW t \in Tokens, setAdminUISession(c, t) PROVE Inv'
  <2>1. /\ JobsTyped'
        /\ job'[c] # None /\ job'[c].sent = job[c].sent /\ job'[c].at = "answer"
        /\ \A x \in Threads : x # c => job'[x] = job[x]
    BY <1>0, <1>4, Told DEF setAdminUISession, At
  <2>2. TypeOK'
    BY <1>0, <1>4, <2>1, TTLAssumption DEF TypeOK, JobsTyped, JobTyped, setAdminUISession
  <2>3. LeftAgrees' /\ NoRevival'
    BY <1>0, <1>4, TTLAssumption DEF TypeOK, LeftAgrees, NoRevival, Good, setAdminUISession
  <2>4. LateTurnedAway'
    BY <1>0, <1>4, <2>1 DEF TypeOK, LateTurnedAway, setAdminUISession, At
  <2>5. QED
    BY <2>2, <2>3, <2>4 DEF Inv
<1>5. ASSUME NEW c \in Threads, clearAdminUISession(c) PROVE Inv'
  <2>1. /\ JobsTyped'
        /\ job'[c] # None /\ job'[c].sent = job[c].sent /\ job'[c].at = "answer"
        /\ \A x \in Threads : x # c => job'[x] = job[x]
    BY <1>0, <1>5, Told DEF clearAdminUISession, At
  <2>2. job[c].sent \in Tokens \cup {None}
    BY <1>0, <1>5 DEF TypeOK, Jobs, clearAdminUISession, At
  <2>3. TypeOK'
    BY <1>0, <1>5, <2>1, <2>2 DEF TypeOK, JobsTyped, JobTyped, clearAdminUISession, Deleted
  <2>4. LeftAgrees' /\ NoRevival'
    BY <1>0, <1>5, <2>2
       DEF TypeOK, LeftAgrees, NoRevival, Good, clearAdminUISession, Deleted
  <2>5. LateTurnedAway'
    BY <1>0, <1>5, <2>1 DEF TypeOK, LateTurnedAway, clearAdminUISession, At
  <2>6. QED
    BY <2>3, <2>4, <2>5 DEF Inv
<1>6. ASSUME NEW c \in Threads, NEW delivered \in BOOLEAN, Answer(c, delivered) PROVE Inv'
  <2>1. JobTyped(None)
    BY DEF JobTyped
  <2>2. job' = [job EXCEPT ![c] = None] /\ late' = late \ {c}
    BY <1>6 DEF Answer
  <2>3. JobsTyped'
    BY <1>0, <2>1, <2>2, TypedJobs, JobUpdate
  <2>4. cookie' \in [Browsers -> Tokens \cup {None}]
    <3>1. job[c] \in Jobs
      BY <1>0, <1>6 DEF TypeOK, Answer, At
    <3>2. \A v \in job[c].sets : v \in Tokens \cup {None}
      BY <3>1 DEF Jobs
    <3>3. QED
      BY <1>0, <1>6, <3>2 DEF TypeOK, Answer
  <2>5. TypeOK'
    BY <1>0, <1>6, <2>2, <2>3, <2>4 DEF TypeOK, JobsTyped, JobTyped, Answer
  <2>6. LateTurnedAway'
    BY <1>0, <1>6, <2>2 DEF TypeOK, LateTurnedAway, Answer
  <2>7. QED
    BY <1>6, <2>5, <2>6, MapUnchanged DEF Inv, Answer
<1>7. ASSUME NEW b \in Browsers, Drop(b) PROVE Inv'
  <2>1. TypeOK' /\ LateTurnedAway'
    BY <1>0, <1>7 DEF TypeOK, LateTurnedAway, Drop
  <2>2. QED
    BY <1>7, <2>1, MapUnchanged DEF Inv, Drop
<1>8. CASE Tick
  <2>1. TypeOK'
    BY <1>0, <1>8, TTLAssumption, NoneAssumption DEF TypeOK, Tick
  <2>2. LeftAgrees'
    BY <1>0, <1>8, TTLAssumption, NoneAssumption DEF TypeOK, LeftAgrees, Good, Tick
  <2>3. NoRevival'
    BY <1>0, <1>8, NoneAssumption DEF TypeOK, NoRevival, Good, Tick
  <2>4. LateTurnedAway'
    BY <1>0, <1>8 DEF LateTurnedAway, Tick
  <2>5. QED
    BY <2>1, <2>2, <2>3, <2>4 DEF Inv
<1>9. CASE Restart
  BY <1>0, <1>9 DEF Inv, TypeOK, LeftAgrees, NoRevival, LateTurnedAway, Good, Restart
<1>10. CASE UNCHANGED vars
  BY <1>0, <1>10 DEF Inv, TypeOK, LeftAgrees, NoRevival, LateTurnedAway, Good, vars
<1>11. QED
  BY <1>1, <1>2, <1>3, <1>4, <1>5, <1>6, <1>7, <1>8, <1>9, <1>10 DEF Next, Serve

-----------------------------------------------------------------------------
(* The theorems.                                                           *)

LEMMA Invariance == Spec => []Inv
<1>1. QED
  BY InitInv, StepInv, PTL DEF Spec

(* Sessions, cookies and requests keep to their values, and a handler past *)
(* a check has a token.                                                    *)
THEOREM SessionsTypeCorrect == Spec => []TypeOK
<1>1. Inv => TypeOK
  BY DEF Inv
<1>2. QED
  BY <1>1, Invariance, PTL

(* However many requests of however many browsers are under way, no        *)
(* session that has ended is honoured again (hasAdminUISession).           *)
THEOREM SessionsEndOnce == Spec => []NoRevival
<1>1. Inv => NoRevival
  BY DEF Inv
<1>2. QED
  BY <1>1, Invariance, PTL

(* A request sent after the end of its session reaches no handler of the   *)
(* console (requireAdminSession, handleReplayCallback).                    *)
THEOREM EndedIsShutOut == Spec => []NoActAfterEnd
<1>1. Inv => NoActAfterEnd
  BY DEF Inv, LateTurnedAway, NoActAfterEnd
<1>2. QED
  BY <1>1, Invariance, PTL

(* Only a look that finds a good session takes a handler past a check.     *)
LEMMA PassedGood ==
  ASSUME Inv, [Next]_vars, NEW c \in Threads,
         job'[c] # None, job'[c].at \in {"act", "again"}, job'[c] # job[c]
  PROVE  job[c].sent \in Tokens /\ Good(job[c].sent)
<1>0. TypeOK
  BY DEF Inv
<1>1. ASSUME NEW x \in Threads, NEW b \in Browsers, NEW k \in Kinds, Send(x, b, k)
      PROVE  FALSE
  BY <1>0, <1>1 DEF Send, TypeOK
<1>2. ASSUME NEW x \in Threads, Gate(x) \/ GateAgain(x)
      PROVE  job[c].sent \in Tokens /\ Good(job[c].sent)
  <2>1. job[x] # None /\ job[x] \in Jobs
    BY <1>0, <1>2 DEF Gate, GateAgain, At, TypeOK
  <2>2. \E yes \in Places, no \in {"answer", "password"} : hasAdminUISession(x, yes, no)
    BY <1>2 DEF Gate, GateAgain, Places
  <2>3. PICK yes \in Places, no \in {"answer", "password"} : hasAdminUISession(x, yes, no)
    BY <2>2
  <2>4. x = c
    BY <1>0, <2>3 DEF hasAdminUISession, Goes, TypeOK
  <2>5. Good(job[c].sent)
    <3>1. SUFFICES ASSUME ~Good(job[c].sent) PROVE FALSE
      OBVIOUS
    <3>2. Goes(c, no)
      BY <2>3, <2>4, <3>1 DEF hasAdminUISession
    <3>3. job'[c].at = no
      BY <1>0, <2>1, <2>4, <3>2 DEF Goes, TypeOK, Jobs
    <3>4. QED
      BY <3>3
  <2>6. QED
    BY <2>1, <2>4, <2>5 DEF Jobs, Good
<1>3. ASSUME NEW x \in Threads, Act(x) \/ LoginFails(x) PROVE FALSE
  BY <1>0, <1>3 DEF Act, LoginFails, Goes, At, TypeOK, Jobs
<1>4. ASSUME NEW x \in Threads, NEW v \in Tokens \cup {None}, job[x] # None, AnswerSets(x, v)
      PROVE  FALSE
  BY <1>0, <1>4, Told
<1>5. ASSUME NEW x \in Threads, NEW t \in Tokens, setAdminUISession(x, t) PROVE FALSE
  BY <1>4, <1>5 DEF setAdminUISession, At
<1>6. ASSUME NEW x \in Threads, clearAdminUISession(x) PROVE FALSE
  BY <1>4, <1>6 DEF clearAdminUISession, At
<1>7. ASSUME NEW x \in Threads, NEW delivered \in BOOLEAN, Answer(x, delivered) PROVE FALSE
  BY <1>0, <1>7 DEF Answer, TypeOK
<1>8. CASE Restart
  BY <1>8 DEF Restart
<1>9. CASE Tick \/ (\E b \in Browsers : Drop(b)) \/ UNCHANGED vars
  BY <1>9 DEF Tick, Drop, vars
<1>10. QED
  BY <1>1, <1>2, <1>3, <1>5, <1>6, <1>7, <1>8, <1>9 DEF Next, Serve

(* A session left alone for longer than its time to live is not honoured   *)
(* (hasAdminUISession).                                                    *)
THEOREM IdleSessionsRefused == Spec => IdleNotHonoured
<1>1. ASSUME Inv, [Next]_vars, NEW c \in Threads,
             (At(c, "act") \/ At(c, "again"))', job'[c] # job[c]
      PROVE  idle[job[c].sent] <= TTL
  <2>1. job[c].sent \in Tokens /\ Good(job[c].sent)
    BY <1>1, PassedGood DEF At
  <2>2. uiSessions[job[c].sent] = TTL - idle[job[c].sent]
    BY <1>1, <2>1 DEF Inv, LeftAgrees
  <2>3. QED
    BY <1>1, <2>1, <2>2, TTLAssumption DEF Inv, TypeOK, Good
<1>2. Inv /\ [Next]_vars =>
        [\A c \in Threads :
           (At(c, "act") \/ At(c, "again"))' /\ job'[c] # job[c] =>
             idle[job[c].sent] <= TTL]_vars
  BY <1>1
<1>3. QED
  BY <1>2, Invariance, PTL DEF Spec, IdleNotHonoured

(* What ends a session is a restart, its own logout or its time            *)
(* (clearAdminUISession, setAdminUISession, hasAdminUISession).            *)
THEOREM SessionsApart == Spec => OthersUndisturbed
<1>1. ASSUME Inv, [Next]_vars, NEW t \in Tokens, Good(t), ~Good(t)'
      PROVE  \/ uiSessions[t] = 0 /\ Tick
             \/ \E c \in Threads :
                  job[c] # None /\ job[c].kind = "logout" /\ job[c].sent = t /\ At(c, "answer")'
             \/ Restart
  <2>0. TypeOK /\ uiSessions[t] \in 0 .. TTL
    BY <1>1, NoneAssumption DEF Inv, TypeOK, Good
  <2>1. UNCHANGED uiSessions => FALSE
    BY <1>1 DEF Good
  <2>2. ASSUME NEW c \in Threads, NEW yes, NEW no, hasAdminUISession(c, yes, no) PROVE FALSE
    BY <1>1, <2>0, <2>2, TTLAssumption, NoneAssumption
       DEF hasAdminUISession, Good, Extended, Deleted, TypeOK
  <2>3. ASSUME NEW c \in Threads, NEW x \in Tokens, setAdminUISession(c, x) PROVE FALSE
    BY <1>1, <2>0, <2>3 DEF setAdminUISession, Good, TypeOK
  <2>4. ASSUME NEW c \in Threads, clearAdminUISession(c)
        PROVE  job[c] # None /\ job[c].kind = "logout" /\ job[c].sent = t /\ At(c, "answer")'
    <3>1. job[c] # None /\ job[c].kind = "logout"
      BY <2>4 DEF clearAdminUISession, At
    <3>2. job[c].sent = t
      BY <1>1, <2>0, <2>4 DEF clearAdminUISession, Deleted, Good, TypeOK
    <3>3. At(c, "answer")'
      BY <2>0, <2>4, <3>1, <3>2, Told DEF clearAdminUISession, At
    <3>4. QED
      BY <3>1, <3>2, <3>3
  <2>5. CASE Tick
    BY <1>1, <2>0, <2>5, NoneAssumption DEF Tick, Good
  <2>6. QED
    BY <1>1, <2>1, <2>2, <2>3, <2>4, <2>5
       DEF Next, Serve, Send, Gate, GateAgain, Act, LoginFails, Answer, Drop, vars
<1>2. Inv /\ [Next]_vars =>
        [\A t \in Tokens :
           Good(t) /\ ~Good(t)' =>
             \/ uiSessions[t] = 0 /\ Tick
             \/ \E c \in Threads :
                  job[c] # None /\ job[c].kind = "logout" /\ job[c].sent = t /\ At(c, "answer")'
             \/ Restart]_vars
  BY <1>1
<1>3. QED
  BY <1>2, Invariance, PTL DEF Spec, OthersUndisturbed

-----------------------------------------------------------------------------
(* The refinement.  A logout ends the session of its cookie or, when that  *)
(* has ended before, changes nothing; so every token that is in a cookie,  *)
(* a request or an answer has to be one whose session was opened.          *)

Drawn(t) == Good(t) \/ t \in spent

Circulates(t) ==
  \/ \E b \in Browsers : cookie[b] = t
  \/ \E c \in Threads : job[c] # None /\ (job[c].sent = t \/ t \in job[c].sets)

Issued == \A t \in Tokens : Circulates(t) => Drawn(t)

(* A session that is open stays open or is recorded as spent. *)
LEMMA DrawnStays ==
  ASSUME Inv, [Next]_vars, NEW t \in Tokens, Drawn(t)
  PROVE  Drawn(t)'
<1>0. TypeOK
  BY DEF Inv
<1>1. spent \subseteq spent'
  BY DEF Next, Serve, Send, Gate, GateAgain, hasAdminUISession, Act, LoginFails,
         setAdminUISession, clearAdminUISession, Answer, Drop, Tick, Restart, vars
<1>2. ASSUME Good(t), ~Good(t)' PROVE t \in spent'
  <2>0. uiSessions[t] \in 0 .. TTL
    BY <1>0, <1>2, NoneAssumption DEF TypeOK, Good
  <2>1. ~UNCHANGED uiSessions
    BY <1>2 DEF Good
  <2>2. ASSUME NEW c \in Threads, NEW yes, NEW no, hasAdminUISession(c, yes, no) PROVE FALSE
    BY <1>0, <1>2, <2>0, <2>2, TTLAssumption, NoneAssumption
       DEF hasAdminUISession, Good, Extended, Deleted, TypeOK
  <2>3. ASSUME NEW c \in Threads, NEW x \in Tokens, setAdminUISession(c, x) PROVE FALSE
    BY <1>0, <1>2, <2>0, <2>3 DEF setAdminUISession, Good, TypeOK
  <2>4. ASSUME NEW c \in Threads, clearAdminUISession(c) PROVE t \in spent'
    <3>1. job[c].sent = t
      BY <1>0, <1>2, <2>0, <2>4 DEF clearAdminUISession, Deleted, Good, TypeOK
    <3>2. QED
      BY <2>4, <3>1, NoneAssumption DEF clearAdminUISession
  <2>5. CASE Tick
    BY <1>0, <1>2, <2>0, <2>5, NoneAssumption DEF Tick, Good, TypeOK
  <2>6. CASE Restart
    BY <1>2, <2>6 DEF Restart
  <2>7. QED
    BY <2>1, <2>2, <2>3, <2>4, <2>5, <2>6
       DEF Next, Serve, Send, Gate, GateAgain, Act, LoginFails, Answer, Drop, vars
<1>3. QED
  BY <1>1, <1>2 DEF Drawn

(* Only a login puts a new token into circulation. *)
LEMMA CirculationStep ==
  ASSUME Inv, [Next]_vars, NEW t \in Tokens, Circulates(t)'
  PROVE  Circulates(t) \/ Good(t)'
<1>0. TypeOK /\ t # None
  BY NoneAssumption DEF Inv
<1>1. ASSUME NEW c \in Threads, NEW place, job[c] # None, Goes(c, place), cookie' = cookie
      PROVE  Circulates(t)
  <2>1. job[c] \in Jobs
    BY <1>0, <1>1 DEF TypeOK
  <2>2. /\ \A x \in Threads \ {c} : job'[x] = job[x]
        /\ job'[c].sent = job[c].sent /\ job'[c].sets = job[c].sets
    BY <1>0, <1>1, <2>1 DEF Goes, TypeOK, Jobs
  <2>3. QED
    BY <1>1, <2>2 DEF Circulates
<1>2. ASSUME NEW c \in Threads, NEW v \in Tokens \cup {None}, job[c] # None,
             AnswerSets(c, v), cookie' = cookie, v # t
      PROVE  Circulates(t)
  <2>1. job[c] \in Jobs
    BY <1>0, <1>2 DEF TypeOK
  <2>2. /\ \A x \in Threads \ {c} : job'[x] = job[x]
        /\ job'[c].sent = job[c].sent /\ job'[c].sets = {v}
    BY <1>0, <1>2, <2>1 DEF AnswerSets, TypeOK, Jobs
  <2>3. QED
    BY <1>2, <2>2 DEF Circulates
<1>3. ASSUME NEW c \in Threads, NEW b \in Browsers, NEW k \in Kinds, Send(c, b, k)
      PROVE  Circulates(t)
  <2>1. /\ \A x \in Threads \ {c} : job'[x] = job[x]
        /\ job'[c].sent = cookie[b] /\ job'[c].sets = {}
        /\ cookie' = cookie
    BY <1>0, <1>3 DEF Send, TypeOK
  <2>2. QED
    BY <2>1 DEF Circulates
<1>4. ASSUME NEW c \in Threads, Gate(c) \/ GateAgain(c) PROVE Circulates(t)
  <2>1. PICK yes, no : hasAdminUISession(c, yes, no)
    BY <1>4 DEF Gate, GateAgain
  <2>2. job[c] # None
    BY <1>4 DEF Gate, GateAgain, At
  <2>3. QED
    BY <1>1, <2>1, <2>2 DEF hasAdminUISession
<1>5. ASSUME NEW c \in Threads, Act(c) \/ LoginFails(c) PROVE Circulates(t)
  BY <1>1, <1>5 DEF Act, LoginFails, At
<1>6. ASSUME NEW c \in Threads, NEW x \in Tokens, setAdminUISession(c, x)
      PROVE  Circulates(t) \/ Good(t)'
  <2>1. CASE x = t
    BY <1>0, <1>6, <2>1, TTLAssumption, NoneAssumption DEF setAdminUISession, Good, TypeOK
  <2>2. CASE x # t
    BY <1>2, <1>6, <2>2 DEF setAdminUISession, At
  <2>3. QED
    BY <2>1, <2>2
<1>7. ASSUME NEW c \in Threads, clearAdminUISession(c) PROVE Circulates(t)
  BY <1>0, <1>2, <1>7 DEF clearAdminUISession, At
<1>8. ASSUME NEW c \in Threads, NEW delivered \in BOOLEAN, Answer(c, delivered)
      PROVE  Circulates(t)
  <2>1. job[c] # None /\ job' = [job EXCEPT ![c] = None]
    BY <1>8 DEF Answer, At
  <2>2. cookie' = cookie \/ \E v \in job[c].sets : cookie' = [cookie EXCEPT ![job[c].from] = v]
    BY <1>8 DEF Answer
  <2>3. \A b \in Browsers : cookie'[b] = cookie[b] \/ cookie'[b] \in job[c].sets
    BY <1>0, <2>2 DEF TypeOK
  <2>4. \A x \in Threads : job'[x] # None => job'[x] = job[x]
    BY <1>0, <2>1 DEF TypeOK
  <2>5. QED
    BY <2>1, <2>3, <2>4 DEF Circulates
<1>9. CASE (\E b \in Browsers : Drop(b)) \/ Tick \/ Restart \/ UNCHANGED vars
  <2>1. \A b \in Browsers : cookie'[b] = cookie[b] \/ cookie'[b] = None
    BY <1>0, <1>9 DEF TypeOK, Drop, Tick, Restart, vars
  <2>2. \A x \in Threads : job'[x] # None => job'[x] = job[x]
    BY <1>0, <1>9 DEF TypeOK, Drop, Tick, Restart, vars
  <2>3. QED
    BY <1>0, <2>1, <2>2 DEF Circulates
<1>10. QED
  BY <1>3, <1>4, <1>5, <1>6, <1>7, <1>8, <1>9 DEF Next, Serve

LEMMA IssuedInvariant == Spec => [](Inv /\ Issued)
<1>1. Init => Issued
  BY NoneAssumption DEF Init, Issued, Circulates
<1>2. Inv /\ Issued /\ [Next]_vars => Issued'
  <2> SUFFICES ASSUME Inv, Issued, [Next]_vars, NEW t \in Tokens, Circulates(t)'
               PROVE  Drawn(t)'
    BY DEF Issued
  <2>1. CASE Good(t)'
    BY <2>1 DEF Drawn
  <2>2. CASE Circulates(t)
    BY <2>2, DrawnStays DEF Issued
  <2>3. QED
    BY <2>1, <2>2, CirculationStep
<1>3. QED
  BY <1>1, <1>2, Invariance, PTL DEF Spec

(* Each step of the console is one of the ideal sessions, or none at all.  *)
LEMMA LifecycleStep ==
  ASSUME Inv, Issued, [Next]_vars
  PROVE  [Lifecycle!Next]_(Lifecycle!vars)
<1> DEFINE left == [t \in Tokens |-> LeftOf(t)]
<1>0. TypeOK
  BY DEF Inv
<1>1. \A t \in Tokens : Good(t) <=> LeftOf(t) # None
  BY <1>0, NoneAssumption DEF Good, LeftOf, TypeOK
<1>2. ASSUME UNCHANGED <<uiSessions, spent>> PROVE UNCHANGED Lifecycle!vars
  BY <1>2 DEF Lifecycle!vars, LeftOf
<1>3. ASSUME NEW t \in Tokens, uiSessions' = [uiSessions EXCEPT ![t] = TTL]
      PROVE  left' = [left EXCEPT ![t] = TTL]
  <2>1. \A x \in Tokens : LeftOf(x)' = IF x = t THEN TTL ELSE LeftOf(x)
    BY <1>0, <1>3, TTLAssumption, NoneAssumption DEF LeftOf, TypeOK
  <2>2. QED
    BY <2>1
<1>4. ASSUME NEW t, uiSessions' = Deleted(t)
      PROVE  left' = [x \in Tokens |-> IF x = t THEN None ELSE left[x]]
  <2>1. \A x \in Tokens : LeftOf(x)' = IF x = t THEN None ELSE LeftOf(x)
    BY <1>0, <1>4 DEF LeftOf, Deleted, TypeOK
  <2>2. QED
    BY <2>1
<1>5. ASSUME NEW c \in Threads, Gate(c) \/ GateAgain(c)
      PROVE  [Lifecycle!Next]_(Lifecycle!vars)
  <2>1. PICK yes, no : hasAdminUISession(c, yes, no)
    BY <1>5 DEF Gate, GateAgain
  <2> DEFINE t == job[c].sent
  <2>2. t \in Tokens \cup {None}
    BY <1>0, <1>5 DEF Gate, GateAgain, At, TypeOK, Jobs
  <2> HIDE DEF t
  <2>3. CASE Good(t)
    <3>1. t \in Tokens /\ left[t] # None
      BY <1>1, <2>2, <2>3 DEF Good
    <3>2. left' = [left EXCEPT ![t] = TTL] /\ spent' = spent
      BY <1>3, <2>1, <2>3, <3>1 DEF hasAdminUISession, Extended, t
    <3>3. QED
      BY <3>1, <3>2 DEF Lifecycle!Next, Lifecycle!Use
  <2>4. CASE ~Good(t)
    <3>1. uiSessions' = Deleted(t) /\ spent' = spent
      BY <2>1, <2>4 DEF hasAdminUISession, t
    <3>2. \A x \in Tokens : x = t => left[x] = None
      BY <1>1, <2>4
    <3>3. left' = left
      BY <1>4, <3>1, <3>2
    <3>4. QED
      BY <3>1, <3>3 DEF Lifecycle!vars
  <2>5. QED
    BY <2>3, <2>4
<1>6. ASSUME NEW c \in Threads, NEW t \in Tokens, setAdminUISession(c, t)
      PROVE  Lifecycle!Next
  <2>1. left[t] = None /\ t \notin spent /\ spent' = spent
    BY <1>6 DEF setAdminUISession, LeftOf
  <2>2. left' = [left EXCEPT ![t] = TTL]
    BY <1>3, <1>6 DEF setAdminUISession
  <2>3. QED
    BY <2>1, <2>2 DEF Lifecycle!Next, Lifecycle!Open
<1>7. ASSUME NEW c \in Threads, clearAdminUISession(c)
      PROVE  [Lifecycle!Next]_(Lifecycle!vars)
  <2> DEFINE t == job[c].sent
  <2>1. t \in Tokens \cup {None} /\ (t \in Tokens => Drawn(t))
    BY <1>0, <1>7 DEF clearAdminUISession, At, TypeOK, Jobs, Issued, Circulates
  <2>2. uiSessions' = Deleted(t) /\ spent' = spent \cup ({t} \ {None})
    BY <1>7 DEF clearAdminUISession
  <2> HIDE DEF t
  <2>3. left' = [x \in Tokens |-> IF x = t THEN None ELSE left[x]]
    BY <1>4, <2>2
  <2>4. CASE Good(t)
    <3>1. t \in Tokens /\ left[t] # None /\ spent' = spent \cup {t}
      BY <1>1, <2>1, <2>2, <2>4 DEF Good
    <3>2. left' = [left EXCEPT ![t] = None]
      BY <2>3
    <3>3. QED
      BY <3>1, <3>2 DEF Lifecycle!Next, Lifecycle!Close
  <2>5. CASE ~Good(t)
    <3>1. \A x \in Tokens : x = t => left[x] = None
      BY <1>1, <2>5
    <3>2. left' = left
      BY <2>3, <3>1
    <3>3. spent' = spent
      BY <2>1, <2>2, <2>5 DEF Drawn
    <3>4. QED
      BY <3>2, <3>3 DEF Lifecycle!vars
  <2>6. QED
    BY <2>4, <2>5
<1>8. CASE Tick
  <2>1. \A t \in Tokens :
          LeftOf(t)' = IF LeftOf(t) = None \/ LeftOf(t) = 0 THEN None ELSE LeftOf(t) - 1
    BY <1>0, <1>8, TTLAssumption, NoneAssumption DEF Tick, LeftOf, TypeOK
  <2>2. \A t \in Tokens : uiSessions[t] = 0 <=> LeftOf(t) = 0
    BY <1>0, NoneAssumption DEF LeftOf, TypeOK
  <2>3. left' = [t \in Tokens |->
          IF left[t] = None \/ left[t] = 0 THEN None ELSE left[t] - 1]
    BY <2>1
  <2>4. spent' = spent \cup {t \in Tokens : left[t] = 0}
    BY <1>8, <2>2 DEF Tick
  <2>5. QED
    BY <2>3, <2>4 DEF Lifecycle!Next, Lifecycle!Pass
<1>9. CASE Restart
  <2>1. left' = [t \in Tokens |-> None]
    BY <1>9 DEF Restart, LeftOf
  <2>2. spent' = spent \cup {t \in Tokens : left[t] # None}
    BY <1>1, <1>9 DEF Restart
  <2>3. QED
    BY <2>1, <2>2 DEF Lifecycle!Next, Lifecycle!LoseAll
<1>10. QED
  BY <1>2, <1>5, <1>6, <1>7, <1>8, <1>9
     DEF Next, Serve, Send, Act, LoginFails, Answer, Drop, vars

(* The console, with its lazy expiry and its overlapping requests,         *)
(* implements sessions that open once, last as long as they are used and   *)
(* end once (hasAdminUISession, setAdminUISession, clearAdminUISession).   *)
THEOREM SessionsImplement == Spec => ImplementsLifecycle
<1>1. Init => Lifecycle!Init
  BY DEF Init, Lifecycle!Init, LeftOf
<1>2. Inv /\ Issued /\ [Next]_vars => [Lifecycle!Next]_(Lifecycle!vars)
  BY LifecycleStep
<1>3. QED
  BY <1>1, <1>2, IssuedInvariant, PTL DEF Spec, ImplementsLifecycle, Lifecycle!Spec
=============================================================================
