------------------------------ MODULE Sessions ------------------------------
(***************************************************************************)
(* The sessions of the admin console: uiSessions, the cookies that name    *)
(* them, and the handlers that check, extend, open and close them          *)
(* (requireAdminSession, handleUILogin, handleUILogout).                   *)
(*                                                                         *)
(* Granularity.  Each look at uiSessions, with the clock it compares to,   *)
(* is one critical section of uiSessionMu and one step.  Between the check *)
(* and the act of a handler, and between its answer and the browser, any   *)
(* other request may come.                                                 *)
(*                                                                         *)
(* Time.  A session is kept as the time it has left, in steps of which TTL *)
(* make twelve hours.  At -1 it has expired but, as in the code, stays in  *)
(* the map until somebody asks for it.                                     *)
(***************************************************************************)
EXTENDS Integers

CONSTANTS
  Tokens,    \* what generateUISessionToken may draw
  Browsers,
  Threads,   \* goroutines that serve a console request
  TTL,       \* uiSessionTTL
  None       \* not in the map, no cookie, no request

ASSUME TTLAssumption == TTL \in Nat \ {0}
ASSUME NoneAssumption == None \notin Tokens /\ None \notin Int

(* A page or a form of the console; /ui/callbacks/replay, which checks the *)
(* session a second time; /ui/login; /ui/logout.                           *)
Kinds == {"page", "replay", "login", "logout"}

Places == {"arrived", "again", "act", "password", "answer"}

(* The request a goroutine serves: what for, from which browser, with      *)
(* which cookie, where it is, and what its answer sets the cookie to ({}   *)
(* for no Set-Cookie).                                                     *)
Jobs == [kind : Kinds, from : Browsers, sent : Tokens \cup {None},
         at : Places, sets : SUBSET (Tokens \cup {None})]

ASSUME NoJobAssumption == None \notin Jobs

VARIABLES
  uiSessions,  \* time left by token, None for no entry
  cookie,      \* host-rutebayar-admin-session in each browser
  job,         \* what each goroutine serves, None for nothing
  \* history
  idle,        \* time since a token was drawn or last honoured
  spent,       \* tokens that were good once and are not any more
  late         \* goroutines whose request was sent with no or a spent token

vars == <<uiSessions, cookie, job, idle, spent, late>>

(* Each variable keeps to its values; only an answer sets a cookie, and a  *)
(* handler past a check has a token.                                       *)
TypeOK ==
  /\ uiSessions \in [Tokens -> (-1 .. TTL) \cup {None}]
  /\ cookie \in [Browsers -> Tokens \cup {None}]
  /\ job \in [Threads -> Jobs \cup {None}]
  /\ idle \in [Tokens -> 0 .. TTL + 1]
  /\ spent \subseteq Tokens
  /\ late \subseteq Threads
  /\ \A c \in Threads : job[c] # None =>
       /\ job[c].sets # {} => job[c].at = "answer"
       /\ job[c].at \in {"again", "act"} => job[c].sent \in Tokens

Init ==
  /\ uiSessions = [t \in Tokens |-> None]
  /\ cookie = [b \in Browsers |-> None]
  /\ job = [c \in Threads |-> None]
  /\ idle = [t \in Tokens |-> TTL + 1]
  /\ spent = {}
  /\ late = {}

-----------------------------------------------------------------------------
(* Faulty variants for the mutants: an expiry that is not looked at, one   *)
(* that is added to, a logout that only tells the browser, one that closes *)
(* every session, and an expired session that is kept alive.               *)

GoodWhilePresent(t) == t # None /\ uiSessions[t] # None
ExtendedFromOld(t) == [uiSessions EXCEPT ![t] = @ + TTL]
DeletedFromBrowserOnly(t) == uiSessions
DeletedAll(t) == [x \in Tokens |-> None]
ExtendedInstead(t) == [x \in Tokens |-> IF x = t THEN TTL ELSE uiSessions[x]]

-----------------------------------------------------------------------------
(* The map.                                                                *)

(* A session has expired only AFTER its last moment.                       *)
Good(t) == t # None /\ uiSessions[t] # None /\ uiSessions[t] >= 0

Extended(t) == [uiSessions EXCEPT ![t] = TTL]
Deleted(t) == [x \in Tokens |-> IF x = t THEN None ELSE uiSessions[x]]

At(c, place) == job[c] # None /\ job[c].at = place

Goes(c, place) == job' = [job EXCEPT ![c] = [@ EXCEPT !.at = place]]

(* The request of c has a good session, which then lasts for TTL again, or *)
(* has none, and one that has expired is removed.                          *)
hasAdminUISession(c, yes, no) ==
  LET t == job[c].sent IN
  /\ IF Good(t)
       THEN /\ uiSessions' = Extended(t)
            /\ idle' = [idle EXCEPT ![t] = 0]
            /\ Goes(c, yes)
       ELSE /\ uiSessions' = Deleted(t)
            /\ UNCHANGED idle
            /\ Goes(c, no)
  /\ UNCHANGED <<cookie, spent, late>>

-----------------------------------------------------------------------------
(* The handlers.                                                           *)

Send(c, b, k) ==
  /\ job[c] = None
  /\ job' = [job EXCEPT ![c] =
       [kind |-> k, from |-> b, sent |-> cookie[b], at |-> "arrived", sets |-> {}]]
  /\ late' = IF cookie[b] = None \/ cookie[b] \in spent THEN late \cup {c} ELSE late
  /\ UNCHANGED <<uiSessions, cookie, idle, spent>>

(* Turned away, a page answers with a redirect or 401 and the login goes   *)
(* on; let in, the login only redirects.                                   *)
Gate(c) ==
  /\ At(c, "arrived")
  /\ \/ job[c].kind = "page" /\ hasAdminUISession(c, "act", "answer")
     \/ job[c].kind = "replay" /\ hasAdminUISession(c, "again", "answer")
     \/ job[c].kind = "login" /\ hasAdminUISession(c, "answer", "password")

GateAgain(c) == At(c, "again") /\ hasAdminUISession(c, "act", "answer")

(* What the handler behind the gate does; it looks at no session. *)
Act(c) ==
  /\ At(c, "act")
  /\ Goes(c, "answer")
  /\ UNCHANGED <<uiSessions, cookie, idle, spent, late>>

AnswerSets(c, v) == job' = [job EXCEPT ![c] = [@ EXCEPT !.at = "answer", !.sets = {v}]]

(* The login form, a wrong password, or no randomness for a token. *)
LoginFails(c) ==
  /\ At(c, "password")
  /\ Goes(c, "answer")
  /\ UNCHANGED <<uiSessions, cookie, idle, spent, late>>

(* The right password draws a token that was never drawn before. *)
setAdminUISession(c, t) ==
  /\ At(c, "password")
  /\ uiSessions[t] = None /\ t \notin spent
  /\ uiSessions' = [uiSessions EXCEPT ![t] = TTL]
  /\ idle' = [idle EXCEPT ![t] = 0]
  /\ AnswerSets(c, t)
  /\ UNCHANGED <<cookie, spent, late>>

(* The session of the cookie is closed, if there is one, and the cookie is *)
(* cleared in any case.                                                    *)
clearAdminUISession(c) ==
  /\ At(c, "arrived") /\ job[c].kind = "logout"
  /\ uiSessions' = Deleted(job[c].sent)
  /\ spent' = spent \cup ({job[c].sent} \ {None})
  /\ AnswerSets(c, None)
  /\ UNCHANGED <<cookie, idle, late>>

-----------------------------------------------------------------------------
(* Around the handlers.                                                    *)

(* The answer reaches the browser, in any order with others, or is lost. *)
Answer(c, delivered) ==
  /\ At(c, "answer")
  /\ \/ /\ ~delivered \/ job[c].sets = {}
        /\ UNCHANGED cookie
     \/ /\ delivered
        /\ \E v \in job[c].sets : cookie' = [cookie EXCEPT ![job[c].from] = v]
  /\ job' = [job EXCEPT ![c] = None]
  /\ late' = late \ {c}
  /\ UNCHANGED <<uiSessions, idle, spent>>

(* A browser may drop a cookie whenever it likes; after MaxAge it must. *)
Drop(b) ==
  /\ cookie' = [cookie EXCEPT ![b] = None]
  /\ UNCHANGED <<uiSessions, job, idle, spent, late>>

Tick ==
  /\ uiSessions' = [t \in Tokens |->
       IF uiSessions[t] = None \/ uiSessions[t] = -1 THEN uiSessions[t]
                                                     ELSE uiSessions[t] - 1]
  /\ idle' = [t \in Tokens |-> IF idle[t] <= TTL THEN idle[t] + 1 ELSE idle[t]]
  /\ spent' = spent \cup {t \in Tokens : uiSessions[t] = 0}
  /\ UNCHANGED <<cookie, job, late>>

(* uiSessions lives in the memory of the process, a cookie in its browser. *)
Restart ==
  /\ uiSessions' = [t \in Tokens |-> None]
  /\ job' = [c \in Threads |-> None]
  /\ spent' = spent \cup {t \in Tokens : Good(t)}
  /\ late' = {}
  /\ UNCHANGED <<cookie, idle>>

Serve(c) ==
  \/ \E b \in Browsers, k \in Kinds : Send(c, b, k)
  \/ Gate(c)
  \/ GateAgain(c)
  \/ Act(c)
  \/ LoginFails(c)
  \/ \E t \in Tokens : setAdminUISession(c, t)
  \/ clearAdminUISession(c)
  \/ \E delivered \in BOOLEAN : Answer(c, delivered)

Next ==
  \/ \E c \in Threads : Serve(c)
  \/ \E b \in Browsers : Drop(b)
  \/ Tick
  \/ Restart

Spec == Init /\ [][Next]_vars

-----------------------------------------------------------------------------
(* Safety.                                                                 *)

(* A session that has ended, by logout, by time or by a restart, does not  *)
(* come back, although every request that is under way with its token      *)
(* would extend it (hasAdminUISession, clearAdminUISession).               *)
NoRevival == \A t \in spent : ~Good(t)

(* A request sent after its session had ended, with a cookie the browser   *)
(* kept because an answer was lost, overtaken or still under way, gets to  *)
(* no handler of the console (requireAdminSession, handleReplayCallback).  *)
NoActAfterEnd ==
  \A c \in late : job[c] # None => job[c].at \notin {"again", "act"}

(* A session left alone for longer than uiSessionTTL is not honoured, even *)
(* when its entry is still in the map (hasAdminUISession).                 *)
IdleNotHonoured ==
  [][\A c \in Threads :
       (At(c, "act") \/ At(c, "again"))' /\ job'[c] # job[c] =>
         idle[job[c].sent] <= TTL]_vars

(* Nobody's session ends before its time but by a restart or by a logout   *)
(* with its own cookie: not by another's logout, expiry or login           *)
(* (clearAdminUISession, setAdminUISession).                               *)
OthersUndisturbed ==
  [][\A t \in Tokens :
       Good(t) /\ ~Good(t)' =>
         \/ uiSessions[t] = 0 /\ Tick
         \/ \E c \in Threads :
              job[c] # None /\ job[c].kind = "logout" /\ job[c].sent = t /\ At(c, "answer")'
         \/ Restart]_vars

-----------------------------------------------------------------------------
(* Refinement: a session of which time is left is open, whatever else the  *)
(* map still holds.                                                        *)

LeftOf(t) ==
  IF uiSessions[t] # None /\ uiSessions[t] >= 0 THEN uiSessions[t] ELSE None

Lifecycle ==
  INSTANCE SessionLifecycle WITH left <- [t \in Tokens |-> LeftOf(t)], closed <- spent

(* Removing expired sessions late, when somebody asks, and checking,       *)
(* extending and closing a session in requests that overtake each other,   *)
(* the console still gives each token one opening, one unbroken life of    *)
(* exact length and one end (hasAdminUISession, setAdminUISession,         *)
(* clearAdminUISession).                                                   *)
ImplementsLifecycle == Lifecycle!Spec
=============================================================================
