-------------------------- MODULE SessionLifecycle --------------------------
(***************************************************************************)
(* What host-rutebayar promises about a session of its admin console,      *)
(* whatever requests are under way with it: it is opened once, every use   *)
(* gives it its full time again, and it ends at one moment, by a logout of *)
(* its own, when its time is over, or when the process is lost.  An ended  *)
(* session stays ended.                                                    *)
(*                                                                         *)
(* Sessions implements this specification (see Lifecycle there), although  *)
(* its map keeps a session that has expired until somebody asks for it.    *)
(***************************************************************************)
EXTENDS Integers

CONSTANTS
  Tokens,     \* names of sessions
  TTL,        \* time a session lasts after its last use
  None        \* not open

VARIABLES
  left,       \* left[t]: the time session t has left, or None
  closed      \* sessions that were open once and are not any more

vars == <<left, closed>>

Init ==
  /\ left = [t \in Tokens |-> None]
  /\ closed = {}

Open(t) ==
  /\ left[t] = None
  /\ t \notin closed
  /\ left' = [left EXCEPT ![t] = TTL]
  /\ UNCHANGED closed

Use(t) ==
  /\ left[t] # None
  /\ left' = [left EXCEPT ![t] = TTL]
  /\ UNCHANGED closed

Close(t) ==
  /\ left[t] # None
  /\ left' = [left EXCEPT ![t] = None]
  /\ closed' = closed \cup {t}

(* The moment after its last one, a session has ended. *)
Pass ==
  /\ left' = [t \in Tokens |->
       IF left[t] = None \/ left[t] = 0 THEN None ELSE left[t] - 1]
  /\ closed' = closed \cup {t \in Tokens : left[t] = 0}

LoseAll ==
  /\ left' = [t \in Tokens |-> None]
  /\ closed' = closed \cup {t \in Tokens : left[t] # None}

Next ==
  \/ \E t \in Tokens : Open(t) \/ Use(t) \/ Close(t)
  \/ Pass
  \/ LoseAll

Spec == Init /\ [][Next]_vars
=============================================================================
