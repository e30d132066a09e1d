--------------------------- MODULE OrderLifecycle ---------------------------
(***************************************************************************)
(* What host-rutebayar promises about one payment order, whatever happens  *)
(* to the process that keeps it: an order appears once, with its provider  *)
(* and its settlement amounts; its status moves at most once afterwards,   *)
(* to a terminal status; and the settlement line an auditor reads for it   *)
(* is, from the first moment, the one computed when it was created.        *)
(*                                                                         *)
(* Payments implements this specification (see Lifecycle there).           *)
(***************************************************************************)
CONSTANTS
  Refs,       \* payment references
  Providers,  \* payment providers
  Quotes,     \* settlement amounts together with the policy they come from
  Terminal,   \* statuses no order ever leaves
  Statuses,   \* every status an order may have
  None        \* no order, no settlement line

VARIABLES
  order,      \* order[r]: the recorded order, or None
  line        \* line[r]: the settlement line read back for r, or None

vars == <<order, line>>

Orders == [provider : Providers, quote : Quotes, status : Statuses]

Init ==
  /\ order = [r \in Refs |-> None]
  /\ line = [r \in Refs |-> None]

(* An order and its settlement line are recorded together. *)
Record(r) ==
  /\ order[r] = None
  /\ \E o \in Orders :
       /\ order' = [order EXCEPT ![r] = o]
       /\ line' = [line EXCEPT ![r] = o.quote]

(* An open order takes its final status; nothing else about it changes. *)
Finish(r) ==
  /\ order[r] # None
  /\ order[r].status \notin Terminal
  /\ \E s \in Terminal : order' = [order EXCEPT ![r].status = s]
  /\ UNCHANGED line

Next == \E r \in Refs : Record(r) \/ Finish(r)

Spec == Init /\ [][Next]_vars
=============================================================================
