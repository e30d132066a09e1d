----------------------------- MODULE MCPayments -----------------------------
(* Payments on a small instance: the constants are model values given by   *)
(* the .cfg files, with the symmetry of the sets nothing distinguishes.    *)
(* In PaymentsLedger the keys are the references, and permuted with them.  *)
EXTENDS Payments, TLC

Symmetry ==
  Permutations(Refs) \cup Permutations(Keys \ Refs) \cup Permutations(Providers)
    \cup Permutations(Workers) \cup Permutations(Quotes)
=============================================================================
