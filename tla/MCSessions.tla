---------------------------- MODULE MCSessions ----------------------------
(* Sessions on a small instance, where tokens, browsers and goroutines are *)
(* interchangeable.                                                        *)
EXTENDS Sessions, TLC

SessionsSymmetry ==
  Permutations(Tokens) \cup Permutations(Browsers) \cup Permutations(Threads)
=============================================================================
