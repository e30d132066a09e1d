---------------------------- MODULE MCDelivery ----------------------------
(* Delivery on a small instance: one order of one host, and secrets of     *)
(* which any may be the host's.                                            *)
EXTENDS Delivery, TLC

CONSTANTS r1, p1, k1, h1

TheHost == [r \in Refs |-> h1]

(* Arriving too early, in time, and just in time. *)
SomeAges == {-2, 0, 1}

OneTyped == {[ref |-> r1, provider |-> p1, status |-> "failed", key |-> k1]}
NoneTyped == {}
DeliverySymmetry == Permutations(Workers) \cup Permutations(Secrets)
=============================================================================
