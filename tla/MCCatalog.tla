------------------------------ MODULE MCCatalog ------------------------------
(* Catalog on a small instance, whose constants the .cfg files give as     *)
(* model values.  The demo host and product are told from the others, so   *)
(* only the secrets are interchangeable.                                   *)
EXTENDS Catalog, TLC

Symmetry == Permutations(Clients) \cup Permutations(Secrets)
=============================================================================
