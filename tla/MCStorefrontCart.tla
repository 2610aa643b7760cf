-------------------------- MODULE MCStorefrontCart --------------------------
(* StorefrontCart on small instances. *)
EXTENDS StorefrontCart, TLC

Symmetry == Permutations(Requests)
=============================================================================
