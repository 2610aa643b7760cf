--------------------------- MODULE MCPortalSession ---------------------------
(* PortalSession on small instances. *)
EXTENDS PortalSession, TLC

Symmetry == Permutations(Chats) \cup Permutations(Buttons)
=============================================================================
