--------------------------- MODULE MCShopPlugins ---------------------------
(***************************************************************************)
(* The shop's two plugins for TLC: HandoffRedemption                       *)
(* (CommerceAgentsHandoff) and StagedChanges (SwagCommerceAgentTools).     *)
(* They share no state, so each is run while the other stays where it      *)
(* began.                                                                  *)
(***************************************************************************)
EXTENDS HandoffRedemption, StagedChanges, TLC

CONSTANTS p1, p2, t1, t2

MCOffsets == {-1, 0, 1, 2}
MCProducts == {p1, p2}
MCCurrencies == {"eur", "chf"}
MCCalls == {t1, t2}

Item(p, f, v) == [product |-> p, field |-> f, value |-> v]

\* A restock of two products of which one is paused too, and a new price with a second one
\* for the same currency.
MCDrafts ==
  {[kind |-> "inventory_action",
    items |-> <<Item(p1, "stock", 2), Item(p1, "active", 0), Item(p2, "stock", 1)>>],
   [kind |-> "price_update", items |-> <<Item(p1, "eur", 5), Item(p1, "eur", 6)>>]}

PluginsInit == Init /\ LedgerInit

PluginsNext ==
  \/ LedgerInit /\ Next /\ UNCHANGED stagedVars
  \/ Init /\ offset = 0 /\ LedgerNext /\ UNCHANGED vars

PluginsSpec == PluginsInit /\ [][PluginsNext]_<<vars, stagedVars>>

Symmetry == Permutations(Browsers) \cup Permutations(Workers) \cup Permutations(MCCalls)
=============================================================================
