--------------------------- MODULE MCMerchantHost ---------------------------
(***************************************************************************)
(* The merchant side outside the portal's sessions for TLC: the writer and *)
(* the readings of the host (WritePlans, MerchantDashboard), AdminAccess   *)
(* over its store, the console on the Agent SDK (ConsoleApproval) and the  *)
(* hosted tool servers (HostedTools).  They share no state, so each is run *)
(* by itself while the others stay where they began.                       *)
(***************************************************************************)
EXTENDS WritePlans, MerchantDashboard, AdminAccess, ConsoleApproval, HostedTools, TLC

CONSTANTS f, v1, v2, s

-----------------------------------------------------------------------------
(* WritePlans: a family of two variants and a product that stands alone.   *)

MCVariants == {v1, v2}

Wish(l, field, value) == [listing |-> l, field |-> field, value |-> value]

MCRequests ==
  {[kind |-> "price_update", ask |-> <<Wish(f, "price", 12), Wish(s, "price", 9)>>],
   [kind |-> "price_update", ask |-> <<Wish(v2, "price", 12)>>],
   [kind |-> "price_update", ask |-> <<Wish(s, "price", 13)>>],
   [kind |-> "inventory_action",
    ask |-> <<Wish(v1, "stock", 2), Wish(f, "active", FALSE), Wish(s, "stock", 1)>>],
   [kind |-> "listing_update", ask |-> <<Wish(f, "name", 1)>>],
   [kind |-> "promotion", ask |-> <<"promotion">>],
   [kind |-> "promotion", ask |-> <<"rule", "promotion", "second promotion">>]}

-----------------------------------------------------------------------------
(* MerchantDashboard: three orders of two products. *)

MCAmount == <<1, 2, 4>>
MCProductOf == <<"mug", "cap", "mug">>
MCStock == [mug |-> 5, cap |-> 0]
MCSegments == {{"mug"}, {}}
MCDays == {30, 35}
MCMonthStarts == {0, 31, 59}
MCWindows == {3, 7}

-----------------------------------------------------------------------------
(* AdminAccess: three products, one to a page; a change of one product, a  *)
(* product that is new, and any two of a promotion with its rule nested, a *)
(* promotion that refers to that rule, and the rule.                       *)

MCShelf == <<"p1", "p2", "p3">>

Changed(p, whole) ==
  [entity |-> "product", many |-> FALSE,
   rows |-> {[id |-> p, set |-> 1, whole |-> whole, sane |-> TRUE]}]
Promo(id, body) ==
  [entity |-> "promotion", id |-> id, channel |-> "web", discounts |-> 1, rule |-> "r1",
   body |-> body, many |-> FALSE]
Rule == [entity |-> "rule", id |-> "r1", rule |-> "r1", conditions |-> 1, many |-> FALSE]

MCPlans ==
  {{Changed("p2", FALSE)}, {Changed("p3", TRUE)}}
    \cup {{Promo("m1", TRUE), Promo("m2", FALSE)}, {Promo("m1", TRUE), Rule},
          {Promo("m2", FALSE), Rule}}

\* HostedTools: the menus of two sales channels.
MCMenus == <<<<"legal", "terms", "empty">>, <<"terms", "contact">>>>

-----------------------------------------------------------------------------
VARIABLE part   \* which of them runs

Parts == {"plans", "dashboard", "access", "console", "hosted"}

\* AdminAccess begins in any of its initial states when it runs, and in one of them otherwise.
MerchantInit ==
  /\ part \in Parts
  /\ Init /\ ConsoleInit /\ HostedInit /\ WritePlansInit /\ DashboardInit
  /\ part # "access" => transport = "mcp" /\ DOMAIN job = CHOOSE plan \in Plans : TRUE

MerchantNext ==
  /\ UNCHANGED part
  /\ \/ /\ part = "plans" /\ WritePlansNext
        /\ UNCHANGED <<vars, consoleVars, hostedVars, dashboardVars>>
     \/ /\ part = "dashboard" /\ DashboardNext
        /\ UNCHANGED <<vars, consoleVars, hostedVars, writeVars>>
     \/ /\ part = "access" /\ Next
        /\ UNCHANGED <<consoleVars, hostedVars, writeVars, dashboardVars>>
     \/ /\ part = "console" /\ ConsoleNext
        /\ UNCHANGED <<vars, hostedVars, writeVars, dashboardVars>>
     \/ /\ part = "hosted" /\ HostedNext
        /\ UNCHANGED <<vars, consoleVars, writeVars, dashboardVars>>

MerchantSpec ==
  MerchantInit
    /\ [][MerchantNext]_<<part, vars, consoleVars, hostedVars, writeVars, dashboardVars>>
=============================================================================
