-------------------------- MODULE MCStorefrontHost --------------------------
(***************************************************************************)
(* The storefront host for TLC: StorefrontCatalog, IdentityLinking and     *)
(* UcpWire.  They share no state, so each is run from its initial states   *)
(* while the others stay where they began.                                 *)
(***************************************************************************)
EXTENDS IdentityLinking, UcpWire, StorefrontCatalog, TLC

CONSTANTS f, a, b, p, t1, t2, s1, s2

MCChildren == (f :> {a, b}) @@ (p :> {})
MCSessionOf == (t1 :> s1) @@ (t2 :> s2)
MCAttached == (s1 :> {a}) @@ (s2 :> {})

NoFields(op) ==
  [op |-> op, id |-> "x", under |-> {}, beside |-> {}, ids |-> {}, one |-> None,
   query |-> None, filters |-> {}, lenient |-> FALSE]

\* Every operation; the ways a document and the products can be given.
MCAsks ==
  {NoFields(op) : op \in {"cancel_cart", "cancel_checkout", "get_cart", "get_checkout",
                          "get_order"}}
    \cup {[NoFields(op) EXCEPT !.under = {"id", "lines"}, !.lenient = (op = "create_cart")] :
            op \in {"create_cart", "create_checkout", "update_cart", "update_checkout",
                    "complete_checkout"}}
    \cup {[NoFields("update_checkout") EXCEPT !.beside = {"id", "lines"}],
          [NoFields("apply_discount") EXCEPT !.beside = {"code"}],
          [NoFields("get_product") EXCEPT !.one = "p"],
          [NoFields("get_product") EXCEPT !.ids = {"p", "q"}],
          [NoFields("lookup_catalog") EXCEPT !.ids = {"p"}],
          [NoFields("search_catalog") EXCEPT !.query = "words", !.filters = {"price"}]}
MCSkews == {-2, -1, 1, 2}

HostInit == CatalogInit /\ Init /\ WireInit

HostNext ==
  \/ Init /\ WireInit /\ CatalogNext /\ UNCHANGED <<vars, wireVars>>
  \/ CatalogInit /\ cache = EmptyCache /\ WireInit /\ Next
       /\ UNCHANGED <<catalogVars, wireVars>>
  \/ CatalogInit /\ cache = EmptyCache /\ Init /\ WireNext
       /\ UNCHANGED <<vars, catalogVars>>

HostSpec == HostInit /\ [][HostNext]_<<vars, catalogVars, wireVars>>
=============================================================================
