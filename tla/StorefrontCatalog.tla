------------------------- MODULE StorefrontCatalog -------------------------
(***************************************************************************)
(* What the storefront host believes about the catalog                     *)
(* (ShopwareStorefrontBackend): one cache of product records for all       *)
(* sessions, which sizes belong to which product, and the size a product's *)
(* id stands for.  Lookups, searches and add-to-cart calls of several      *)
(* sessions fill it from two interfaces of the shop, UCP and the Store     *)
(* API.  Each request is two steps, the shop answering and the host        *)
(* reading the answer, so answers are read out of order and the stock      *)
(* changes in between; what follows without an await is one step.          *)
(*                                                                         *)
(* Names, prices, pictures and texts are left out: a record is which sizes *)
(* it lists and whether each can be bought.  A search finds one row or     *)
(* none; the code remembers every row by itself.                           *)
(***************************************************************************)
EXTENDS FiniteSets, Functions, Integers

CONSTANTS
  Children,     \* Children[p]: the sizes of product p, {} when it has none
  Tasks,        \* calls of the host's tools and routes
  SessionOf,    \* SessionOf[t]: whose call it is
  Attached,     \* Attached[s]: the sizes in the session's cart before the host knew of them
  Asked,        \* the products and sizes that calls name by id
  Titled,       \* the products and sizes that may be asked for by title
  Requested,    \* SHOPWARE_AGENT_TOOLS: auto, plugin or host
  HasAccessKey, \* the sales channel's key is set
  Advertised,   \* the tools the shop's MCP server lists at startup, {} when it cannot be asked
  OutAtStart,   \* what may be sold out when the host starts: a set of sets
  MaxShopSteps, \* bound: how often something sells out or is restocked
  MayFlap       \* the Store API may fail and answer again within one call

Missing == [missing |-> TRUE]
Products == DOMAIN Children
Families == {p \in Products : Children[p] # {}}
Sizes == UNION {Children[p] : p \in Products}
Kids(x) == IF x \in Products THEN Children[x] ELSE {}
Skus == Sizes \cup (Products \ Families)
FamilyOf(c) == CHOOSE f \in Families : c \in Children[f]

\* A size is of one product and is none itself; a cart holds what one can buy.
ASSUME CatalogAssumption ==
  /\ Sizes \cap Products = {}
  /\ \A f, g \in Families : f # g => Children[f] \cap Children[g] = {}
  /\ Asked \cup Titled \subseteq Products \cup Sizes
  /\ {"relative", Missing} \cap (Products \cup Sizes) = {}
  /\ DOMAIN SessionOf = Tasks
  /\ Attached \in [Range(SessionOf) -> SUBSET Skus]

VARIABLES
  stock,     \* the shop: stock[c], can it be bought?
  cache,     \* products, variant_of, default_variants, and each session's default_variant
  lines,     \* lines[s]: what the session's cart holds
  task,      \* task[t]: a call and where it stands
  shopSteps

catalogVars == <<stock, cache, lines, task, shopSteps>>

Unanswered == [unanswered |-> TRUE]
NoRows == [x \in {} |-> FALSE]
Knows(f, x) == x \in DOMAIN f
Over(f, g) == [x \in DOMAIN f \cup DOMAIN g |-> IF Knows(g, x) THEN g[x] ELSE f[x]]
Filed(f, x, v) == Over(f, [y \in {x} |-> v])
Drop(f, x) == [y \in DOMAIN f \ {x} |-> f[y]]
Buyable(rows) == {c \in DOMAIN rows : rows[c]}
AnyInStock(p) == \E c \in Children[p] : stock[c]
InStock(x) == IF x \in Families THEN AnyInStock(x) ELSE stock[x]
Listed(S) == [c \in S |-> stock[c]]

\* A call that waits for one of these requests.
Asking == {"store", "again", "get_product", "lookup", "children", "search", "listing", "plugin", "host"}
AtRest == [at |-> "idle"]
EmptyCache == [products |-> NoRows, variantOf |-> NoRows, defaults |-> NoRows,
               chosen |-> [s \in Range(SessionOf) |-> NoRows]]

-----------------------------------------------------------------------------
(* The shop.  Every request may fail. *)

StockChanges(c) ==
  /\ shopSteps < MaxShopSteps /\ shopSteps' = shopSteps + 1
  /\ stock' = [stock EXCEPT ![c] = ~ @]
  /\ UNCHANGED <<cache, lines, task>>

\* UCP: a family lists the sizes that can be bought; asked for a product it may answer with
\* one of its sizes, asked for a size with its family, of which the host takes no notice.
UcpDoc(x) ==
  [id |-> x, kids |-> IF x \in Families THEN Listed({c \in Children[x] : stock[c]}) ELSE NoRows,
   inStock |-> InStock(x)]
Relative == [id |-> "relative"]
UcpDocs(x) == {UcpDoc(x)} \cup IF x \in Families \cup Sizes THEN {Relative} ELSE {}

\* POST /store-api/product/{id}: a family's id answers its best size, whose parentId is the
\* family; the children are left out or complete.
StoreDocs(x) ==
  IF x \in Families
  THEN {[parent |-> x, kids |-> kids, inStock |-> InStock(x)] : kids \in {NoRows, Listed(Children[x])}}
  ELSE {[parent |-> IF x \in Sizes THEN FamilyOf(x) ELSE Missing, kids |-> NoRows, inStock |-> InStock(x)]}

\* /store-api/search, or the listing when it fails or finds nothing: whole families.
StoreRow(p) == [parent |-> Missing, kids |-> IF p \in Families THEN Listed(Children[p]) ELSE NoRows,
                inStock |-> InStock(p)]

\* _store_api_to_ucp: a Store API document as UCP would give it; what it answers for a family
\* is the family's best size, so the id is the one asked for.
StoreToUcp(id, doc) == [id |-> id, kids |-> doc.kids, inStock |-> doc.inStock]

Answers(c) ==
  CASE c.at \in {"store", "again"} -> StoreDocs(c.id)
    [] c.at \in {"get_product", "lookup"} -> UcpDocs(c.id)
    [] c.at = "children" -> {[kids |-> Listed(Children[c.of])]}
    [] c.at = "search" -> {UcpDoc(p) : p \in Products}
    [] c.at = "listing" -> {StoreToUcp(p, StoreRow(p)) : p \in Products}
    [] OTHER -> {[facts |-> c.at]}

Answer(t) ==
  /\ task[t].at \in Asking /\ task[t].reply = Unanswered
  /\ \E reply \in {Missing} \cup Answers(task[t]) :
       /\ task[t].at = "again" /\ ~ MayFlap => reply = Missing
       /\ task' = [task EXCEPT ![t].reply = reply]
  /\ UNCHANGED <<stock, cache, lines, shopSteps>>

-----------------------------------------------------------------------------
(* Remembering a record. *)

\* Of several sizes the first of the document: whichever "first" names, or any.
FirstOf(S, first) == IF first \in S THEN first ELSE CHOOSE c \in S : TRUE

\* Mutant: a product all of whose sizes are sold out stands for none of them.
RememberBuyable(k, s, id, record, first) ==
  LET rows == record.rows
      filed == [k EXCEPT !.products = Filed(@, id, record),
                         !.variantOf = Over(@, [c \in DOMAIN rows |-> id])]
  IN IF Buyable(rows) = {} THEN filed
     ELSE [filed EXCEPT !.defaults = Filed(@, id, FirstOf(Buyable(rows), first)),
                        !.chosen[s] = Filed(@, id, FirstOf(Buyable(rows), first))]

\* A product stands for the first of its sizes that can be bought, or for the first when all
\* are sold out.
StandsFor(rows, first) == FirstOf(IF Buyable(rows) # {} THEN Buyable(rows) ELSE DOMAIN rows, first)

\* _remember_details: the sizes are filed under the product.
Remember(k, s, id, record, first) ==
  LET rows == record.rows
      size == StandsFor(rows, first)
      filed == [k EXCEPT !.products = Filed(@, id, record),
                         !.variantOf = Over(@, [c \in DOMAIN rows |-> id])]
  IN IF rows = NoRows THEN filed
     ELSE [filed EXCEPT !.defaults = Filed(@, id, size), !.chosen[s] = Filed(@, id, size)]

\* _remember_product: the record's sizes go over those remembered; the product's own row
\* is none of them.
RecordOf(k, doc) ==
  LET old == IF Knows(k.products, doc.id) THEN k.products[doc.id].rows ELSE NoRows
      rows == Over(old, Drop(doc.kids, doc.id))
  IN [rows |-> rows, inStock |-> IF rows = NoRows THEN doc.inStock ELSE Buyable(rows) # {}]

\* _details_to_ucp: a record the cache holds, as a row of a search.
DetailsToUcp(k, p) == [id |-> p, kids |-> k.products[p].rows, inStock |-> k.products[p].inStock]

\* _enrich_variants: the children the Store API lists go over the record's sizes.
Enriched(id, record, children) ==
  LET rows == Drop(Over(record.rows, children), id)
  IN [rows |-> rows, inStock |-> IF rows = NoRows THEN record.inStock ELSE Buyable(rows) # {}]

-----------------------------------------------------------------------------
(* Where a call goes on: operators that give the call's next record. *)

Ask(c, at) == [c EXCEPT !.at = at, !.reply = Unanswered]
Ended == [at |-> "done"]

\* _assert_available, by the record of the product the id is a size of, or its own.
SoldOut(k, v) ==
  IF Knows(k.variantOf, v)
  THEN /\ Knows(k.products, k.variantOf[v])
       /\ LET rows == k.products[k.variantOf[v]].rows IN Knows(rows, v) /\ ~ rows[v]
  ELSE Knows(k.products, v) /\ k.products[v].rows = NoRows /\ ~ k.products[v].inStock

\* add_to_cart once it knows the size: refused, or sent to the session's cart.
Put(k, c, v) ==
  IF SoldOut(k, v) THEN Ended ELSE [at |-> "cart", arg |-> c.arg, sent |-> v]

\* The end of _resolve_variant: what the id stands for in the session, on the host, or itself.
Default(k, c) ==
  IF Knows(k.chosen[c.session], c.arg) THEN k.chosen[c.session][c.arg]
  ELSE IF Knows(k.defaults, c.arg) THEN k.defaults[c.arg] ELSE c.arg

\* get_product_details returns: an add goes on.
Found(k, c) == IF c.op = "add" THEN Put(k, c, Default(k, c)) ELSE Ended

\* _variant_details: the family's record, fetched unless it is there with sizes.
ReadSize(k, c, family) ==
  LET of == [c EXCEPT !.id = family] IN
  IF Knows(k.products, family) /\ k.products[family].rows # NoRows
  THEN Found(k, of)
  ELSE Ask(of, "store")

\* get_product_details from an id: a known size by its family, the rest by the Store API.
LookUp(k, c, id) ==
  IF Knows(k.variantOf, id) /\ k.variantOf[id] # id
  THEN ReadSize(k, c, k.variantOf[id])
  ELSE Ask([c EXCEPT !.id = id], "store")

\* resolve_catalog_ref: the exact title of a record, or of exactly one record's size.
TitleKnown(k, x) ==
  \/ Knows(k.products, x)
  \/ Cardinality({p \in DOMAIN k.products : Knows(k.products[p].rows, x)}) = 1

-----------------------------------------------------------------------------
(* Calls. *)

\* warm_catalog: every row of the listing remembered, for a session that is then dropped.
Warmed(now) ==
  LET rows == [p \in Products |-> [c \in Children[p] |-> now[c]]] IN
  [products |-> [p \in Products |->
                   [rows |-> rows[p], inStock |-> \E c \in IF p \in Families THEN Children[p] ELSE {p} : now[c]]],
   variantOf |-> [c \in Sizes |-> FamilyOf(c)],
   defaults |-> [f \in Families |-> StandsFor(rows[f], CHOOSE c \in Sizes : TRUE)],
   chosen |-> EmptyCache.chosen]

CatalogInit ==
  /\ stock \in {[x \in Skus |-> x \notin out] : out \in OutAtStart}
  /\ cache \in {EmptyCache, Warmed(stock)}
  /\ lines = Attached
  /\ task = [t \in Tasks |-> AtRest] /\ shopSteps = 0

New(t, op, x) ==
  [op |-> op, session |-> SessionOf[t], arg |-> x, id |-> x, of |-> x, byTitle |-> FALSE,
   store |-> Missing, record |-> Missing, at |-> "new", reply |-> Unanswered]

Begin(t, c) ==
  /\ task[t] = AtRest
  /\ task' = [task EXCEPT ![t] = c]
  /\ UNCHANGED <<stock, cache, lines, shopSteps>>

GetProductDetails(t, x) == Begin(t, LookUp(cache, New(t, "details", x), x))

\* By title: a title the cache does not hold is searched for.
GetByTitle(t, x) ==
  LET c == [New(t, "details", x) EXCEPT !.byTitle = TRUE] IN
  Begin(t, IF TitleKnown(cache, x) THEN LookUp(cache, c, x) ELSE Ask(c, "search"))

\* search_products; without a term it is the Store API's listing, also at warm-up.
SearchProducts(t) == \E at \in {"search", "listing"} : Begin(t, Ask(New(t, "search", "term"), at))

\* add_to_cart: a line of the cart or a known size is meant as it is; a product nobody has
\* read, or whose sizes have no default, is looked up.
AddToCart(t, x) ==
  LET c == New(t, "add", x)
      unread == \/ ~ Knows(cache.products, x)
                \/ cache.products[x].rows # NoRows /\ ~ Knows(cache.defaults, x)
      next == IF x \in lines[SessionOf[t]] \/ Knows(cache.variantOf, x) THEN Put(cache, c, x)
              ELSE IF unread THEN LookUp(cache, c, x) ELSE Put(cache, c, Default(cache, c))
  IN Begin(t, next)

ShoppingTools == {"policy-search", "disclosure", "fulfillment-options"}

\* resolve_mode: on auto the plugin answers only if it has every tool.
ResolveMode(requested, advertised) ==
  IF requested = "plugin" \/ (requested = "auto" /\ ShoppingTools \subseteq advertised)
  THEN "plugin" ELSE "host"

\* detect: decided once, at startup; without the key the plugin is out of reach.
Mode == IF HasAccessKey THEN ResolveMode(Requested, Advertised) ELSE "host"

\* search_policies, get_disclosure, get_fulfillment_options; a tool the shop does not have
\* fails like any other.
AskFacts(t) == Begin(t, Ask(New(t, "facts", "any"), Mode))

\* The host goes on with what the call's request brought: the cache becomes k, the call c.
GoesOn(t, c) == task' = [task EXCEPT ![t] = c]
GoOn(t, k, c) == cache' = k /\ GoesOn(t, c) /\ UNCHANGED <<stock, lines, shopSteps>>
Has(t, at) == task[t].at = at /\ task[t].reply # Unanswered
Remembering(t, k, id, record, first, Then(_)) ==
  LET after == Remember(k, task[t].session, id, record, first) IN GoOn(t, after, Then(after))

\* The Store API's document decides whether the id is a size: it carries a foreign parentId.
StoreAnswered(t) ==
  /\ Has(t, "store")
  /\ LET c == task[t]
         doc == c.reply
         size == doc # Missing /\ doc.parent \notin {Missing, c.id}
     IN IF size
        THEN LET k == [cache EXCEPT !.variantOf = Filed(@, c.id, doc.parent)]
             IN GoOn(t, k, ReadSize(k, c, doc.parent))
        ELSE GoOn(t, cache, Ask([c EXCEPT !.store = doc], "get_product"))

\* _fetch_family_record: UCP's document if it is the product's, else lookup_catalog's, else
\* the Store API's under the product's id; _remember_product; _enrich_variants begins.
RecordAnswered(t) ==
  /\ task[t].at \in {"get_product", "lookup"} /\ task[t].reply # Unanswered
  /\ LET c == task[t]
         own == c.reply # Missing /\ c.reply.id = c.id
         doc == IF own THEN c.reply
                ELSE IF c.store # Missing THEN StoreToUcp(c.id, c.store) ELSE Missing
     IN IF c.at = "get_product" /\ c.reply # Missing /\ ~ own THEN GoOn(t, cache, Ask(c, "lookup"))
        ELSE IF doc = Missing THEN GoOn(t, cache, Found(cache, c))
        ELSE \E first \in Sizes :
               LET record == RecordOf(cache, doc)
                   k == Remember(cache, c.session, c.id, record, first)
                   d == [c EXCEPT !.record = record]
               IN IF c.store = Missing THEN GoOn(t, k, Ask(d, "again"))
                  ELSE IF c.store.kids # NoRows
                  THEN Remembering(t, k, c.id, Enriched(c.id, record, c.store.kids), first,
                                   LAMBDA k2 : Found(k2, d))
                  ELSE GoOn(t, k, Ask([d EXCEPT !.of = IF c.store.parent = Missing THEN c.id ELSE c.store.parent],
                                      "children"))

\* _enrich_variants asks for the document once more when there is none yet.
StoreAnsweredAgain(t) ==
  /\ Has(t, "again")
  /\ LET c == task[t]
         doc == c.reply
     IN IF doc = Missing THEN GoOn(t, cache, Found(cache, c))
        ELSE IF doc.kids # NoRows
        THEN \E first \in Sizes :
               Remembering(t, cache, c.id, Enriched(c.id, c.record, doc.kids), first,
                           LAMBDA k : Found(k, c))
        ELSE GoOn(t, cache, Ask([c EXCEPT !.of = IF doc.parent = Missing THEN c.id ELSE doc.parent], "children"))

\* The children of the document's family, into the record this call has built.
ChildrenAnswered(t) ==
  /\ Has(t, "children")
  /\ LET c == task[t]
         listed == IF c.reply = Missing THEN NoRows ELSE c.reply.kids
         record == IF listed = NoRows THEN c.record ELSE Enriched(c.id, c.record, listed)
     IN \E first \in Sizes :
          Remembering(t, cache, c.id, record, first,
                      LAMBDA k : Found(k, c))

\* A row is remembered; UCP's empty answer leads to the Store API's, and that to the rows of
\* the cache, remembered like any other.
RowsAnswered(t) ==
  /\ task[t].at \in {"search", "listing"} /\ task[t].reply # Unanswered
  /\ LET c == task[t]
         After(k) == IF ~ c.byTitle THEN Ended
                     ELSE IF TitleKnown(k, c.arg) THEN LookUp(k, c, c.arg) ELSE Found(k, c)
         Row(row) == \E first \in Sizes :
                       Remembering(t, cache, row.id, RecordOf(cache, row), first, After)
     IN IF c.reply # Missing THEN Row(c.reply)
        ELSE IF c.at = "search" THEN GoOn(t, cache, Ask(c, "listing"))
        ELSE \/ GoOn(t, cache, After(cache))
             \/ \E p \in DOMAIN cache.products : Row(DetailsToUcp(cache, p))

\* A plugin tool that fails is asked for on the host, for that call.
FactsAnswered(t) ==
  /\ task[t].at \in {"plugin", "host"} /\ task[t].reply # Unanswered
  /\ LET c == task[t] IN
     GoOn(t, cache, IF c.at = "plugin" /\ c.reply = Missing THEN Ask(c, "host") ELSE Ended)

\* StorefrontCart: the shop puts what is sent into the cart, unless it is nothing one can buy.
CartTakes(t) ==
  /\ task[t].at = "cart"
  /\ lines' = [lines EXCEPT ![SessionOf[t]] = @ \cup ({task[t].sent} \cap Skus)]
  /\ GoesOn(t, Ended)
  /\ UNCHANGED <<stock, cache, shopSteps>>

HostReads(t) == \/ StoreAnswered(t) \/ RecordAnswered(t) \/ StoreAnsweredAgain(t)
                \/ ChildrenAnswered(t) \/ RowsAnswered(t) \/ FactsAnswered(t)

CatalogNext ==
  \/ \E c \in Skus : StockChanges(c)
  \/ \E t \in Tasks : \/ \E x \in Asked : GetProductDetails(t, x) \/ AddToCart(t, x)
                      \/ \E x \in Titled : GetByTitle(t, x)
                      \/ SearchProducts(t) \/ AskFacts(t)
                      \/ Answer(t) \/ HostReads(t) \/ CartTakes(t)

CatalogSpec == CatalogInit /\ [][CatalogNext]_catalogVars

-----------------------------------------------------------------------------
(* Properties. *)

\* An add sends the product asked for or one of its sizes, and never the product itself when
\* the host knows sizes of it: no order of lookups, searches and answers files a size under
\* another product or leaves a product with sizes standing for itself (_remember_details,
\* _resolve_variant).
WhatIsAsked ==
  [][\A t \in Tasks :
       (task'[t].at = "cart" /\ task[t].at # "cart") =>
         LET x == task'[t].arg sent == task'[t].sent IN
         \/ sent = x /\ (Knows(cache'.products, x) => cache'.products[x].rows = NoRows)
         \/ sent \in Kids(x)]_catalogVars

=============================================================================
