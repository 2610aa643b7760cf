----------------------------- MODULE WritePlans -----------------------------
(***************************************************************************)
(* What a staged change of the merchant host shows and what it writes: the *)
(* stage_* methods build items and payloads from the catalog cache and the *)
(* live rows, ShopwareWriter replays the payloads and deletes what it      *)
(* created when one of them fails.                                         *)
(*                                                                         *)
(* One change is staged, applied and followed at a time: ChangeWorkflow    *)
(* has the ledger and the requests that interleave.  Here the catalog has  *)
(* families, variants that inherit their price, several currencies and a   *)
(* cache that goes stale; staff edit prices and customers buy between any  *)
(* two steps.  An amount of 0 stands for no price.                         *)
(***************************************************************************)
EXTENDS Integers, Sequences, SequencesExt

CONSTANTS
  Family, Variants, \* a product family and its variants
  Plain,            \* a product without variants
  Requests,         \* what the assistant asks for: [kind, ask]
  MaxDeltaPct,      \* max_price_delta_pct of the guardrails
  MaxDisturbances,  \* bound: edits by staff, sales and faults of calls
  MaxChanges        \* bound: changes staged

Listings == {Family, Plain} \cup Variants
Currencies == {"eur", "usd"}
Fields == {"price", "stock", "active", "name"}
ChangeKinds == {"listing_update", "price_update", "inventory_action", "promotion"}

ASSUME PlanBoundsAssumption == {MaxDeltaPct, MaxDisturbances, MaxChanges} \subseteq Nat
ASSUME CatalogAssumption ==
  Family # Plain /\ {Family, Plain} \cap Variants = {} /\ IsFiniteSet(Variants)
ASSUME RequestsAssumption ==
  \A q \in Requests :
    /\ q.kind \in ChangeKinds /\ q.ask \in Seq(ToSet(q.ask)) /\ q.ask # <<>>
    /\ q.kind # "promotion" => \A i \in DOMAIN q.ask : q.ask[i].listing \in Listings /\ q.ask[i].field \in Fields
    /\ q.kind # "promotion" =>
         \A i \in DOMAIN q.ask :
           q.ask[i].field = "stock" => q.kind = "inventory_action" /\ q.ask[i].value \in Int
    /\ q.kind = "price_update" => \A i \in DOMAIN q.ask : q.ask[i].field = "price" /\ q.ask[i].value # 0

VARIABLES
  live,     \* live[l]: the product row in the shop
  cache,    \* cache[l]: the row the catalog cache holds
  things,   \* the promotions and rules that exist in the shop
  change,   \* the change under way
  writing,  \* ShopwareWriter.apply and where it stands
  unsure,   \* history: things whose creation was answered with an error
  stuck,    \* history: things whose deletion failed
  disturbances, changes

writeVars == <<live, cache, things, change, writing, unsure, stuck, disturbances, changes>>

-----------------------------------------------------------------------------
(* The catalog: record_from_row, ProductRecord, CatalogCache. *)

None == [c \in Currencies |-> 0]

\* A row is [here, price, stock, active, name]: "here" tells whether the product exists, or is
\* cached; "price" is its own.

\* eur_entry, _gross: the EUR amount, else the first entry.
Gross(price) == IF price["eur"] # 0 THEN price["eur"] ELSE price["usd"]

\* ProductRecord.price: the row's own price or, for an inheriting variant, the family's.
Price(rows, l) ==
  IF Gross(rows[l].price) = 0 /\ l \in Variants /\ rows[Family].here
  THEN Gross(rows[Family].price) ELSE Gross(rows[l].price)

\* The variants linked to their family.
Children(rows, l) == IF l = Family THEN {v \in Variants : rows[v].here} ELSE {}

\* Mutant: a family is priced on the variants that carry a price.
PriceTargetsOwn(rows, l) ==
  LET priced == {v \in Children(rows, l) : Gross(rows[v].price) # 0} IN
  IF priced = {} THEN {l} ELSE priced

\* _price_targets: the variants with a price of their own, and the family for the others.
PriceTargets(rows, l) ==
  LET priced == {v \in Children(rows, l) : Gross(rows[v].price) # 0} IN
  IF priced = {} \/ priced # Children(rows, l) THEN priced \cup {l} ELSE priced

-----------------------------------------------------------------------------
(* Staging: one item for the preview and one payload row for each target. *)

Both(target, field, before, after, row) ==
  [item |-> [target |-> target, field |-> field, before |-> before, after |-> after], row |-> row]

\* Mutant: the price list is written with its EUR entry alone.
PricePayloadAlone(price, amount) == [c \in Currencies |-> IF c = "eur" THEN amount ELSE 0]

\* price_payload: only the EUR entry is replaced.
PricePayload(price, amount) == [price EXCEPT !["eur"] = amount]

\* current_gross, current_price_entries: the live row's price, else the cached one.
Current(l) == IF live[l].price # None THEN live[l].price ELSE cache[l].price

\* stage_price_update, for one target.
Reprice(t, amount) ==
  Both(t, "price", IF Gross(Current(t)) # 0 THEN Gross(Current(t)) ELSE Price(cache, t), amount,
       [id |-> t, set |-> [f \in {"price"} |-> PricePayload(Current(t), amount)]])

\* stage_inventory_action: a restock from the live stock.
Restock(l, quantity) ==
  LET current == IF live[l].here THEN live[l].stock ELSE cache[l].stock IN
  Both(l, "stock", current, current + quantity,
       [id |-> l, set |-> [f \in {"stock"} |-> current + quantity]])

Toggle(l, on) ==
  Both(l, "active", cache[l].active, on, [id |-> l, set |-> [f \in {"active"} |-> on]])

\* stage_listing_update: the text of the live row goes first.
Rename(l, name) ==
  Both(l, "name", IF live[l].here THEN live[l].name ELSE cache[l].name, name,
       [id |-> l, set |-> [f \in {"name"} |-> name]])

\* The rows of one item: the targets of a price, a family with its variants, or one row.
RowsOf(item) ==
  LET each(targets, Op(_)) == [i \in DOMAIN SetToSeq(targets) |-> Op(SetToSeq(targets)[i])] IN
  CASE item.field = "price" ->
         each(PriceTargets(cache, item.listing), LAMBDA t : Reprice(t, item.value))
    [] item.field = "stock" -> <<Restock(item.listing, item.value)>>
    [] item.field = "active" ->
         each({item.listing} \cup Children(cache, item.listing), LAMBDA t : Toggle(t, item.value))
    [] item.field = "name" -> <<Rename(item.listing, item.value)>>

\* Refused: a listing the cache does not know after a refresh, a target that is gone, a
\* restock of a family.
Stageable(item) ==
  /\ cache[item.listing].here
  /\ item.field = "price" => \A t \in PriceTargets(cache, item.listing) : live[t].here
  /\ item.field = "stock" => Children(cache, item.listing) = {} /\ item.value > 0

\* check_guardrails: the cap on a price move, from the price the item was staged with.
WithinCap(item) ==
  item.field = "price" /\ item.before # 0 =>
    LET move == IF item.after > item.before THEN item.after - item.before
                                            ELSE item.before - item.after
    IN  move * 100 <= MaxDeltaPct * item.before

\* The write plan: one product payload, or the payloads that create something.
ProductPlan(both) == <<[entity |-> "product", rows |-> [i \in DOMAIN both |-> both[i].row]]>>

NothingStaged == [status |-> "none"]
NoJob == [at |-> "idle"]

WritePlansInit ==
  /\ live = [l \in Listings |->
               [here |-> TRUE, stock |-> 2, active |-> TRUE, name |-> 0,
                price |-> IF l \in Variants /\ l # CHOOSE v \in Variants : TRUE
                          THEN None ELSE [c \in Currencies |-> 10]]]
  /\ cache = live /\ things = {}
  /\ change = NothingStaged /\ writing = NoJob
  /\ unsure = {} /\ stuck = {} /\ disturbances = 0 /\ changes = 0

\* stage_listing_update, stage_price_update, stage_inventory_action, then _stage: guardrails,
\* the dry run of the payload (refused when a product is gone), the ledger.
StageProducts(q) ==
  LET both == FlattenSeq([i \in DOMAIN q.ask |-> RowsOf(q.ask[i])])
      items == [i \in DOMAIN both |-> both[i].item]
  IN
  /\ writing = NoJob /\ changes < MaxChanges
  /\ q.kind # "promotion"
  /\ \A i \in DOMAIN q.ask : Stageable(q.ask[i])
  /\ q.kind = "price_update" => \A i \in DOMAIN items : WithinCap(items[i])
  /\ \A i \in DOMAIN both : live[both[i].row.id].here
  /\ change' = [status |-> "staged", kind |-> q.kind, ask |-> q.ask, items |-> items,
                plan |-> ProductPlan(both), seen |-> live, known |-> cache]
  /\ changes' = changes + 1
  /\ UNCHANGED <<live, cache, things, writing, unsure, stuck, disturbances>>

\* stage_promotion creates one thing; the writer takes any plan, and a request with several
\* stands for a plan of several payloads, which no tool stages today.
StagePromotion(q) ==
  /\ writing = NoJob /\ changes < MaxChanges
  /\ q.kind = "promotion"
  /\ things = {}
  /\ change' = [status |-> "staged", kind |-> q.kind, ask |-> q.ask, items |-> <<>>,
                plan |-> [i \in DOMAIN q.ask |-> [entity |-> q.ask[i], rows |-> <<>>]],
                seen |-> live, known |-> cache]
  /\ changes' = changes + 1
  /\ unsure' = {} /\ stuck' = {}
  /\ UNCHANGED <<live, cache, things, writing, disturbances>>

-----------------------------------------------------------------------------
(* ShopwareWriter.apply. *)

Disturbance == disturbances < MaxDisturbances /\ disturbances' = disturbances + 1

Begin ==
  /\ writing = NoJob /\ change.status = "staged"
  /\ writing' = [at |-> "rebase", next |-> 1, created |-> <<>>, completed |-> {},
                 rows |-> <<>>, rolledBack |-> {}]
  /\ UNCHANGED <<live, cache, things, change, unsure, stuck, disturbances, changes>>

\* Mutant: the level of the preview is written.
RebasedAsStaged(row) == row

\* _current_stock_base: the last item of a product gives its delta, on the stock of now.
Rebased(row) ==
  LET shown == {i \in DOMAIN change.items : /\ change.items[i].target = row.id
                                             /\ change.items[i].field = "stock"}
      last  == CHOOSE i \in shown : \A j \in shown : j <= i
  IN  IF change.kind = "inventory_action" /\ "stock" \in DOMAIN row.set
      THEN [row EXCEPT !.set.stock =
              live[row.id].stock + change.items[last].after - change.items[last].before]
      ELSE row

\* A restock whose product is gone raises at once, without a roll-back.
Rebase ==
  LET rows == change.plan[writing.next].rows IN
  /\ writing.at = "rebase"
  /\ IF change.kind = "inventory_action"
        /\ \E i \in DOMAIN rows : "stock" \in DOMAIN rows[i].set /\ ~live[rows[i].id].here
     THEN /\ change' = [change EXCEPT !.status = "failed"]
          /\ writing' = NoJob
     ELSE /\ writing' = [writing EXCEPT !.at = "write", !.rows = [i \in DOMAIN rows |-> Rebased(rows[i])]]
          /\ UNCHANGED change
  /\ UNCHANGED <<live, cache, things, unsure, stuck, disturbances, changes>>

Entity == change.plan[writing.next].entity

Writable == \A i \in DOMAIN writing.rows : live[writing.rows[i].id].here

\* A row sets the fields it names.
WithRow(rows, row) ==
  [rows EXCEPT ![row.id] = [f \in DOMAIN rows[row.id] |->
                              IF f \in DOMAIN row.set THEN row.set[f] ELSE rows[row.id][f]]]

\* What the upsert of the current payload does to the shop: all rows, in their order.
Performed ==
  /\ live' = FoldLeft(WithRow, live, writing.rows)
  /\ things' = IF Entity = "product" THEN things ELSE things \cup {Entity}

\* The write came back persisted; created entities are remembered for a roll-back.
WriteRows ==
  /\ writing.at = "write" /\ Writable
  /\ Performed
  /\ writing' = [writing EXCEPT !.at = IF writing.next = Len(change.plan) THEN "refresh" ELSE "rebase",
                   !.next = IF writing.next = Len(change.plan) THEN @ ELSE @ + 1,
                   !.completed = @ \cup {Entity},
                   !.created = IF Entity = "product" THEN @ ELSE Append(@, Entity)]
  /\ UNCHANGED <<cache, change, unsure, stuck, disturbances, changes>>

\* Refused, answered as a preview, or an error of the call: an error does not tell whether
\* the shop performed the write.
RowsFail ==
  /\ writing.at = "write"
  /\ IF Writable THEN Disturbance ELSE UNCHANGED disturbances
  /\ \/ UNCHANGED <<live, things, unsure>>
     \/ /\ Writable
        /\ Performed
        /\ unsure' = unsure \cup {Entity}
  /\ writing' = [writing EXCEPT !.at = "undo"]
  /\ UNCHANGED <<cache, change, stuck, changes>>

\* Mutant: the roll-back ends at the first deletion that fails.
UndoStops ==
  LET last == Len(writing.created) IN
  /\ writing.at = "undo" /\ last > 0
  /\ \/ /\ things' = things \ {writing.created[last]}
        /\ writing' = [writing EXCEPT !.created = SubSeq(@, 1, last - 1),
                         !.rolledBack = @ \cup {writing.created[last]}]
        /\ UNCHANGED <<stuck, disturbances>>
     \/ /\ Disturbance
        /\ stuck' = stuck \cup {writing.created[last]}
        /\ writing' = [writing EXCEPT !.created = <<>>]
        /\ UNCHANGED things
  /\ UNCHANGED <<live, cache, change, unsure, changes>>

\* _rollback: the last thing created is deleted first; a deletion that fails is only logged.
Undo ==
  LET last == Len(writing.created) IN
  /\ writing.at = "undo" /\ last > 0
  /\ \/ /\ things' = things \ {writing.created[last]}
        /\ writing' = [writing EXCEPT !.created = SubSeq(@, 1, last - 1),
                         !.rolledBack = @ \cup {writing.created[last]}]
        /\ UNCHANGED <<stuck, disturbances>>
     \/ /\ Disturbance
        /\ stuck' = stuck \cup {writing.created[last]}
        /\ writing' = [writing EXCEPT !.created = SubSeq(@, 1, last - 1)]
        /\ things' \in {things, things \ {writing.created[last]}}
  /\ UNCHANGED <<live, cache, change, unsure, changes>>

\* WriteFailed, with what was written and what was deleted again.
Fail ==
  /\ writing.at = "undo" /\ writing.created = <<>>
  /\ change' = [status |-> "failed", kind |-> change.kind,
                completed |-> writing.completed, rolledBack |-> writing.rolledBack]
  /\ writing' = NoJob
  /\ UNCHANGED <<live, cache, things, unsure, stuck, disturbances, changes>>

\* The catalog is refreshed; when that fails the write is in and only the cache is stale.
Return ==
  /\ writing.at = "refresh"
  /\ \/ cache' = live /\ UNCHANGED disturbances
     \/ Disturbance /\ UNCHANGED cache
  /\ change' = NothingStaged /\ writing' = NoJob
  /\ UNCHANGED <<live, things, unsure, stuck, changes>>

-----------------------------------------------------------------------------
(* The shop, and other requests that refresh the cache. *)

Refresh ==
  /\ cache' = live
  /\ UNCHANGED <<live, things, change, writing, unsure, stuck, disturbances, changes>>

\* Staff give a product a price, let a variant inherit again, or remove a product; a
\* customer buys.
Edit(l) ==
  /\ live[l].here
  /\ Disturbance
  /\ \/ \E c \in Currencies : live' = [live EXCEPT ![l].price[c] = 11]
     \/ l \in Variants /\ live' = [live EXCEPT ![l].price = None]
     \/ l \in Variants /\ live' = [live EXCEPT ![l].here = FALSE]
     \/ live' = [live EXCEPT ![l].stock = @ - 1]
  /\ UNCHANGED <<cache, things, change, writing, unsure, stuck, changes>>

WritePlansNext ==
  \/ \E q \in Requests : StageProducts(q) \/ StagePromotion(q)
  \/ Begin \/ Rebase \/ WriteRows \/ RowsFail \/ Undo \/ Fail \/ Return
  \/ Refresh \/ \E l \in Listings : Edit(l)

WritePlansSpec == WritePlansInit /\ [][WritePlansNext]_writeVars

-----------------------------------------------------------------------------
(* Properties. *)

Relatives(l) == IF l \in Variants \cup {Family} THEN Variants \cup {Family} ELSE {l}

\* The prices and the variants of l's family are, at the write, what the cache held when the
\* change was staged.
Undisturbed(l) ==
  \A m \in Relatives(l) : live[m].here = change.known[m].here /\ live[m].price = change.known[m].price

\* A price asked for a listing is the price of everything a customer can buy under it,
\* whether its variants carry prices or inherit them, once the change is written, unless the
\* change asks another of the family or somebody edited the family since it was cached.
FamilyRepriced ==
  [][WriteRows /\ change.kind = "price_update" =>
       \A i \in DOMAIN change.ask :
         LET l == change.ask[i].listing IN
         Undisturbed(l) /\ (\A j \in DOMAIN change.ask \ {i} : change.ask[j].listing \notin Relatives(l)) =>
           \A v \in (IF Children(live, l) = {} THEN {l} ELSE Children(live, l)) :
             Price(live', v) = change.ask[i].value]_writeVars

\* What a write changes in the shop is what the change showed: a field with an item, and for
\* a price its EUR amount, the other currencies keeping theirs; a restock raises the stock
\* of now.  Rows edited since the change was staged or cached are set aside, the stock is not.
ItemsOf(l, f) == {i \in DOMAIN change.items : change.items[i].target = l /\ change.items[i].field = f}
LastOf(I) == CHOOSE i \in I : \A j \in I : j <= i
Steady(l) == live[l].price = change.seen[l].price /\ live[l].price = change.known[l].price

ShownIsWritten ==
  [][WriteRows /\ Entity = "product" =>
       \A l \in Listings :
         /\ \A f \in {"name", "active"} :
              IF ItemsOf(l, f) = {} THEN live'[l][f] = live[l][f]
              ELSE live'[l][f] = change.items[LastOf(ItemsOf(l, f))].after
         /\ Steady(l) => \A c \in Currencies :
              IF c = "eur" /\ ItemsOf(l, "price") # {}
              THEN live'[l].price[c] = change.items[LastOf(ItemsOf(l, "price"))].after
              ELSE live'[l].price[c] = live[l].price[c]
         /\ ItemsOf(l, "stock") = {} => live'[l].stock = live[l].stock]_writeVars

\* A sale between staging and applying is kept: a restock raises the stock of its read.
RestockIsADelta ==
  [][Rebase /\ writing'.at = "write" =>
       \A i \in DOMAIN writing'.rows :
         "stock" \in DOMAIN writing'.rows[i].set =>
           \E j \in ItemsOf(writing'.rows[i].id, "stock") :
             writing'.rows[i].set.stock - live[writing'.rows[i].id].stock
               = change.items[j].after - change.items[j].before]_writeVars

\* When an apply fails, what the change created is gone again, one failed deletion keeping no
\* other from being tried; and the report is true: what it calls rolled back is gone.
NothingLeftBehind ==
  change.status = "failed" /\ "completed" \in DOMAIN change =>
    /\ change.kind = "promotion" => things \subseteq unsure \cup stuck
    /\ change.rolledBack \cap things = {}

\* staging.py: "two restocks staged against the same starting level both count".
BothRowsCount ==
  [][WriteRows /\ change.kind = "inventory_action" =>
       \A l \in Listings :
         live'[l].stock = FoldLeft(LAMBDA sum, item :
             IF item.target = l /\ item.field = "stock" THEN sum + item.after - item.before ELSE sum,
             live[l].stock, change.items)]_writeVars
=============================================================================
