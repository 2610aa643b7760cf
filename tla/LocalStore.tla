----------------------------- MODULE LocalStore -----------------------------
(***************************************************************************)
(* The shop as the merchant host's local mode has it: FakeAdmin answers    *)
(* the Admin operations from tables in memory, with the semantics of the   *)
(* live entity tools.  Every operation is one atomic step.                 *)
(*                                                                         *)
(* A store is a record of tables.  Rows the shop names itself (conditions, *)
(* channel bindings, discounts) carry their number under the row they      *)
(* belong to in place of a random id.                                      *)
(***************************************************************************)
EXTENDS Integers, Sequences, FiniteSets, SequencesExt, Picking

CONSTANTS
  Shelf,         \* every product id there may ever be, in the order of product numbers
  SalesChannels

Products == ToSet(Shelf)

ASSUME ShelfAssumption == Shelf \in Seq(Products) /\ IsInjective(Shelf)

\* Products and rules by id, the rest as the set of its rows.
EmptyStore(products) ==
  [product |-> [p \in products |-> 0], rule |-> {}, condition |-> {}, promotion |-> {},
   channel |-> {}, discount |-> {}, mapping |-> {}]

-----------------------------------------------------------------------------
(* Reads. *)

\* _search on products: the matching rows sorted by number, and the page of them.
Matching(store) == Picked(Shelf, {i \in DOMAIN Shelf : Shelf[i] \in DOMAIN store.product})

Search(store, limit, page) ==
  LET rows == Matching(store) IN
  [total |-> Len(rows),
   rows  |-> SubSeq(rows, (page - 1) * limit + 1,
                    IF page * limit < Len(rows) THEN page * limit ELSE Len(rows))]

-----------------------------------------------------------------------------
(* Writes.  A payload is                                                   *)
(*   [entity |-> "product", rows |-> set of [id, set, whole, sane]]        *)
(*   [entity |-> "promotion", id, channel, discounts]: as many discounts,  *)
(*     each bound to the rule "rule"; "body" when the rule's row is nested *)
(*   [entity |-> "rule", id, conditions].                                  *)

\* _validate_product: a new product has every required field, each field has its type.
ProductErrors(store, rows) ==
  {row \in rows : (row.id \notin DOMAIN store.product /\ ~row.whole) \/ ~row.sane}

\* _validate_promotion: the channel exists; a bare reference names a rule that exists.
PromotionErrors(store, payload) ==
  {e \in {"channel", "rule"} :
     \/ e = "channel" /\ payload.channel \notin SalesChannels
     \/ e = "rule" /\ payload.discounts > 0 /\ ~payload.body /\ payload.rule \notin store.rule}

\* _validate.
Valid(store, payload) ==
  CASE payload.entity = "product"   -> ProductErrors(store, payload.rows) = {}
    [] payload.entity = "promotion" -> PromotionErrors(store, payload) = {}
    [] payload.entity = "rule"      -> TRUE

\* _written: the rows a write reports, by entity.
Written(store, payload) ==
  CASE payload.entity = "product" ->
         [product |-> Cardinality(payload.rows), product_translation |-> Cardinality(payload.rows)]
    [] payload.entity = "rule" -> [rule |-> 1, rule_condition |-> payload.conditions]
    [] payload.entity = "promotion" ->
         LET fresh == payload.discounts > 0 /\ payload.rule \notin store.rule IN
         [rule |-> IF fresh THEN 1 ELSE 0, rule_condition |-> IF fresh THEN 1 ELSE 0,
          promotion |-> 1, promotion_translation |-> 1, promotion_sales_channel |-> 1,
          promotion_discount |-> payload.discounts, promotion_discount_rule |-> payload.discounts]

\* A row made for parent; the ones it has are only ever deleted with it.
Made(rows, parent, many) ==
  LET had == Cardinality({row \in rows : row.of = parent}) IN
  {[of |-> parent, nth |-> had + i] : i \in 1 .. many}

\* _persist_rule: the conditions of the payload are added to those the rule has.
PersistRule(store, rule, conditions) ==
  [store EXCEPT !.rule = @ \cup {rule},
                !.condition = @ \cup Made(@, rule, conditions)]

\* _persist_promotion: neither the channel nor the discounts of the payload carry an id.
PersistPromotion(store, payload) ==
  LET made == Made(store.discount, payload.id, payload.discounts)
      with == IF payload.discounts > 0 /\ payload.body
              THEN PersistRule(store, payload.rule, 1) ELSE store
  IN  [with EXCEPT !.promotion = @ \cup {payload.id},
                   !.channel = @ \cup Made(@, payload.id, 1),
                   !.discount = @ \cup made,
                   !.mapping = @ \cup {[discount |-> d, rule |-> payload.rule] : d \in made}]

\* _persist: only what the row names changes.
PersistProducts(store, rows) ==
  [store EXCEPT !.product =
     [p \in DOMAIN @ \cup {row.id : row \in rows} |->
        IF \E row \in rows : row.id = p THEN (CHOOSE row \in rows : row.id = p).set ELSE @[p]]]

Persist(store, payload) ==
  CASE payload.entity = "product"   -> PersistProducts(store, payload.rows)
    [] payload.entity = "rule"      -> PersistRule(store, payload.id, payload.conditions)
    [] payload.entity = "promotion" -> PersistPromotion(store, payload)

\* Mutant: the dry run trusts the caller that a product exists.
UpsertTrusting(store, payload, dryRun) ==
  LET known == payload.entity = "product" /\ dryRun IN
  IF known \/ Valid(store, payload)
  THEN [ok |-> TRUE, written |-> Written(store, payload),
        store |-> IF dryRun THEN store ELSE Persist(store, payload)]
  ELSE [ok |-> FALSE, store |-> store]

\* _upsert: a dry run validates and reports like the write, and persists nothing.
Upsert(store, payload, dryRun) ==
  IF Valid(store, payload)
  THEN [ok |-> TRUE, written |-> Written(store, payload),
        store |-> IF dryRun THEN store ELSE Persist(store, payload)]
  ELSE [ok |-> FALSE, store |-> store]

Under(rows, parent) == {row \in rows : row.of = parent}

\* _delete of a promotion, _cascade: its channels, its discounts and what binds these to rules.
WithoutPromotion(store, promotion) ==
  [store EXCEPT !.promotion = @ \ {promotion},
                !.channel = @ \ Under(@, promotion),
                !.discount = @ \ Under(@, promotion),
                !.mapping = {m \in @ : m.discount.of # promotion}]

\* _delete of a rule.
WithoutRule(store, rule) ==
  [store EXCEPT !.rule = @ \ {rule},
                !.condition = @ \ Under(@, rule),
                !.mapping = {m \in @ : m.rule # rule}]

WithoutProduct(store, p) ==
  [store EXCEPT !.product = [q \in DOMAIN @ \ {p} |-> @[q]]]

=============================================================================
