---------------------------- MODULE ShopBootstrap ----------------------------
(***************************************************************************)
(* docker/bootstrap.sh and the scripts it runs against a shop: each looks  *)
(* for what it needs and writes what is missing or differs.  A request may *)
(* fail, or be performed and its answer lost; either ends the run (set -e),*)
(* and bootstrap is run again.  Between two runs staff change the shop, or *)
(* its volume is dropped while the host's files stay.                      *)
(*                                                                         *)
(* A name stands for a product number, a technical name or a name; an id,  *)
(* a key or a secret is a number never used before, 0 one that is missing; *)
(* "none" is the name of no row.                                           *)
(* Two of three sizes and one of four policy pages are seeded.             *)
(***************************************************************************)
EXTENDS Naturals, Sequences, FiniteSets

CONSTANTS Kinds,       \* build_plan: the kinds of the orders to seed, in order
          MaxRuns,     \* bound: runs of bootstrap
          MaxFaults,   \* bound: requests and console commands that fail
          MaxStaff     \* bound: changes made between two runs

\* The plan is a list of kinds; the bounds are nothing the program knows of.
ASSUME BootAssumption == Kinds \in Seq(STRING)

VARIABLES
  pc,           \* the call of Calls a run is at; 0 between two runs
  last,         \* how the last run ended, while nobody has touched the shop since
  held,         \* ids the running scripts hold, by name
  rows,         \* rows of the shop: name, id, the row they are under, the row they refer to
  orders,       \* seeded orders: kind, backdated, transitions made
  keys,         \* the shop's signing keys
  integrations, \* integrations labelled claude-merchant-agent
  shop,         \* single values kept in the shop and its container
  host,         \* docker/.generated.env, the agent's key and its profile
  fresh,        \* the next number nobody has used
  runs, faults, staff, stops,
  unseen        \* a console command of the run failed unnoticed, or UCP was skipped

world == <<rows, orders, keys, integrations, shop, host, fresh>>
count == <<runs, faults, staff, stops>>
vars  == <<pc, last, held, world, count, unseen>>

----------------------------------------------------------------------------
(* What a run calls, in order. *)

Do(op)                     == [op |-> op]
Row(op, name, under, ref)  == [op |-> op, name |-> name, under |-> under, ref |-> ref]

\* seed_products: the property group, unit and delivery time, then the products that use them.
Products ==
  << Row("group", "Size", "none", "none"), Row("option", "S", "Size", "none"), Row("option", "L", "Size", "none"),
     Row("unit", "l", "none", "none"), Row("time", "2-4-Tage", "none", "none"),
     Row("product", "CA-TSHIRT", "none", "2-4-Tage"),
     Row("product", "CA-TSHIRT-S", "CA-TSHIRT", "2-4-Tage"),
     Row("product", "CA-TSHIRT-L", "CA-TSHIRT", "2-4-Tage"),
     Row("product", "CA-OIL", "none", "2-4-Tage") >>

\* seed_shipping: Express is created, Standard came with the shop.
Shipping ==
  << Row("time", "1-2-Tage", "none", "none"), Row("express", "Express", "none", "1-2-Tage"),
     Row("standard", "Standard", "none", "none"),
     Row("price", "EUR", "Standard", "none"), Row("price", "EUR", "Express", "none"), Do("assign") >>

\* seed_policies: the two roots, the channel that names them, and pages with their categories.
Policies ==
  << Row("root", "Footer", "none", "none"), Row("root", "Service", "none", "none"), Do("channel"),
     Row("category", "Rechtliches", "Footer", "none"),
     Row("page", "AGB-page", "none", "none"), Row("category", "AGB", "Rechtliches", "AGB-page"),
     Row("page", "Kontakt-page", "none", "none"), Row("category", "Kontakt", "Service", "Kontakt-page") >>

\* merchant_identity.main: the hosts get their credentials last.
Identity == << Row("role", "role", "none", "none"), Do("integration"), Do("allowlist"), Do("env"), Do("verify") >>

Calls == << Do("handoff"), Do("domain"), Do("pem"), Do("profile"), Do("copy"),
            Do("config"), Do("keys"), Do("surplus"), Do("purge") >>
         \o Products \o Shipping \o Policies
         \o << Do("count"), Do("orders"), Do("credentials") >> \o Identity

----------------------------------------------------------------------------
(* The shop as it comes, and as bootstrap wants it. *)

NewShop  == [handoff |-> 0, domains |-> {"localhost", "elsewhere"}, copy |-> 0, cached |-> 0,
             config |-> FALSE, footer |-> 0, service |-> 0, assigned |-> {}]
Standard == [name |-> "Standard", id |-> 1, under |-> 0, ref |-> 0, good |-> FALSE]
Shipped  == {{}, {[kid |-> "plugin", active |-> TRUE]}}

Init ==
  /\ pc = 0 /\ last = "none" /\ held = [n \in {} |-> 0] /\ unseen = FALSE
  /\ rows = {Standard} /\ orders = <<>> /\ integrations = {}
  /\ keys \in Shipped
  /\ shop = NewShop
  /\ host = [handoff |-> 0, access |-> 0, secret |-> 0, pem |-> 0, profile |-> 0]
  /\ fresh = 2 /\ runs = 0 /\ faults = 0 /\ staff = 0 /\ stops = 0

At(op) == pc \in 1..Len(Calls) /\ Calls[pc].op = op
Call   == Calls[pc]
Held(n) == IF n \in DOMAIN held THEN held[n] ELSE 0
Noted(h, n, id) == [m \in DOMAIN h \cup {n} |-> IF m = n THEN id ELSE h[m]]
Holding(n, id) == Noted(held, n, id)

\* set -euo pipefail: a script that exits with 1, and one that is killed, ends the run.
Stop ==
  /\ pc' = 0 /\ last' = "stopped" /\ held' = [n \in {} |-> 0]
  /\ stops' = stops + 1
  /\ UNCHANGED <<runs, staff>>

Faulty == faults < MaxFaults /\ faults' = faults + 1

\* What was asked for was done: the run goes on with h in hand, or it never hears of it.
Past(n, h) ==
  \/ pc' = pc + n /\ held' = h /\ UNCHANGED <<last, count>>
  \/ Stop /\ Faulty

Then(h) == Past(1, h)

\* The same for one turn of a loop.
Again(h) ==
  \/ held' = h /\ UNCHANGED <<pc, last, count>>
  \/ Stop /\ Faulty

Start ==
  /\ pc = 0 /\ runs < MaxRuns
  /\ pc' = 1 /\ runs' = runs + 1 /\ unseen' = FALSE /\ last' = "none"
  /\ UNCHANGED <<held, world, faults, staff, stops>>

\* A request that is refused, or never arrives.
Fails ==
  /\ pc > 0 /\ Faulty /\ Stop
  /\ UNCHANGED <<world, unseen>>

Finish ==
  /\ pc = Len(Calls) + 1
  /\ pc' = 0 /\ last' = "finished" /\ held' = [n \in {} |-> 0]
  /\ UNCHANGED <<world, count, unseen>>

----------------------------------------------------------------------------
(* bootstrap.sh, agent_key.py, shop_domain.py, enable_ucp.py *)

\* The container's secret, else the host's, else a new one.
HandoffSecret ==
  /\ At("handoff")
  /\ LET known == IF shop.handoff # 0 THEN shop.handoff ELSE host.handoff
         s     == IF known # 0 THEN known ELSE fresh
     IN  /\ shop' = [shop EXCEPT !.handoff = s]
         /\ fresh' = IF known # 0 THEN fresh ELSE fresh + 1
         /\ Then(Holding("handoff", s))
  /\ UNCHANGED <<rows, orders, keys, integrations, host, unseen>>

\* Loopback domains are pointed at the published port one by one, others are left alone.
PatchDomains ==
  /\ At("domain")
  /\ IF "localhost" \in shop.domains
     THEN shop' = [shop EXCEPT !.domains = (@ \ {"localhost"}) \cup {"published"}] /\ Again(held)
     ELSE shop' = shop /\ Then(held)
  /\ UNCHANGED <<rows, orders, keys, integrations, host, fresh, unseen>>

\* The agent's key is generated once.
AgentKey ==
  /\ At("pem")
  /\ host' = [host EXCEPT !.pem = IF @ # 0 THEN @ ELSE fresh]
  /\ fresh' = IF host.pem # 0 THEN fresh ELSE fresh + 1
  /\ Then(held)
  /\ UNCHANGED <<rows, orders, keys, integrations, shop, unseen>>

WriteProfile ==
  /\ At("profile")
  /\ host' = [host EXCEPT !.profile = host.pem]
  /\ Then(held)
  /\ UNCHANGED <<rows, orders, keys, integrations, shop, fresh, unseen>>

CopyProfile ==
  /\ At("copy")
  /\ shop' = [shop EXCEPT !.copy = host.profile]
  /\ Then(held)
  /\ UNCHANGED <<rows, orders, keys, integrations, host, fresh, unseen>>

EnsureConfig ==
  /\ At("config")
  /\ shop' = [shop EXCEPT !.config = TRUE]
  /\ Then(held)
  /\ UNCHANGED <<rows, orders, keys, integrations, host, fresh, unseen>>

\* An answer of 404 is taken for a missing plugin: the rest of the script is left out.
SkipUcp ==
  /\ At("config") \/ At("purge")
  /\ Faulty /\ unseen' = TRUE
  /\ pc' = CHOOSE i \in 1..Len(Calls) : Calls[i].op = "group"
  /\ UNCHANGED <<last, held, world, runs, staff, stops>>

Active(ks) == {k \in ks : k.active}

\* Which key stays: default if it is active, else the last active one.
Kept(ks) ==
  IF \E k \in Active(ks) : k.kid = "default" THEN {k \in Active(ks) : k.kid = "default"} ELSE Active(ks)

Taken(kid) == \E k \in keys : k.kid = kid

\* The key to keep, or a new one; the shop refuses a kid that is taken.
ListKeys ==
  /\ At("keys")
  /\ IF Active(keys) # {}
     THEN \E k \in Kept(keys) : keys' = keys /\ Then(Holding("keep", k.kid))
     ELSE IF Taken("default")
          THEN keys' = keys /\ Stop /\ UNCHANGED faults
          ELSE keys' = keys \cup {[kid |-> "default", active |-> TRUE]} /\ Past(2, held)
  /\ UNCHANGED <<rows, orders, integrations, shop, host, fresh, unseen>>

\* A listing that fails reads as no key at all.
ListKeysUnread ==
  /\ At("keys") /\ Faulty
  /\ IF Taken("default")
     THEN Stop /\ UNCHANGED <<keys, unseen>>
     ELSE /\ keys' = keys \cup {[kid |-> "default", active |-> TRUE]}
          /\ unseen' = TRUE /\ pc' = pc + 2
          /\ UNCHANGED <<last, held, runs, staff, stops>>
  /\ UNCHANGED <<rows, orders, integrations, shop, host, fresh>>

\* Every other key is retired, then deleted; nobody looks whether a command worked.
RemoveSurplus ==
  /\ At("surplus")
  /\ LET surplus == {k \in keys : k.kid # held["keep"]}
     IN  \E left \in SUBSET surplus : \E retired \in SUBSET left :
           /\ keys' = (keys \ surplus) \cup (left \ retired) \cup {[k EXCEPT !.active = FALSE] : k \in retired}
           /\ \/ left = {} /\ Then(held) /\ UNCHANGED unseen
              \/ left # {} /\ Faulty /\ Stop /\ UNCHANGED unseen
              \/ left # {} /\ Faulty /\ unseen' = TRUE /\ pc' = pc + 1
                 /\ UNCHANGED <<last, held, runs, staff, stops>>
  /\ UNCHANGED <<rows, orders, integrations, shop, host, fresh>>

PurgeProfiles ==
  /\ At("purge")
  /\ shop' = [shop EXCEPT !.cached = 0]
  /\ Then(held)
  /\ UNCHANGED <<rows, orders, keys, integrations, host, fresh, unseen>>

----------------------------------------------------------------------------
(* seed_catalog.py *)

\* Options, prices and categories are looked for below what they belong to, the rest by name.
Found(c) ==
  {r \in rows : r.name = c.name /\ (c.op \in {"option", "price", "category"} => r.under = Held(c.under))}

New(c) == [name |-> c.name, id |-> fresh, under |-> Held(c.under), ref |-> Held(c.ref), good |-> TRUE]

\* Look, then write what is missing, or mend what a row that is there has wrong.
Ensure(op, Mended(_)) ==
  /\ At(op)
  /\ \/ /\ Found(Call) = {}
        /\ rows' = rows \cup {New(Call)} /\ fresh' = fresh + 1
        /\ Then(Holding(Call.name, fresh))
     \/ \E r \in Found(Call) :
          /\ rows' = (rows \ {r}) \cup {Mended(r)} /\ fresh' = fresh
          /\ Then(Holding(Call.name, r.id))
  /\ UNCHANGED <<orders, keys, integrations, shop, host, unseen>>

AsItIs(r) == r

EnsureDeliveryTime == Ensure("time", AsItIs)
EnsureCmsPage      == Ensure("page", AsItIs)

\* A new group brings its options along.
EnsurePropertyGroup ==
  /\ At("group")
  /\ \/ /\ Found(Call) = {}
        /\ LET options == {c \in {Calls[i] : i \in 1..Len(Calls)} : c.op = "option"}
               id      == CHOOSE f \in [options -> fresh + 1..fresh + Cardinality(options)] :
                            \A c, d \in options : f[c] = f[d] => c = d
           IN  /\ rows' = rows \cup {New(Call)} \cup
                    {[New(c) EXCEPT !.id = id[c], !.under = fresh] : c \in options}
               /\ fresh' = fresh + 1 + Cardinality(options)
        /\ Then(Holding(Call.name, fresh))
     \/ \E r \in Found(Call) : rows' = rows /\ fresh' = fresh /\ Then(Holding(Call.name, r.id))
  /\ UNCHANGED <<orders, keys, integrations, shop, host, unseen>>

EnsureOption == Ensure("option", AsItIs)

\* A unit that is refused is done without.
EnsureUnit ==
  \/ Ensure("unit", AsItIs)
  \/ /\ At("unit") /\ Found(Call) = {} /\ Faulty
     /\ pc' = pc + 1
     /\ UNCHANGED <<last, held, world, runs, staff, stops, unseen>>

\* Of a product that is there only the delivery time is mended.
UpsertProduct == LET Timed(r) == [r EXCEPT !.ref = Held(Call.ref)] IN Ensure("product", Timed)

EnsureExpress == LET Mended(r) == [r EXCEPT !.ref = Held(Call.ref), !.good = TRUE] IN Ensure("express", Mended)

Usable(r) == [r EXCEPT !.good = TRUE]

\* Without a Standard method the script gives up: staff leave it in place here.
ActivateStandard    == Ensure("standard", Usable)
EnsureShippingPrice == Ensure("price", Usable)

\* Standard and Express join what is assigned to the channel.
AssignMethods ==
  /\ At("assign")
  /\ shop' = [shop EXCEPT !.assigned = @ \cup {held["Standard"], held["Express"]}]
  /\ Then(held)
  /\ UNCHANGED <<rows, orders, keys, integrations, host, fresh, unseen>>

EnsureCategory ==
  LET Mended(r) == [r EXCEPT !.good = TRUE, !.ref = IF Call.ref = "none" THEN @ ELSE Held(Call.ref)]
  IN  Ensure("category", Mended)

\* A root the channel names is taken as it is; otherwise one is looked for, or made.
EnsureRoot ==
  \/ /\ At("root")
     /\ LET named == IF Call.name = "Footer" THEN shop.footer ELSE shop.service
        IN  named # 0 /\ Then(Holding(Call.name, named))
     /\ UNCHANGED <<world, unseen>>
  \/ /\ At("root") /\ (IF Call.name = "Footer" THEN shop.footer ELSE shop.service) = 0
     /\ Ensure("root", Usable)

\* Mutant: the channel is patched only by the run that made the roots.
PatchChannelIfMade ==
  /\ At("channel")
  /\ shop' = [shop EXCEPT !.footer = IF held["Footer"] + 2 >= fresh THEN held["Footer"] ELSE @,
                          !.service = IF held["Service"] + 2 >= fresh THEN held["Service"] ELSE @]
  /\ Then(held)
  /\ UNCHANGED <<rows, orders, keys, integrations, host, fresh, unseen>>

PatchChannel ==
  /\ At("channel")
  /\ shop' = [shop EXCEPT !.footer = held["Footer"], !.service = held["Service"]]
  /\ Then(held)
  /\ UNCHANGED <<rows, orders, keys, integrations, host, fresh, unseen>>

----------------------------------------------------------------------------
(* seed_orders.py *)

Transitions(kind) ==
  CASE kind = "completed"      -> <<"paid", "process", "ship", "complete">>
    [] kind = "payment_failed" -> <<"fail">>
    [] kind = "cancelled"      -> <<"cancel transaction", "cancel">>
    [] kind = "in_progress"    -> <<"paid", "process">>
    [] OTHER                   -> <<>>

Settled(o) == o.dated /\ o.moved = Len(Transitions(o.kind))

\* Mutant: the plan is not cut at what exists, every run begins it anew.
CountOrdersAnew ==
  /\ At("count")
  /\ \/ /\ Len(orders) >= Len(Kinds) /\ pc' = pc + 2
        /\ UNCHANGED <<last, held, count>>
     \/ /\ Len(orders) < Len(Kinds) /\ Then(Holding("existing", 0))
  /\ UNCHANGED <<world, unseen>>

\* How many there are decides how much of the plan is left; with enough the script is done.
CountOrders ==
  /\ At("count")
  /\ \/ /\ Len(orders) >= Len(Kinds) /\ pc' = pc + 2
        /\ UNCHANGED <<last, held, count>>
     \/ /\ Len(orders) < Len(Kinds) /\ Then(Holding("existing", Len(orders)))
  /\ UNCHANGED <<world, unseen>>

\* place_guest_order: the order exists, marked, once checkout/order has been performed.
PlaceOrder ==
  /\ At("orders") /\ Held("existing") < Len(Kinds) /\ Held("order") = 0
  /\ orders' = Append(orders, [kind |-> Kinds[held["existing"] + 1], dated |-> FALSE, moved |-> 0])
  /\ Again(Holding("order", Len(orders) + 1))
  /\ UNCHANGED <<rows, keys, integrations, shop, host, fresh, unseen>>

Backdate ==
  /\ At("orders") /\ Held("order") # 0 /\ ~orders[held["order"]].dated
  /\ orders' = [orders EXCEPT ![held["order"]].dated = TRUE]
  /\ Again(held)
  /\ UNCHANGED <<rows, keys, integrations, shop, host, fresh, unseen>>

\* apply_state: one transition after the other; after the last the loop turns.
ApplyState ==
  /\ At("orders") /\ Held("order") # 0
  /\ LET n == held["order"] IN
       /\ orders[n].dated
       /\ IF Settled(orders[n])
          THEN /\ orders' = orders
               /\ held' = [Holding("existing", held["existing"] + 1) EXCEPT !["order"] = 0]
               /\ UNCHANGED <<pc, last, count>>
          ELSE orders' = [orders EXCEPT ![n].moved = @ + 1] /\ Again(held)
  /\ UNCHANGED <<rows, keys, integrations, shop, host, fresh, unseen>>

AllPlaced ==
  /\ At("orders") /\ Held("existing") = Len(Kinds) /\ Held("order") = 0
  /\ pc' = pc + 1
  /\ UNCHANGED <<last, held, world, count, unseen>>

----------------------------------------------------------------------------
(* write_credentials.py, merchant_identity.py *)

WriteCredentials ==
  /\ At("credentials")
  /\ host' = [host EXCEPT !.handoff = held["handoff"]]
  /\ Then(held)
  /\ UNCHANGED <<rows, orders, keys, integrations, shop, fresh, unseen>>

\* The role's privileges are set to the list, whatever they were.
EnsureAclRole == Ensure("role", Usable)

Unknown(i) == host.secret = 0 \/ host.access # i.access

\* Mutant: every run gives the integration a new secret.
EnsureIntegrationAnew ==
  /\ At("integration")
  /\ \/ /\ integrations = {}
        /\ integrations' = {[access |-> fresh, secret |-> fresh, admin |-> FALSE, roles |-> {held["role"]}, allowed |-> FALSE]}
        /\ Then(Noted(Holding("access", fresh), "secret", fresh))
     \/ \E i \in integrations :
          /\ integrations' = {[i EXCEPT !.admin = FALSE, !.roles = @ \cup {held["role"]}, !.secret = fresh]}
          /\ Then(Noted(Holding("access", i.access), "secret", fresh))
  /\ fresh' = fresh + 1
  /\ UNCHANGED <<rows, orders, keys, shop, host, unseen>>

\* A new integration, or the one there: no admin, the role joined, and a new secret if the
\* host's file has none or one of another access key.
EnsureIntegration ==
  /\ At("integration")
  /\ \/ /\ integrations = {}
        /\ integrations' = {[access |-> fresh, secret |-> fresh, admin |-> FALSE, roles |-> {held["role"]}, allowed |-> FALSE]}
        /\ Then(Noted(Holding("access", fresh), "secret", fresh))
     \/ \E i \in integrations :
          /\ integrations' = {[i EXCEPT !.admin = FALSE, !.roles = @ \cup {held["role"]},
                                        !.secret = IF Unknown(i) THEN fresh ELSE @]}
          /\ Then(Noted(Holding("access", i.access), "secret", IF Unknown(i) THEN fresh ELSE host.secret))
  /\ fresh' = fresh + 1
  /\ UNCHANGED <<rows, orders, keys, shop, host, unseen>>

SetAllowlist ==
  /\ At("allowlist")
  /\ integrations' = {[i EXCEPT !.allowed = TRUE] : i \in integrations}
  /\ Then(held)
  /\ UNCHANGED <<rows, orders, keys, shop, host, fresh, unseen>>

WriteEnv ==
  /\ At("env")
  /\ host' = [host EXCEPT !.access = held["access"], !.secret = held["secret"]]
  /\ Then(held)
  /\ UNCHANGED <<rows, orders, keys, integrations, shop, fresh, unseen>>

LetsIn(i) == i.access = host.access /\ i.secret = host.secret

\* The credentials must open the Admin MCP; what is asked of it then writes nothing.
VerifyMcp ==
  /\ At("verify")
  /\ IF \E i \in integrations : LetsIn(i) THEN Then(held) ELSE Stop /\ UNCHANGED faults
  /\ UNCHANGED <<world, unseen>>

----------------------------------------------------------------------------
(* verify_state.py *)

Named(n) == {r \in rows : r.name = n}
Seeded(ops) == {Calls[i].name : i \in {j \in 1..Len(Calls) : Calls[j].op \in ops}}

\* verify_state.py, what verify.sh asks of the shop: one of everything seeded, the roots
\* named, orders enough and one active key.  A category's name counts wherever it stands.
VerifyState ==
  /\ Cardinality(integrations) = 1
  /\ \A n \in Seeded({"role", "product", "time", "page", "express"}) \cup {"AGB", "Kontakt"} :
       Cardinality(Named(n)) = 1
  /\ shop.footer # 0 /\ shop.service # 0
  /\ Len(orders) >= Len(Kinds)
  /\ Cardinality(Active(keys)) = 1

----------------------------------------------------------------------------
(* Between two runs *)

Quiet ==
  /\ pc = 0 /\ staff < MaxStaff
  /\ staff' = staff + 1 /\ last' = "none"
  /\ UNCHANGED <<pc, held, runs, faults, stops, unseen>>

\* What goes with a row that is deleted: the rows below it, and those below them.
Below(r) == {s \in rows : s.under = r.id \/ \E t \in rows : t.under = r.id /\ s.under = t.id}

StaffDelete ==
  /\ Quiet
  /\ \E r \in {s \in rows : s.name # "Standard"} :
       /\ rows' = rows \ ({r} \cup Below(r))
       /\ integrations' = {[i EXCEPT !.roles = @ \ {r.id}] : i \in integrations}
       /\ shop' = [shop EXCEPT !.footer = IF @ = r.id THEN 0 ELSE @, !.service = IF @ = r.id THEN 0 ELSE @,
                               !.assigned = @ \ {r.id}]
  /\ UNCHANGED <<orders, keys, host, fresh>>

\* A method or a category is switched off, a price or the role's privileges are edited.
StaffEdit ==
  /\ Quiet
  /\ \E r \in rows :
       /\ r.good /\ r.name \in {"Standard", "Express", "EUR", "AGB", "role"}
       /\ rows' = (rows \ {r}) \cup {[r EXCEPT !.good = FALSE]}
  /\ UNCHANGED <<orders, keys, integrations, shop, host, fresh>>

\* Another key for the shop; new access keys for the integration, or more rights; the agent's
\* key is lost, and the hosts' requests make the shop remember the agent's profile.
StaffKeys ==
  /\ Quiet
  /\ \/ keys' = keys \cup {[kid |-> "staff", active |-> TRUE]} /\ UNCHANGED <<integrations, shop, host>>
     \/ \E i \in integrations :
          /\ integrations' \in {{[i EXCEPT !.access = fresh, !.secret = fresh]}, {[i EXCEPT !.secret = fresh]},
                               {[i EXCEPT !.admin = TRUE, !.allowed = FALSE]}}
          /\ UNCHANGED <<keys, shop, host>>
     \/ /\ shop' = [shop EXCEPT !.cached = shop.copy] /\ host' = [host EXCEPT !.pem = 0]
        /\ UNCHANGED <<keys, integrations>>
  /\ fresh' = fresh + 1
  /\ UNCHANGED <<rows, orders>>

\* docker compose down -v: a new shop, while the host keeps its files.
DropVolume ==
  /\ Quiet
  /\ rows' = {Standard} /\ orders' = <<>> /\ integrations' = {} /\ keys' \in Shipped
  /\ shop' = NewShop
  /\ UNCHANGED <<host, fresh>>

----------------------------------------------------------------------------
Ucp == \/ HandoffSecret \/ PatchDomains \/ AgentKey \/ WriteProfile \/ CopyProfile
       \/ EnsureConfig \/ SkipUcp \/ ListKeys \/ ListKeysUnread \/ RemoveSurplus \/ PurgeProfiles
Catalog == \/ EnsurePropertyGroup \/ EnsureOption \/ EnsureUnit \/ EnsureDeliveryTime \/ UpsertProduct
           \/ EnsureExpress \/ ActivateStandard \/ EnsureShippingPrice \/ AssignMethods
           \/ EnsureRoot \/ PatchChannel \/ EnsureCategory \/ EnsureCmsPage
Orders == CountOrders \/ PlaceOrder \/ Backdate \/ ApplyState \/ AllPlaced
Credentials == WriteCredentials \/ EnsureAclRole \/ EnsureIntegration \/ SetAllowlist \/ WriteEnv \/ VerifyMcp

Next == \/ Start \/ Fails \/ Finish
        \/ Ucp \/ Catalog \/ Orders \/ Credentials
        \/ StaffDelete \/ StaffEdit \/ StaffKeys \/ DropVolume

Spec == Init /\ [][Next]_vars

----------------------------------------------------------------------------
(* Properties *)

\* One type invariant.
TypeOK ==
  /\ pc \in 0..Len(Calls) + 1 /\ last \in {"none", "stopped", "finished"}
  /\ \A r \in rows : r.id < fresh /\ r.good \in BOOLEAN
  /\ \A k \in keys : k.kid \in {"plugin", "default", "staff"}
  /\ Len(orders) <= Len(Kinds) + stops + MaxRuns

IdOf(n)  == (CHOOSE r \in Named(n) : TRUE).id
Narrow(i) == /\ ~i.admin /\ i.allowed
             /\ \E r \in Named("role") : r.good /\ i.roles = {r.id}

\* The rows refer to each other as seeded, the methods are assigned and priced, and host and
\* shop hold the same secrets and agent key.
InOrder ==
  /\ ~ unseen => VerifyState /\ shop.cached = 0 /\ shop.config
  /\ \A n \in Seeded({"group", "option", "time", "product", "root", "category", "page", "role",
                   "express", "standard"}) :
       Cardinality(Named(n)) = 1
  /\ \A r \in rows : r.good
  /\ \A n \in {"Standard", "Express"} :
       IdOf(n) \in shop.assigned /\ Cardinality({r \in Named("EUR") : r.under = IdOf(n)}) = 1
  /\ \A i \in 1..Len(Products) : Products[i].op = "product" =>
       \A r \in Named(Products[i].name) : r.ref = IdOf("2-4-Tage")
  /\ \A n \in {"AGB", "Kontakt"} : \A r \in Named(n) : r.ref \in {p.id : p \in rows}
  /\ shop.footer = IdOf("Footer") /\ shop.service = IdOf("Service")
  /\ "localhost" \notin shop.domains
  /\ Len(orders) >= Len(Kinds)
  /\ Cardinality(integrations) = 1 /\ \A i \in integrations : LetsIn(i) /\ Narrow(i)
  /\ shop.handoff = host.handoff /\ host.handoff # 0
  /\ shop.copy = host.profile /\ host.profile = host.pem

\* verify_state.py is satisfied whenever a run has come to its end, however many runs stopped
\* on the way and whatever was changed between them, unless a console command failed unseen;
\* and what it does not look at is right too.
FinishedIsVerified == last = "finished" => InOrder

\* A run takes nothing away that works: as long as the hosts' credentials open the shop and
\* both sides share the handoff secret, no step of a run changes that; the shop is never
\* left without a signing key, and a default key stays (ensure_integration,
\* ensure_single_signing_key, bootstrap.sh's reuse of the secret).
HostsAreNotCutOff ==
  [][pc # 0 =>
       /\ (\E i \in integrations : LetsIn(i)) => (\E i \in integrations' : LetsIn(i)')
       /\ (shop.handoff # 0 /\ shop.handoff = host.handoff) => UNCHANGED <<shop.handoff, host.handoff>>
       /\ Active(keys) # {} => Active(keys') # {}
       /\ \A k \in Active(keys) : k.kid = "default" => k \in keys'
       /\ host.pem # 0 => host'.pem = host.pem]_vars

\* The order history is seeded once: the orders are the plan's, in its order, and at most one
\* order for every run that stopped is short of its date or its state.
HistoryIsSeededOnce ==
  /\ Len(orders) <= Len(Kinds)
  /\ \A n \in 1..Len(orders) : orders[n].kind = Kinds[n]
  /\ Cardinality({n \in 1..Len(orders) : ~Settled(orders[n])}) <= stops + (IF At("orders") THEN 1 ELSE 0)

=============================================================================
