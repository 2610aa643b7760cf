--------------------------- MODULE ToolingProofs ---------------------------
(***************************************************************************)
(* Proofs about the programs that run beside the hosts.  ShopBootstrap,    *)
(* for any plan of orders and any number of runs, failures and changes in  *)
(* between: the order history is seeded once, no run takes away what       *)
(* works, and a run that has come to its end leaves everything as seeded.  *)
(* EvalRuns, for any cases, agents and failures: a green run is safe.      *)
(***************************************************************************)
EXTENDS ShopBootstrap, EvalRuns, FiniteSetTheorems, SequenceTheorems, TLAPS

-----------------------------------------------------------------------------
(* The list of calls is put together from six; what is at each place of it. *)

First == << Do("handoff"), Do("domain"), Do("pem"), Do("profile"), Do("copy"),
            Do("config"), Do("keys"), Do("surplus"), Do("purge") >>
Middle == << Do("count"), Do("orders"), Do("credentials") >>

\* The operations of a run, in order.
Steps ==
  << "handoff", "domain", "pem", "profile", "copy", "config", "keys", "surplus", "purge",
     "group", "option", "option", "unit", "time", "product", "product", "product", "product",
     "time", "express", "standard", "price", "price", "assign",
     "root", "root", "channel", "category", "page", "category", "page", "category",
     "count", "orders", "credentials", "role", "integration", "allowlist", "env", "verify" >>

\* A list of n entries, and one list after another.
IsList(S, s, n) == s \in Seq(S) /\ Len(s) = n
Follow(s, m, t, n) ==
  /\ \A i \in 1 .. m : (s \o t)[i] = s[i]
  /\ \A i \in 1 .. n : (s \o t)[m + i] = t[i]

\* The places of a list put together from two.
LEMMA Joined ==
  ASSUME NEW S, NEW s, NEW t, NEW m \in Nat, NEW n \in Nat, IsList(S, s, m), IsList(S, t, n)
  PROVE  IsList(S, s \o t, m + n) /\ Follow(s, m, t, n)
<1>1. s \in Seq(S) /\ t \in Seq(S) /\ Len(s) = m /\ Len(t) = n
  BY DEF IsList
<1>2. IsList(S, s \o t, m + n)
  BY <1>1 DEF IsList
<1>3. \A i \in 1 .. m + n : (s \o t)[i] = IF i <= m THEN s[i] ELSE t[i - m]
  BY <1>1, ConcatProperties
<1>4. ASSUME NEW i \in 1 .. n PROVE m + i \in 1 .. m + n /\ ~(m + i <= m) /\ (m + i) - m = i
  OBVIOUS
<1>5. ASSUME NEW i \in 1 .. m PROVE i \in 1 .. m + n /\ i <= m
  OBVIOUS
<1> QED BY <1>2, <1>3, <1>4, <1>5 DEF Follow

\* The six lists and their lengths.
LEMMA Parts ==
  LET Entries(s, n) == {s[i] : i \in 1 .. n} IN
  \A S : /\ Entries(First, 9) \subseteq S => IsList(S, First, 9)
         /\ Entries(Products, 9) \subseteq S => IsList(S, Products, 9)
         /\ Entries(Shipping, 6) \subseteq S => IsList(S, Shipping, 6)
         /\ Entries(Policies, 8) \subseteq S => IsList(S, Policies, 8)
         /\ Entries(Middle, 3) \subseteq S => IsList(S, Middle, 3)
         /\ Entries(Identity, 5) \subseteq S => IsList(S, Identity, 5)
<1>0. ASSUME NEW S, NEW s, NEW n \in Nat, s = [i \in 1 .. n |-> s[i]],
             {s[i] : i \in 1 .. n} \subseteq S
      PROVE  IsList(S, s, n)
  BY <1>0 DEF IsList
<1>1. First = [i \in 1 .. 9 |-> First[i]]
  BY DEF First
<1>2. Products = [i \in 1 .. 9 |-> Products[i]]
  BY DEF Products
<1>3. Shipping = [i \in 1 .. 6 |-> Shipping[i]]
  BY DEF Shipping
<1>4. Policies = [i \in 1 .. 8 |-> Policies[i]]
  BY DEF Policies
<1>5. Middle = [i \in 1 .. 3 |-> Middle[i]]
  BY DEF Middle
<1>6. Identity = [i \in 1 .. 5 |-> Identity[i]]
  BY DEF Identity
<1> QED BY <1>0, <1>1, <1>2, <1>3, <1>4, <1>5, <1>6

\* Where the six lists lie in Calls.
LEMMA CallList ==
  /\ Len(Calls) = 40
  /\ \A i \in 1 .. 9 : Calls[i] = First[i] /\ Calls[9 + i] = Products[i]
  /\ \A i \in 1 .. 6 : Calls[18 + i] = Shipping[i]
  /\ \A i \in 1 .. 8 : Calls[24 + i] = Policies[i]
  /\ \A i \in 1 .. 3 : Calls[32 + i] = Middle[i]
  /\ \A i \in 1 .. 5 : Calls[35 + i] = Identity[i]
<1> DEFINE S == {First[i] : i \in 1 .. 9} \cup {Products[i] : i \in 1 .. 9}
                  \cup {Shipping[i] : i \in 1 .. 6} \cup {Policies[i] : i \in 1 .. 8}
                  \cup {Middle[i] : i \in 1 .. 3} \cup {Identity[i] : i \in 1 .. 5}
           a == First \o Products  b == a \o Shipping  c == b \o Policies  d == c \o Middle
<1>1. /\ IsList(S, First, 9) /\ IsList(S, Products, 9) /\ IsList(S, Shipping, 6)
      /\ IsList(S, Policies, 8) /\ IsList(S, Middle, 3) /\ IsList(S, Identity, 5)
  BY Parts
<1> HIDE DEF S
<1>2. IsList(S, a, 9 + 9) /\ Follow(First, 9, Products, 9)
  BY <1>1, Joined
<1>3. IsList(S, b, 18 + 6) /\ Follow(a, 18, Shipping, 6)
  BY <1>1, <1>2, Joined
<1>4. IsList(S, c, 24 + 8) /\ Follow(b, 24, Policies, 8)
  BY <1>1, <1>3, Joined
<1>5. IsList(S, d, 32 + 3) /\ Follow(c, 32, Middle, 3)
  BY <1>1, <1>4, Joined
<1>6. IsList(S, Calls, 35 + 5) /\ Follow(d, 35, Identity, 5)
  <2>1. Calls = d \o Identity
    BY DEF Calls, First, Middle
  <2> HIDE DEF d
  <2> QED BY <1>1, <1>5, <2>1, Joined
<1>7. Calls = d \o Identity
  BY DEF Calls, First, Middle
<1>8. /\ \A i \in 1 .. 9 : a[i] = First[i] /\ a[9 + i] = Products[i]
      /\ \A i \in 1 .. 18 : b[i] = a[i]
      /\ \A i \in 1 .. 6 : b[18 + i] = Shipping[i]
      /\ \A i \in 1 .. 24 : c[i] = b[i]
      /\ \A i \in 1 .. 8 : c[24 + i] = Policies[i]
      /\ \A i \in 1 .. 32 : d[i] = c[i]
      /\ \A i \in 1 .. 3 : d[32 + i] = Middle[i]
      /\ \A i \in 1 .. 35 : Calls[i] = d[i]
      /\ \A i \in 1 .. 5 : Calls[35 + i] = Identity[i]
  BY <1>2, <1>3, <1>4, <1>5, <1>6, <1>7 DEF Follow
<1> HIDE DEF a, b, c, d
<1>9. /\ \A i \in 1 .. 9 : i \in 1 .. 18 /\ 9 + i \in 1 .. 18
      /\ \A i \in 1 .. 18 : i \in 1 .. 24 /\ i \in 1 .. 32 /\ i \in 1 .. 35
      /\ \A i \in 1 .. 6 : 18 + i \in 1 .. 24 /\ 18 + i \in 1 .. 32 /\ 18 + i \in 1 .. 35
      /\ \A i \in 1 .. 8 : 24 + i \in 1 .. 32 /\ 24 + i \in 1 .. 35
      /\ \A i \in 1 .. 3 : 32 + i \in 1 .. 35
  OBVIOUS
<1>10. Len(Calls) = 40
  BY <1>6 DEF IsList
<1> QED BY <1>8, <1>9, <1>10

\* Names a script holds ids under that no row has.
Reserved == {"handoff", "keep", "existing", "order", "access", "secret"}

RowCalls == {"group", "option", "unit", "time", "product", "express", "standard", "price", "root",
             "category", "page", "role"}

Sound(c, op) == c.op = op /\ (op \in RowCalls => c.name \notin Reserved)

\* The operation at each place; no row goes by a name a script holds something else under.
LEMMA StepList == \A i \in 1 .. 40 : Sound(Calls[i], Steps[i])
<1>1. \A i \in 1 .. 9 : Sound(First[i], Steps[i])
  <2>1. Sound(First[1], Steps[1])
    BY DEF First, Steps, Do, Row, Sound, RowCalls, Reserved
  <2>2. Sound(First[2], Steps[2])
    BY DEF First, Steps, Do, Row, Sound, RowCalls, Reserved
  <2>3. Sound(First[3], Steps[3])
    BY DEF First, Steps, Do, Row, Sound, RowCalls, Reserved
  <2>4. Sound(First[4], Steps[4])
    BY DEF First, Steps, Do, Row, Sound, RowCalls, Reserved
  <2>5. Sound(First[5], Steps[5])
    BY DEF First, Steps, Do, Row, Sound, RowCalls, Reserved
  <2>6. Sound(First[6], Steps[6])
    BY DEF First, Steps, Do, Row, Sound, RowCalls, Reserved
  <2>7. Sound(First[7], Steps[7])
    BY DEF First, Steps, Do, Row, Sound, RowCalls, Reserved
  <2>8. Sound(First[8], Steps[8])
    BY DEF First, Steps, Do, Row, Sound, RowCalls, Reserved
  <2>9. Sound(First[9], Steps[9])
    BY DEF First, Steps, Do, Row, Sound, RowCalls, Reserved
  <2> QED BY <2>1, <2>2, <2>3, <2>4, <2>5, <2>6, <2>7, <2>8, <2>9
<1>2. \A i \in 1 .. 9 : Sound(Products[i], Steps[9 + i])
  <2>1. Sound(Products[1], Steps[10])
    BY DEF Products, Steps, Do, Row, Sound, RowCalls, Reserved
  <2>2. Sound(Products[2], Steps[11])
    BY DEF Products, Steps, Do, Row, Sound, RowCalls, Reserved
  <2>3. Sound(Products[3], Steps[12])
    BY DEF Products, Steps, Do, Row, Sound, RowCalls, Reserved
  <2>4. Sound(Products[4], Steps[13])
    BY DEF Products, Steps, Do, Row, Sound, RowCalls, Reserved
  <2>5. Sound(Products[5], Steps[14])
    BY DEF Products, Steps, Do, Row, Sound, RowCalls, Reserved
  <2>6. Sound(Products[6], Steps[15])
    BY DEF Products, Steps, Do, Row, Sound, RowCalls, Reserved
  <2>7. Sound(Products[7], Steps[16])
    BY DEF Products, Steps, Do, Row, Sound, RowCalls, Reserved
  <2>8. Sound(Products[8], Steps[17])
    BY DEF Products, Steps, Do, Row, Sound, RowCalls, Reserved
  <2>9. Sound(Products[9], Steps[18])
    BY DEF Products, Steps, Do, Row, Sound, RowCalls, Reserved
  <2> QED BY <2>1, <2>2, <2>3, <2>4, <2>5, <2>6, <2>7, <2>8, <2>9
<1>3. \A i \in 1 .. 6 : Sound(Shipping[i], Steps[18 + i])
  <2>1. Sound(Shipping[1], Steps[19])
    BY DEF Shipping, Steps, Do, Row, Sound, RowCalls, Reserved
  <2>2. Sound(Shipping[2], Steps[20])
    BY DEF Shipping, Steps, Do, Row, Sound, RowCalls, Reserved
  <2>3. Sound(Shipping[3], Steps[21])
    BY DEF Shipping, Steps, Do, Row, Sound, RowCalls, Reserved
  <2>4. Sound(Shipping[4], Steps[22])
    BY DEF Shipping, Steps, Do, Row, Sound, RowCalls, Reserved
  <2>5. Sound(Shipping[5], Steps[23])
    BY DEF Shipping, Steps, Do, Row, Sound, RowCalls, Reserved
  <2>6. Sound(Shipping[6], Steps[24])
    BY DEF Shipping, Steps, Do, Row, Sound, RowCalls, Reserved
  <2> QED BY <2>1, <2>2, <2>3, <2>4, <2>5, <2>6
<1>4. \A i \in 1 .. 8 : Sound(Policies[i], Steps[24 + i])
  <2>1. Sound(Policies[1], Steps[25])
    BY DEF Policies, Steps, Do, Row, Sound, RowCalls, Reserved
  <2>2. Sound(Policies[2], Steps[26])
    BY DEF Policies, Steps, Do, Row, Sound, RowCalls, Reserved
  <2>3. Sound(Policies[3], Steps[27])
    BY DEF Policies, Steps, Do, Row, Sound, RowCalls, Reserved
  <2>4. Sound(Policies[4], Steps[28])
    BY DEF Policies, Steps, Do, Row, Sound, RowCalls, Reserved
  <2>5. Sound(Policies[5], Steps[29])
    BY DEF Policies, Steps, Do, Row, Sound, RowCalls, Reserved
  <2>6. Sound(Policies[6], Steps[30])
    BY DEF Policies, Steps, Do, Row, Sound, RowCalls, Reserved
  <2>7. Sound(Policies[7], Steps[31])
    BY DEF Policies, Steps, Do, Row, Sound, RowCalls, Reserved
  <2>8. Sound(Policies[8], Steps[32])
    BY DEF Policies, Steps, Do, Row, Sound, RowCalls, Reserved
  <2> QED BY <2>1, <2>2, <2>3, <2>4, <2>5, <2>6, <2>7, <2>8
<1>5. \A i \in 1 .. 3 : Sound(Middle[i], Steps[32 + i])
  <2>1. Sound(Middle[1], Steps[33])
    BY DEF Middle, Steps, Do, Row, Sound, RowCalls, Reserved
  <2>2. Sound(Middle[2], Steps[34])
    BY DEF Middle, Steps, Do, Row, Sound, RowCalls, Reserved
  <2>3. Sound(Middle[3], Steps[35])
    BY DEF Middle, Steps, Do, Row, Sound, RowCalls, Reserved
  <2> QED BY <2>1, <2>2, <2>3
<1>6. \A i \in 1 .. 5 : Sound(Identity[i], Steps[35 + i])
  <2>1. Sound(Identity[1], Steps[36])
    BY DEF Identity, Steps, Do, Row, Sound, RowCalls, Reserved
  <2>2. Sound(Identity[2], Steps[37])
    BY DEF Identity, Steps, Do, Row, Sound, RowCalls, Reserved
  <2>3. Sound(Identity[3], Steps[38])
    BY DEF Identity, Steps, Do, Row, Sound, RowCalls, Reserved
  <2>4. Sound(Identity[4], Steps[39])
    BY DEF Identity, Steps, Do, Row, Sound, RowCalls, Reserved
  <2>5. Sound(Identity[5], Steps[40])
    BY DEF Identity, Steps, Do, Row, Sound, RowCalls, Reserved
  <2> QED BY <2>1, <2>2, <2>3, <2>4, <2>5
<1>7. \A i \in 1 .. 40 : \/ i \in 1 .. 9
                         \/ \E j \in 1 .. 9 : i = 9 + j
                         \/ \E j \in 1 .. 6 : i = 18 + j
                         \/ \E j \in 1 .. 8 : i = 24 + j
                         \/ \E j \in 1 .. 3 : i = 32 + j
                         \/ \E j \in 1 .. 5 : i = 35 + j
  OBVIOUS
<1> QED BY <1>1, <1>2, <1>3, <1>4, <1>5, <1>6, <1>7, CallList

-----------------------------------------------------------------------------
(* The invariant. *)

Order == [kind: STRING, dated: BOOLEAN, moved: Nat]

\* The records keep their fields.
ShopShape ==
  shop = [handoff |-> shop.handoff, domains |-> shop.domains, copy |-> shop.copy,
          cached |-> shop.cached, config |-> shop.config, footer |-> shop.footer,
          service |-> shop.service, assigned |-> shop.assigned]

HostShape ==
  host = [handoff |-> host.handoff, access |-> host.access, secret |-> host.secret,
          pem |-> host.pem, profile |-> host.profile]

Used(n) == n \in Nat /\ n < fresh

IsIntegration(i) ==
  /\ i = [access |-> i.access, secret |-> i.secret, admin |-> i.admin, roles |-> i.roles,
          allowed |-> i.allowed]
  /\ Used(i.access) /\ Used(i.secret) /\ i.secret # 0

\* What host and shop know each other by has been given out, and there is one integration.
KeysAreUsed ==
  /\ fresh \in Nat /\ fresh >= 2
  /\ ShopShape /\ HostShape
  /\ Used(host.access) /\ Used(host.secret)
  /\ \A i \in integrations : IsIntegration(i)
  /\ \A i, j \in integrations : i = j

InRange == pc \in 0 .. 41 /\ stops \in Nat

\* Nothing is held between two runs.
HeldInRuns == pc = 0 => DOMAIN held = {}

\* What the hosts' file is about to name is what it names, if that opens the shop.
CredentialsInHand ==
  pc \in {38, 39} =>
    /\ {"access", "secret"} \subseteq DOMAIN held
    /\ Used(held["access"]) /\ Used(held["secret"])
    /\ (\E i \in integrations : LetsIn(i)) =>
         held["access"] = host.access /\ held["secret"] = host.secret

\* A run holds the secret that the shop has.
SecretInHand ==
  pc >= 2 => "handoff" \in DOMAIN held /\ held["handoff"] = shop.handoff

\* The key to keep is an active one, the default one if there is one.
KeyInHand ==
  pc = 8 =>
    /\ "keep" \in DOMAIN held
    /\ \E k \in Active(keys) : k.kid = held["keep"]
    /\ (\E k \in Active(keys) : k.kid = "default") => held["keep"] = "default"

\* The orders are the plan's.
OrdersAsPlanned ==
  /\ orders \in Seq(Order) /\ Len(orders) <= Len(Kinds)
  /\ \A n \in 1 .. Len(orders) : orders[n].kind = Kinds[n]

\* The order in hand is the last one; only the step that seeds them has one in hand.
OrderInHand ==
  IF pc = 34
  THEN /\ "existing" \in DOMAIN held
       /\ Held("order") = 0 => held["existing"] = Len(orders)
       /\ Held("order") # 0 => /\ "order" \in DOMAIN held /\ held["order"] = Len(orders)
                              /\ held["existing"] + 1 = Len(orders) /\ held["existing"] \in Nat
  ELSE Held("order") = 0

\* Orders short of their date or state, but for the one in hand: one for a run that stopped.
Short(n) == {m \in 1 .. Len(orders) : ~Settled(orders[m]) /\ m # n}
ShortOfStops == Cardinality(Short(Held("order"))) <= stops

BootInv ==
  /\ InRange /\ KeysAreUsed /\ HeldInRuns /\ CredentialsInHand /\ SecretInHand
  /\ KeyInHand /\ OrdersAsPlanned /\ OrderInHand /\ ShortOfStops

-----------------------------------------------------------------------------
(* How a step leaves the run. *)

\* What the run holds under the names that no row has.
KeepsHeld(h) ==
  \A n \in Reserved : (n \in DOMAIN h <=> n \in DOMAIN held) /\ (n \in DOMAIN held => h[n] = held[n])

Stopped == pc' = 0 /\ DOMAIN held' = {} /\ stops' = stops + 1

\* The run stays, or goes to a step that asks for nothing in hand.
Goes ==
  /\ KeepsHeld(held') /\ stops' = stops
  /\ shop'.handoff = shop.handoff
  /\ pc = 34 /\ pc' # 34 => Held("order") = 0
  /\ \/ pc' = pc /\ pc >= 2 /\ keys' = keys /\ integrations' = integrations /\ host' = host
     \/ pc \in 2 .. 40 /\ pc' \in 2 .. 41 /\ pc' \notin {8, 34, 38, 39}
     \/ /\ pc = 38 /\ pc' = 39 /\ host' = host
        /\ (\E i \in integrations' : LetsIn(i)) => (\E i \in integrations : LetsIn(i))

\* A run at an operation is at one of its places.
LEMMA AtStep ==
  ASSUME NEW op, At(op)
  PROVE  pc \in 1 .. 40 /\ Steps[pc] = op /\ Sound(Call, op)
BY StepList, CallList DEF At, Call, Sound

\* The forty places, one by one.
LEMMA Forty ==
  \A p \in 1 .. 40 :
    \/ p = 1 \/ p = 2 \/ p = 3 \/ p = 4 \/ p = 5 \/ p = 6 \/ p = 7 \/ p = 8 \/ p = 9 \/ p = 10
    \/ p = 11 \/ p = 12 \/ p = 13 \/ p = 14 \/ p = 15 \/ p = 16 \/ p = 17 \/ p = 18 \/ p = 19
    \/ p = 20 \/ p = 21 \/ p = 22 \/ p = 23 \/ p = 24 \/ p = 25 \/ p = 26 \/ p = 27 \/ p = 28
    \/ p = 29 \/ p = 30 \/ p = 31 \/ p = 32 \/ p = 33 \/ p = 34 \/ p = 35 \/ p = 36 \/ p = 37
    \/ p = 38 \/ p = 39 \/ p = 40
OBVIOUS

\* The places of the operations that are spoken of.
LEMMA Places ==
  /\ Steps[1] = "handoff" /\ Steps[7] = "keys" /\ Steps[8] = "surplus" /\ Steps[10] = "group"
  /\ Steps[33] = "count" /\ Steps[34] = "orders" /\ Steps[35] = "credentials"
  /\ Steps[37] = "integration" /\ Steps[38] = "allowlist" /\ Steps[39] = "env"
  /\ \A p \in 1 .. 40 : /\ Steps[p] = "handoff" => p = 1
                        /\ Steps[p] = "config" => p = 6
                        /\ Steps[p] = "purge" => p = 9
                        /\ Steps[p] = "keys" => p = 7
                        /\ Steps[p] = "surplus" => p = 8
                        /\ Steps[p] = "group" => p = 10
                        /\ Steps[p] = "count" => p = 33
                        /\ Steps[p] = "orders" => p = 34
                        /\ Steps[p] = "credentials" => p = 35
                        /\ Steps[p] = "integration" => p = 37
                        /\ Steps[p] = "allowlist" => p = 38
                        /\ Steps[p] = "env" => p = 39
BY Forty DEF Steps

\* Skipping UCP leads to the property group.
LEMMA GroupIsTenth == (CHOOSE i \in 1 .. Len(Calls) : Calls[i].op = "group") = 10
<1> DEFINE g == CHOOSE i \in 1 .. Len(Calls) : Calls[i].op = "group"
<1>1. 10 \in 1 .. Len(Calls) /\ Calls[10].op = "group"
  BY StepList, CallList, Places DEF Sound
<1>2. g \in 1 .. Len(Calls) /\ Calls[g].op = "group"
  BY <1>1
<1> HIDE DEF g
<1>3. g \in 1 .. 40 /\ Steps[g] = "group"
  BY <1>2, StepList, CallList DEF Sound
<1>4. g = 10
  BY <1>3, Places
<1> QED BY <1>4 DEF g

-----------------------------------------------------------------------------
(* Each operation: how it leaves the run, and what it writes. *)

\* The rows of the shop are seen to, and nothing else is written.
Filed ==
  /\ orders' = orders /\ keys' = keys /\ integrations' = integrations /\ host' = host
  /\ shop'.handoff = shop.handoff /\ ShopShape'
  /\ fresh' \in Nat /\ fresh' >= fresh
  /\ Stopped \/ Goes

\* Holding a row's id keeps what is held otherwise.
LEMMA HoldingRow ==
  ASSUME NEW n, n \notin Reserved, NEW id
  PROVE  KeepsHeld(Holding(n, id))
BY DEF KeepsHeld, Holding, Noted

\* A step that goes on to the next one, or stops.
LEMMA ThenGoes ==
  ASSUME InRange, NEW h, Past(1, h), KeepsHeld(h), pc \in 2 .. 40, pc \notin {7, 33, 34, 37, 38},
         shop'.handoff = shop.handoff
  PROVE  Stopped \/ Goes
<1>1. CASE Stop
  BY <1>1 DEF Stop, Stopped
<1>2. CASE pc' = pc + 1 /\ held' = h /\ stops' = stops
  <2>1. pc + 1 \in 2 .. 41 /\ pc + 1 \notin {8, 34, 38, 39} /\ pc # 34
    OBVIOUS
  <2> QED BY <1>2, <2>1 DEF Goes
<1> QED BY <1>1, <1>2 DEF Past, count

\* Looking for a row, then writing it, is filing.
LEMMA EnsureFiles ==
  ASSUME BootInv, NEW op, At(op), op \in RowCalls,
         shop' = shop, keys' = keys, orders' = orders, integrations' = integrations, host' = host,
         fresh' \in Nat, fresh' >= fresh,
         NEW id, Then(Holding(Call.name, id))
  PROVE  Filed
<1>1. pc \in 1 .. 40 /\ Steps[pc] = op /\ Call.name \notin Reserved
  BY AtStep DEF Sound
<1>2. pc \notin {1, 7, 33, 34, 37, 38}
  BY <1>1, Places DEF RowCalls
<1>3. KeepsHeld(Holding(Call.name, id))
  BY <1>1, HoldingRow
<1>4. Stopped \/ Goes
  BY <1>1, <1>2, <1>3, ThenGoes DEF Then, BootInv
<1> QED BY <1>4 DEF Filed, BootInv, KeysAreUsed, ShopShape

\* So do all operations that see to a row.
LEMMA RowsAreFiled ==
  ASSUME BootInv,
         \/ EnsureOption \/ EnsureUnit \/ EnsureDeliveryTime \/ UpsertProduct
         \/ EnsureExpress \/ ActivateStandard \/ EnsureShippingPrice
         \/ EnsureRoot \/ EnsureCategory \/ EnsureCmsPage \/ EnsureAclRole
  PROVE  Filed
<1> DEFINE Looked(op) ==
      /\ At(op) /\ op \in RowCalls
      /\ shop' = shop /\ keys' = keys /\ orders' = orders /\ integrations' = integrations /\ host' = host
      /\ fresh' \in {fresh, fresh + 1}
      /\ \E id : Then(Holding(Call.name, id))
<1>0. fresh \in Nat
  BY DEF BootInv, KeysAreUsed
<1>1. ASSUME NEW op, Looked(op) PROVE Filed
  BY <1>0, <1>1, EnsureFiles
<1>2. CASE EnsureOption
  <2>1. Looked("option")
    BY <1>2 DEF EnsureOption, Ensure, AsItIs, RowCalls
  <2> QED BY <1>1, <2>1
<1>3. CASE EnsureUnit
  <2>1. CASE Ensure("unit", AsItIs)
    <3>1. Looked("unit")
      BY <2>1 DEF Ensure, AsItIs, RowCalls
    <3> QED BY <1>1, <3>1
  <2>2. CASE /\ At("unit") /\ Found(Call) = {} /\ Faulty
             /\ pc' = pc + 1
             /\ UNCHANGED <<last, held, world, runs, staff, stops, unseen>>
    <3>1. pc \in 1 .. 40 /\ pc \notin {1, 7, 33, 34, 37, 38}
      BY <2>2, AtStep, Places
    <3> QED BY <2>2, <3>1, <1>0 DEF world, Filed, Goes, KeepsHeld, BootInv, KeysAreUsed, ShopShape
  <2> QED BY <1>3, <2>1, <2>2 DEF EnsureUnit
<1>4. CASE EnsureDeliveryTime
  <2>1. Looked("time")
    BY <1>4 DEF EnsureDeliveryTime, Ensure, AsItIs, RowCalls
  <2> QED BY <1>1, <2>1
<1>5. CASE UpsertProduct
  <2>1. Looked("product")
    BY <1>5 DEF UpsertProduct, Ensure, RowCalls
  <2> QED BY <1>1, <2>1
<1>6. CASE EnsureExpress
  <2>1. Looked("express")
    BY <1>6 DEF EnsureExpress, Ensure, RowCalls
  <2> QED BY <1>1, <2>1
<1>7. CASE ActivateStandard
  <2>1. Looked("standard")
    BY <1>7 DEF ActivateStandard, Ensure, Usable, RowCalls
  <2> QED BY <1>1, <2>1
<1>8. CASE EnsureShippingPrice
  <2>1. Looked("price")
    BY <1>8 DEF EnsureShippingPrice, Ensure, Usable, RowCalls
  <2> QED BY <1>1, <2>1
<1>9. CASE EnsureRoot
  <2>1. Looked("root")
    BY <1>9 DEF EnsureRoot, Ensure, Usable, RowCalls, world
  <2> QED BY <1>1, <2>1
<1>10. CASE EnsureCategory
  <2>1. Looked("category")
    BY <1>10 DEF EnsureCategory, Ensure, RowCalls
  <2> QED BY <1>1, <2>1
<1>11. CASE EnsureCmsPage
  <2>1. Looked("page")
    BY <1>11 DEF EnsureCmsPage, Ensure, AsItIs, RowCalls
  <2> QED BY <1>1, <2>1
<1>12. CASE EnsureAclRole
  <2>1. Looked("role")
    BY <1>12 DEF EnsureAclRole, Ensure, Usable, RowCalls
  <2> QED BY <1>1, <2>1
<1> QED BY <1>2, <1>3, <1>4, <1>5, <1>6, <1>7, <1>8, <1>9, <1>10, <1>11, <1>12

\* And the property group with its options.
LEMMA GroupIsFiled == ASSUME BootInv, EnsurePropertyGroup PROVE Filed
<1> DEFINE options == {c \in {Calls[i] : i \in 1 .. Len(Calls)} : c.op = "option"}
<1>1. Cardinality(options) \in Nat
  <2>1. IsFiniteSet(1 .. 40)
    <3>1. 1 .. 40 \in SUBSET Nat /\ \A n \in 1 .. 40 : n <= 40
      OBVIOUS
    <3> QED BY <3>1, FS_BoundedSetOfNaturals
  <2> DEFINE e == [i \in 1 .. 40 |-> Calls[i]]  all == {Calls[i] : i \in 1 .. 40}
  <2>2. all = {e[i] : i \in 1 .. 40}
    OBVIOUS
  <2>3. e \in Surjection(1 .. 40, all)
    BY DEF Surjection
  <2>4. IsFiniteSet(all)
    BY <2>1, <2>3, FS_Surjection
  <2>5. options \subseteq all
    BY CallList
  <2> QED BY <2>4, <2>5, FS_Subset, FS_CardinalityType
<1> HIDE DEF options
<1>2. \/ fresh' = fresh + 1 + Cardinality(options)
      \/ fresh' = fresh
  BY DEF EnsurePropertyGroup, options
<1>3. fresh' \in Nat /\ fresh' >= fresh
  BY <1>1, <1>2 DEF BootInv, KeysAreUsed
<1>4. /\ At("group") /\ "group" \in RowCalls
      /\ \E id : Then(Holding(Call.name, id))
      /\ UNCHANGED <<orders, keys, integrations, shop, host>>
  BY DEF EnsurePropertyGroup, RowCalls
<1> QED BY <1>3, <1>4, EnsureFiles

-----------------------------------------------------------------------------
(* What a step of a run may not take away. *)

StillLetIn == (\E i \in integrations : LetsIn(i)) => (\E i \in integrations' : LetsIn(i)')
StillShared ==
  (shop.handoff # 0 /\ shop.handoff = host.handoff) => UNCHANGED <<shop.handoff, host.handoff>>
StillSigned ==
  /\ Active(keys) # {} => Active(keys') # {}
  /\ \A k \in Active(keys) : k.kid = "default" => k \in keys'
StillKnown == host.pem # 0 => host'.pem = host.pem

NotCutOff == StillLetIn /\ StillShared /\ StillSigned /\ StillKnown

\* A step that leaves the orders alone and goes on, or stops.
Plain == orders' = orders /\ fresh' >= fresh /\ KeysAreUsed' /\ (Stopped \/ Goes)

\* What has been given out stays given out.
LEMMA UsedGrows ==
  ASSUME KeysAreUsed, fresh' \in Nat, fresh' >= fresh, integrations' = integrations,
         host'.access = host.access, host'.secret = host.secret, HostShape', ShopShape'
  PROVE  KeysAreUsed'
<1>1. \A n : Used(n) => Used(n)'
  BY DEF Used, KeysAreUsed
<1>2. fresh' >= 2
  BY DEF KeysAreUsed
<1> QED BY <1>1, <1>2 DEF KeysAreUsed, IsIntegration

\* Credentials that are left alone open what they opened.
LEMMA KeysOnly ==
  ASSUME integrations' = integrations, host'.access = host.access, host'.secret = host.secret
  PROVE  StillLetIn
BY DEF StillLetIn, LetsIn

\* Keys that are left alone sign.
LEMMA SameKeys == ASSUME keys' = keys PROVE StillSigned
BY DEF StillSigned, Active

\* Filing rows leaves the rest alone.
LEMMA FiledIsPlain == ASSUME BootInv, Filed PROVE Plain /\ NotCutOff
<1>1. KeysAreUsed'
  <2>1. HostShape'
    BY DEF Filed, BootInv, KeysAreUsed, HostShape
  <2> QED BY <2>1, UsedGrows DEF Filed, BootInv
<1>2. StillLetIn
  BY KeysOnly DEF Filed
<1>3. StillShared /\ StillSigned /\ StillKnown
  BY SameKeys DEF Filed, StillShared, StillKnown
<1> QED BY <1>1, <1>2, <1>3 DEF Filed, Plain, NotCutOff

\* The other operations that ask for nothing in hand.
LEMMA PlainSteps ==
  ASSUME BootInv,
         \/ PatchDomains \/ AgentKey \/ WriteProfile \/ CopyProfile \/ EnsureConfig \/ SkipUcp
         \/ PurgeProfiles \/ AssignMethods \/ PatchChannel \/ WriteCredentials
         \/ Fails \/ VerifyMcp
  PROVE  Plain /\ NotCutOff
<1>0. /\ InRange /\ fresh \in Nat /\ ShopShape /\ HostShape /\ KeysAreUsed
      /\ SecretInHand /\ OrderInHand
  BY DEF BootInv, KeysAreUsed
<1>1. KeepsHeld(held)
  BY DEF KeepsHeld
<1>2. ASSUME NEW op \in {"domain", "pem", "profile", "copy", "config", "purge", "assign", "channel",
                         "credentials", "verify"},
             At(op), Then(held), shop'.handoff = shop.handoff
      PROVE  Stopped \/ Goes
  <2>1. pc \in 1 .. 40 /\ Steps[pc] = op
    BY <1>2, AtStep
  <2>2. pc \notin {1, 7, 33, 34, 37, 38}
    BY <1>2, <2>1, Places
  <2> QED BY <1>0, <1>1, <1>2, <2>1, <2>2, ThenGoes DEF Then
<1>3. CASE PatchDomains
  <2>1. pc \in 2 .. 40 /\ pc # 34
    BY <1>3, AtStep, Places DEF PatchDomains
  <2>2. ShopShape' /\ shop'.handoff = shop.handoff
    BY <1>0, <1>3 DEF PatchDomains, ShopShape
  <2>3. Again(held) \/ Then(held)
    BY <1>3 DEF PatchDomains
  <2>4. Stopped \/ Goes
    <3>1. CASE Then(held)
      BY <1>2, <1>3, <2>2, <3>1 DEF PatchDomains
    <3>2. CASE Again(held)
      <4>1. CASE Stop
        BY <4>1 DEF Stop, Stopped
      <4>2. CASE held' = held /\ pc' = pc /\ stops' = stops
        BY <1>1, <1>3, <2>1, <2>2, <4>2 DEF Goes, PatchDomains
      <4> QED BY <3>2, <4>1, <4>2 DEF Again, count
    <3> QED BY <2>3, <3>1, <3>2
  <2>5. UNCHANGED <<orders, keys, integrations, host, fresh>>
    BY <1>3 DEF PatchDomains
  <2>6. KeysAreUsed'
    BY <1>0, <2>2, <2>5, UsedGrows DEF HostShape
  <2>7. NotCutOff
    BY <2>2, <2>5, KeysOnly, SameKeys DEF NotCutOff, StillShared, StillKnown
  <2> QED BY <1>0, <2>4, <2>5, <2>6, <2>7 DEF Plain
<1>4. CASE AgentKey \/ WriteProfile
  <2>1. /\ At("pem") \/ At("profile")
        /\ Then(held)
        /\ UNCHANGED <<orders, keys, integrations, shop>>
        /\ fresh' \in Nat /\ fresh' >= fresh
    BY <1>0, <1>4 DEF AgentKey, WriteProfile
  <2>2. /\ host'.access = host.access /\ host'.secret = host.secret
        /\ host'.handoff = host.handoff
        /\ (host.pem # 0 => host'.pem = host.pem) /\ HostShape'
    BY <1>0, <1>4 DEF AgentKey, WriteProfile, HostShape
  <2>3. Stopped \/ Goes
    BY <1>2, <2>1
  <2>4. KeysAreUsed'
    BY <1>0, <2>1, <2>2, UsedGrows DEF ShopShape
  <2>5. NotCutOff
    BY <2>1, <2>2, KeysOnly, SameKeys DEF NotCutOff, StillShared, StillKnown
  <2> QED BY <1>0, <2>1, <2>3, <2>4, <2>5 DEF Plain
<1>5. CASE CopyProfile \/ EnsureConfig \/ PurgeProfiles \/ AssignMethods \/ PatchChannel
  <2>1. /\ At("copy") \/ At("config") \/ At("purge") \/ At("assign") \/ At("channel")
        /\ Then(held)
        /\ UNCHANGED <<orders, keys, integrations, host, fresh>>
    BY <1>5 DEF CopyProfile, EnsureConfig, PurgeProfiles, AssignMethods, PatchChannel
  <2>2. shop'.handoff = shop.handoff /\ ShopShape'
    BY <1>0, <1>5 DEF CopyProfile, EnsureConfig, PurgeProfiles, AssignMethods, PatchChannel, ShopShape
  <2>3. Stopped \/ Goes
    BY <1>2, <2>1, <2>2
  <2>4. KeysAreUsed'
    BY <1>0, <2>1, <2>2, UsedGrows DEF HostShape
  <2>5. NotCutOff
    BY <2>1, <2>2, KeysOnly, SameKeys DEF NotCutOff, StillShared, StillKnown
  <2> QED BY <1>0, <2>1, <2>3, <2>4, <2>5 DEF Plain
<1>6. CASE SkipUcp
  <2>1. (pc = 6 \/ pc = 9) /\ pc' = 10 /\ UNCHANGED <<held, world, stops>>
    BY <1>6, AtStep, Places, GroupIsTenth DEF SkipUcp
  <2>2. Goes
    BY <2>1, <1>1 DEF Goes, world
  <2>3. KeysAreUsed'
    BY <1>0, <2>1, UsedGrows DEF HostShape, ShopShape, world
  <2>4. NotCutOff
    BY <2>1, KeysOnly, SameKeys DEF NotCutOff, StillShared, StillKnown, world
  <2> QED BY <1>0, <2>1, <2>2, <2>3, <2>4 DEF Plain, world
<1>7. CASE WriteCredentials
  <2>1. /\ At("credentials") /\ Then(held)
        /\ UNCHANGED <<orders, keys, integrations, shop, fresh>>
    BY <1>7 DEF WriteCredentials
  <2>2. /\ host'.access = host.access /\ host'.secret = host.secret
        /\ host'.handoff = held["handoff"]
        /\ host'.pem = host.pem /\ HostShape'
    BY <1>0, <1>7 DEF WriteCredentials, HostShape
  <2>3. Stopped \/ Goes
    BY <1>2, <2>1
  <2>4. KeysAreUsed'
    BY <1>0, <2>1, <2>2, UsedGrows DEF ShopShape
  <2>5. held["handoff"] = shop.handoff
    <3>1. pc = 35
      BY <2>1, AtStep, Places
    <3> QED BY <1>0, <3>1 DEF SecretInHand
  <2>6. NotCutOff
    BY <2>1, <2>2, <2>5, KeysOnly, SameKeys DEF NotCutOff, StillShared, StillKnown
  <2> QED BY <1>0, <2>1, <2>3, <2>4, <2>6 DEF Plain
<1>8. CASE Fails \/ VerifyMcp
  <2>1. UNCHANGED world
    BY <1>8 DEF Fails, VerifyMcp
  <2>2. Stopped \/ Goes
    <3>1. CASE Stop
      BY <3>1 DEF Stop, Stopped
    <3>2. CASE At("verify") /\ Then(held)
      BY <1>2, <2>1, <3>2 DEF world
    <3> QED BY <1>8, <3>1, <3>2 DEF Fails, VerifyMcp
  <2>3. KeysAreUsed'
    BY <1>0, <2>1, UsedGrows DEF HostShape, ShopShape, world
  <2>4. NotCutOff
    BY <2>1, KeysOnly, SameKeys DEF NotCutOff, StillShared, StillKnown, world
  <2> QED BY <1>0, <2>1, <2>2, <2>3, <2>4 DEF Plain, world
<1> QED BY <1>3, <1>4, <1>5, <1>6, <1>7, <1>8

-----------------------------------------------------------------------------
(* The invariant is kept. *)

\* What is held under a reserved name stays as it is.
LEMMA HeldKept ==
  ASSUME KeepsHeld(held'), NEW n \in Reserved
  PROVE  /\ n \in DOMAIN held' <=> n \in DOMAIN held
         /\ n \in DOMAIN held => held'[n] = held[n]
         /\ Held(n)' = Held(n)
BY DEF KeepsHeld, Held

\* The orders that are short can be counted.
LEMMA ShortIsFinite ==
  ASSUME orders \in Seq(Order), NEW n
  PROVE  IsFiniteSet(Short(n)) /\ Cardinality(Short(n)) \in Nat
<1>1. Short(n) \in SUBSET Nat /\ \A m \in Short(n) : m <= Len(orders)
  BY DEF Short
<1>2. Len(orders) \in Nat
  OBVIOUS
<1> QED BY <1>1, <1>2, FS_BoundedSetOfNaturals, FS_CardinalityType

\* Counting the order in hand with the others makes one more at the most.
LEMMA OneMoreShort ==
  ASSUME orders \in Seq(Order), NEW n, NEW m, NEW T, T \subseteq Short(n) \cup {m}
  PROVE  IsFiniteSet(T) /\ Cardinality(T) \in Nat /\ Cardinality(T) <= Cardinality(Short(n)) + 1
<1>1. IsFiniteSet(Short(n)) /\ Cardinality(Short(n)) \in Nat
  BY ShortIsFinite
<1>2. /\ IsFiniteSet(Short(n) \cup {m})
      /\ Cardinality(Short(n) \cup {m}) <= Cardinality(Short(n)) + 1
  <2>1. Cardinality(Short(n) \cup {m}) \in {Cardinality(Short(n)), Cardinality(Short(n)) + 1}
    BY <1>1, FS_AddElement
  <2> QED BY <1>1, <2>1, FS_AddElement
<1>3. /\ IsFiniteSet(T) /\ Cardinality(T) \in Nat
      /\ Cardinality(T) <= Cardinality(Short(n) \cup {m})
      /\ Cardinality(Short(n) \cup {m}) \in Nat
  BY <1>2, FS_Subset, FS_CardinalityType
<1> QED BY <1>1, <1>2, <1>3

\* A run that stops lets go of everything.
LEMMA StopKeeps ==
  ASSUME InRange, Stopped, KeysAreUsed', OrdersAsPlanned',
         NEW m, Short(0)' \subseteq Short(Held("order")) \cup {m},
         ShortOfStops, OrdersAsPlanned
  PROVE  BootInv'
<1>1. pc' = 0 /\ DOMAIN held' = {} /\ stops' = stops + 1 /\ stops \in Nat
  BY DEF Stopped, InRange
<1>2. Held("order")' = 0
  BY <1>1 DEF Held
<1>3. ShortOfStops'
  <2>1. Cardinality(Short(0)') <= Cardinality(Short(Held("order"))) + 1 /\ Cardinality(Short(0)') \in Nat
    BY OneMoreShort DEF OrdersAsPlanned
  <2>2. Cardinality(Short(Held("order"))) \in Nat
    BY ShortIsFinite DEF OrdersAsPlanned
  <2>3. Cardinality(Short(0)') <= stops'
    BY <1>1, <2>1, <2>2 DEF ShortOfStops
  <2> QED BY <1>2, <2>3 DEF ShortOfStops
<1>4. InRange'
  BY <1>1 DEF InRange
<1> QED BY <1>1, <1>2, <1>3, <1>4
        DEF BootInv, HeldInRuns, CredentialsInHand, SecretInHand, KeyInHand, OrderInHand

\* Plain steps keep the invariant.
LEMMA PlainKeeps == ASSUME BootInv, Plain PROVE BootInv'
<1>0. orders' = orders /\ fresh' >= fresh /\ fresh \in Nat /\ fresh' \in Nat /\ KeysAreUsed' /\ InRange
  BY DEF Plain, KeysAreUsed, BootInv
<1>1. OrdersAsPlanned'
  BY <1>0 DEF OrdersAsPlanned, BootInv
<1>2. CASE Stopped
  <2>1. Short(0)' \subseteq Short(Held("order")) \cup {Held("order")}
    BY <1>0 DEF Short
  <2> QED BY <1>0, <1>1, <1>2, <2>1, StopKeeps DEF BootInv
<1>3. CASE Goes
  <2>1. /\ KeepsHeld(held') /\ stops' = stops /\ pc' \in 2 .. 41 /\ pc \in 2 .. 41
        /\ shop'.handoff = shop.handoff
    BY <1>0, <1>3 DEF Goes, InRange
  <2>2. InRange' /\ HeldInRuns'
    BY <1>0, <2>1 DEF InRange, HeldInRuns
  <2>3. SecretInHand'
    BY <2>1, HeldKept DEF SecretInHand, BootInv, Reserved
  <2>4. KeyInHand'
    <3> SUFFICES ASSUME pc' = 8 PROVE KeyInHand'
      BY DEF KeyInHand
    <3>1. pc = 8 /\ keys' = keys
      BY <1>3 DEF Goes
    <3> QED BY <2>1, <3>1, HeldKept DEF KeyInHand, BootInv, Reserved, Active
  <2>5. CredentialsInHand'
    <3> SUFFICES ASSUME pc' \in {38, 39} PROVE CredentialsInHand'
      BY DEF CredentialsInHand
    <3>1. /\ pc \in {38, 39} /\ host' = host
          /\ (\E i \in integrations' : LetsIn(i)) => (\E i \in integrations : LetsIn(i))
      BY <1>3 DEF Goes
    <3>2. /\ {"access", "secret"} \subseteq DOMAIN held'
          /\ held'["access"] = held["access"] /\ held'["secret"] = held["secret"]
          /\ Used(held["access"]) /\ Used(held["secret"])
          /\ (\E i \in integrations : LetsIn(i)) =>
               held["access"] = host.access /\ held["secret"] = host.secret
      BY <2>1, <3>1, HeldKept DEF CredentialsInHand, BootInv, Reserved
    <3>3. {held'["access"], held'["secret"]} \subseteq {n \in Nat : n < fresh'}
      BY <1>0, <3>2 DEF Used
    <3>4. (\E i \in integrations : LetsIn(i))' => (\E i \in integrations : LetsIn(i))
      BY <3>1 DEF LetsIn
    <3> QED BY <3>1, <3>2, <3>3, <3>4 DEF CredentialsInHand, Used
  <2>6. Held("order")' = Held("order")
    BY <2>1, HeldKept DEF Reserved
  <2>7. OrderInHand'
    <3>1. CASE pc = 34 /\ pc' = 34
      <4>1. /\ "existing" \in DOMAIN held' <=> "existing" \in DOMAIN held
            /\ "order" \in DOMAIN held' <=> "order" \in DOMAIN held
            /\ "existing" \in DOMAIN held => held'["existing"] = held["existing"]
            /\ "order" \in DOMAIN held => held'["order"] = held["order"]
        BY <2>1, HeldKept DEF Reserved
      <4> QED BY <1>0, <2>6, <3>1, <4>1 DEF OrderInHand, BootInv
    <3>2. CASE pc # 34 \/ pc' # 34
      <4>1. pc' # 34
        BY <1>3, <3>2 DEF Goes
      <4>2. Held("order") = 0
        BY <1>3, <4>1 DEF Goes, OrderInHand, BootInv
      <4> QED BY <2>6, <4>1, <4>2 DEF OrderInHand
    <3> QED BY <3>1, <3>2
  <2>8. ShortOfStops'
    <3>1. \A n : Short(n)' = Short(n)
      BY <1>0 DEF Short
    <3> QED BY <2>1, <2>6, <3>1 DEF ShortOfStops, BootInv
  <2> QED BY <1>0, <1>1, <2>2, <2>3, <2>4, <2>5, <2>7, <2>8 DEF BootInv
<1> QED BY <1>2, <1>3 DEF Plain

\* Noting something else keeps the handoff secret in hand.
LEMMA SecretKept ==
  ASSUME BootInv, pc >= 2, shop'.handoff = shop.handoff,
         NEW n, n # "handoff", NEW v, held' = Holding(n, v)
  PROVE  SecretInHand'
BY DEF SecretInHand, BootInv, Holding, Noted

\* Noting something else leaves the order in hand alone.
LEMMA OrdersUntouched ==
  ASSUME BootInv, orders' = orders, stops' = stops, pc # 34, pc' # 34, Held("order")' = Held("order")
  PROVE  OrdersAsPlanned' /\ OrderInHand' /\ ShortOfStops'
<1>1. \A n : Short(n)' = Short(n)
  BY DEF Short
<1> QED BY <1>1 DEF OrdersAsPlanned, OrderInHand, ShortOfStops, BootInv

\* Noting something else keeps the order in hand.
LEMMA HeldOther ==
  ASSUME NEW n, n # "order", NEW v, held' = Holding(n, v)
  PROVE  Held("order")' = Held("order")
BY DEF Held, Holding, Noted

\* A run that stops keeps the invariant.
LEMMA StopOnly ==
  ASSUME BootInv, Stop, orders' = orders, KeysAreUsed'
  PROVE  BootInv'
<1>1. Stopped
  BY DEF Stop, Stopped
<1>2. Short(0)' \subseteq Short(Held("order")) \cup {Held("order")}
  BY DEF Short
<1>3. OrdersAsPlanned'
  BY DEF OrdersAsPlanned, BootInv
<1> QED BY <1>1, <1>2, <1>3, StopKeeps DEF BootInv

\* ensure_single_signing_key: an active key stays, the default one before any other.
LEMMA KeySteps ==
  ASSUME BootInv, ListKeys \/ ListKeysUnread \/ RemoveSurplus
  PROVE  BootInv' /\ NotCutOff
<1>1. /\ UNCHANGED <<orders, integrations, shop, host, fresh>>
      /\ KeysAreUsed /\ fresh \in Nat /\ InRange
  BY DEF ListKeys, ListKeysUnread, RemoveSurplus, BootInv, KeysAreUsed
<1>2. KeysAreUsed'
  BY <1>1, UsedGrows DEF KeysAreUsed, HostShape, ShopShape
<1>3. (pc = 7 /\ ~RemoveSurplus) \/ (pc = 8 /\ RemoveSurplus)
  BY AtStep, Places DEF ListKeys, ListKeysUnread, RemoveSurplus
<1>4. StillSigned
  <2>1. CASE ListKeys \/ ListKeysUnread
    <3>1. keys \subseteq keys'
      BY <2>1 DEF ListKeys, ListKeysUnread
    <3> QED BY <3>1 DEF StillSigned, Active
  <2>2. CASE RemoveSurplus
    <3>1. keys \ {k \in keys : k.kid # held["keep"]} \subseteq keys'
      BY <2>2 DEF RemoveSurplus
    <3>2. /\ \E k \in Active(keys) : k.kid = held["keep"]
          /\ (\E k \in Active(keys) : k.kid = "default") => held["keep"] = "default"
      BY <1>3, <2>2 DEF KeyInHand, BootInv, ListKeys, ListKeysUnread
    <3> QED BY <3>1, <3>2 DEF StillSigned, Active
  <2> QED BY <2>1, <2>2
<1>5. NotCutOff
  BY <1>1, <1>4, KeysOnly DEF NotCutOff, StillShared, StillKnown
<1>6. CASE Stop
  BY <1>1, <1>2, <1>5, <1>6, StopOnly
<1>7. CASE /\ pc' = 9 /\ held' = held /\ UNCHANGED stops
  <2>1. Goes
    BY <1>1, <1>3, <1>7 DEF Goes, KeepsHeld
  <2> QED BY <1>1, <1>2, <1>5, <2>1, PlainKeeps DEF Plain
<1>8. ASSUME NEW k \in Kept(keys), ListKeys, Active(keys) # {}, keys' = keys, pc = 7,
             pc' = 8, held' = Holding("keep", k.kid), UNCHANGED stops
      PROVE  BootInv'
  <2>1. /\ k \in Active(keys)
        /\ (\E a \in Active(keys) : a.kid = "default") => k.kid = "default"
    BY <1>8 DEF Kept
  <2>2. "keep" \in DOMAIN held' /\ held'["keep"] = k.kid
    BY <1>8 DEF Holding, Noted
  <2>3. KeyInHand'
    BY <1>8, <2>1, <2>2 DEF KeyInHand, Active
  <2>4. SecretInHand'
    BY <1>1, <1>8, SecretKept
  <2>5. OrdersAsPlanned' /\ OrderInHand' /\ ShortOfStops'
    BY <1>1, <1>8, HeldOther, OrdersUntouched
  <2> QED BY <1>1, <1>2, <1>8, <2>3, <2>4, <2>5 DEF BootInv, InRange, HeldInRuns, CredentialsInHand
<1>9. \/ Stop
      \/ pc' = 9 /\ held' = held /\ UNCHANGED stops
      \/ \E k \in Kept(keys) : /\ ListKeys /\ Active(keys) # {} /\ keys' = keys /\ pc = 7
                               /\ pc' = 8 /\ held' = Holding("keep", k.kid) /\ UNCHANGED stops
  <2>1. CASE ListKeys
    <3>1. CASE Active(keys) # {}
      <4>1. PICK k \in Kept(keys) : keys' = keys /\ Then(Holding("keep", k.kid))
        BY <2>1, <3>1 DEF ListKeys
      <4>2. pc = 7
        BY <2>1, AtStep, Places DEF ListKeys
      <4> QED BY <2>1, <3>1, <4>1, <4>2 DEF Then, Past, count
    <3>2. CASE Active(keys) = {}
      <4>1. Stop \/ Past(2, held)
        BY <2>1, <3>2 DEF ListKeys
      <4>2. pc = 7
        BY <2>1, AtStep, Places DEF ListKeys
      <4> QED BY <4>1, <4>2 DEF Past, count
    <3> QED BY <3>1, <3>2
  <2>2. CASE ListKeysUnread
    <3>1. pc = 7
      BY <2>2, AtStep, Places DEF ListKeysUnread
    <3> QED BY <2>2, <3>1 DEF ListKeysUnread
  <2>3. CASE RemoveSurplus
    <3>1. pc = 8
      BY <2>3, AtStep, Places DEF RemoveSurplus
    <3>2. Then(held) \/ Stop \/ (pc' = pc + 1 /\ UNCHANGED <<last, held, runs, staff, stops>>)
      BY <2>3 DEF RemoveSurplus
    <3> QED BY <3>1, <3>2 DEF Then, Past, count
  <2> QED BY <2>1, <2>2, <2>3
<1> QED BY <1>5, <1>6, <1>7, <1>8, <1>9

\* A secret the shop has is kept.
LEMMA SecretIsShared ==
  ASSUME BootInv, HandoffSecret
  PROVE  BootInv' /\ NotCutOff
<1> DEFINE known == IF shop.handoff # 0 THEN shop.handoff ELSE host.handoff
           s     == IF known # 0 THEN known ELSE fresh
<1>1. /\ pc = 1 /\ UNCHANGED <<orders, keys, integrations, host>>
      /\ shop' = [shop EXCEPT !.handoff = s]
      /\ fresh' = IF known # 0 THEN fresh ELSE fresh + 1
      /\ Then(Holding("handoff", s))
  BY AtStep, Places DEF HandoffSecret
<1>2. /\ KeysAreUsed /\ fresh \in Nat /\ InRange /\ ShopShape /\ HostShape
  BY DEF BootInv, KeysAreUsed
<1>3. shop'.handoff = s /\ ShopShape'
  BY <1>1, <1>2 DEF ShopShape
<1>4. fresh' \in Nat /\ fresh' >= fresh
  BY <1>1, <1>2
<1>5. KeysAreUsed'
  BY <1>1, <1>2, <1>3, <1>4, UsedGrows DEF HostShape
<1>6. NotCutOff
  <2>1. StillShared
    BY <1>1, <1>3 DEF StillShared
  <2> QED BY <1>1, <2>1, KeysOnly, SameKeys DEF NotCutOff, StillKnown
<1> HIDE DEF s, known
<1>7. CASE Stop
  BY <1>1, <1>5, <1>6, <1>7, StopOnly
<1>8. CASE pc' = 2 /\ held' = Holding("handoff", s) /\ stops' = stops
  <2>1. SecretInHand'
    BY <1>3, <1>8 DEF SecretInHand, Holding, Noted
  <2>2. OrdersAsPlanned' /\ OrderInHand' /\ ShortOfStops'
    BY <1>1, <1>8, HeldOther, OrdersUntouched
  <2> QED BY <1>2, <1>5, <1>6, <1>8, <2>1, <2>2
          DEF BootInv, InRange, HeldInRuns, CredentialsInHand, KeyInHand
<1>9. Stop \/ (pc' = 2 /\ held' = Holding("handoff", s) /\ stops' = stops)
  BY <1>1 DEF Then, Past, count
<1> QED BY <1>6, <1>7, <1>8, <1>9

\* An integration with its fields, and one whose rights, roles and secret are edited together.
Fields(i, a, s, d, r, l) == i = [access |-> a, secret |-> s, admin |-> d, roles |-> r, allowed |-> l]
Edited(i, d, r, s) == [i EXCEPT !.admin = d, !.roles = r, !.secret = s]

\* The edits of an integration by a run.
LEMMA ThreeEdits ==
  ASSUME NEW i, NEW v1, NEW v2, NEW v3, NEW v4, NEW v5, Fields(i, v1, v2, v3, v4, v5),
         NEW no, NEW r, NEW u
  PROVE  Fields(Edited(i, no, r, u), v1, u, no, r, v5)
<1> DEFINE x == [i EXCEPT !.admin = no]
           y == [x EXCEPT !.roles = r]
           z == [y EXCEPT !.secret = u]
<1>1. x = [access |-> v1, secret |-> v2, admin |-> no, roles |-> v4, allowed |-> v5]
  BY DEF Fields
<1>2. Edited(i, no, r, u) = z
  BY DEF Edited
<1> HIDE DEF x
<1>3. y = [access |-> v1, secret |-> v2, admin |-> no, roles |-> r, allowed |-> v5]
  BY <1>1
<1> HIDE DEF y
<1>4. z = [access |-> v1, secret |-> u, admin |-> no, roles |-> r, allowed |-> v5]
  BY <1>3
<1> HIDE DEF z
<1> QED BY <1>2, <1>4 DEF Fields

\* The edits of an integration by staff.
LEMMA TwoEdits ==
  ASSUME NEW i, NEW v1, NEW v2, NEW v3, NEW v4, NEW v5, Fields(i, v1, v2, v3, v4, v5),
         NEW a, NEW b
  PROVE  /\ Fields([i EXCEPT !.access = a, !.secret = b], a, b, v3, v4, v5)
         /\ Fields([i EXCEPT !.secret = a], v1, a, v3, v4, v5)
         /\ Fields([i EXCEPT !.admin = a, !.allowed = b], v1, v2, a, v4, b)
<1> DEFINE x == [i EXCEPT !.access = a]
           y == [x EXCEPT !.secret = b]
           u == [i EXCEPT !.admin = a]
           w == [u EXCEPT !.allowed = b]
<1>1. /\ Fields(x, a, v2, v3, v4, v5) /\ Fields(u, v1, v2, a, v4, v5)
      /\ Fields([i EXCEPT !.secret = a], v1, a, v3, v4, v5)
  BY DEF Fields
<1>2. [i EXCEPT !.access = a, !.secret = b] = y /\ [i EXCEPT !.admin = a, !.allowed = b] = w
  OBVIOUS
<1> HIDE DEF x, u
<1>3. Fields(y, a, b, v3, v4, v5) /\ Fields(w, v1, v2, a, v4, b)
  BY <1>1 DEF Fields
<1> HIDE DEF y, w
<1> QED BY <1>1, <1>2, <1>3

\* ensure_integration: a secret the hosts know is kept.
LEMMA IntegrationStep ==
  ASSUME BootInv, EnsureIntegration
  PROVE  BootInv' /\ NotCutOff
<1>1. /\ pc = 37 /\ UNCHANGED <<orders, keys, shop, host>> /\ fresh' = fresh + 1
  BY AtStep, Places DEF EnsureIntegration
<1>2. /\ KeysAreUsed /\ fresh \in Nat /\ fresh >= 2 /\ InRange /\ ShopShape /\ HostShape
      /\ Used(host.access) /\ Used(host.secret)
  BY DEF BootInv, KeysAreUsed
<1>3. /\ Used(host.access)' /\ Used(host.secret)' /\ ShopShape' /\ HostShape'
      /\ \A n : Used(n) => n \in Nat /\ n < fresh'
      /\ fresh' \in Nat /\ fresh' >= 2
      /\ fresh \in Nat /\ fresh < fresh' /\ fresh # 0
  BY <1>1, <1>2 DEF ShopShape, HostShape, Used
<1> DEFINE Given(i, a, s) ==
      /\ integrations' = {i}
      /\ i = [access |-> i.access, secret |-> i.secret, admin |-> i.admin, roles |-> i.roles,
              allowed |-> i.allowed]
      /\ i.access = a /\ {i.access, i.secret, s} \subseteq {n \in Nat : n < fresh'} /\ i.secret # 0
      /\ LetsIn(i) => a = host.access /\ s = host.secret
      /\ (\E j \in integrations : LetsIn(j)) => LetsIn(i)
      /\ Then(Noted(Holding("access", a), "secret", s))
<1>4. \E i, a, s : Given(i, a, s)
  <2>1. CASE /\ integrations = {}
             /\ integrations' = {[access |-> fresh, secret |-> fresh, admin |-> FALSE, roles |-> {held["role"]}, allowed |-> FALSE]}
             /\ Then(Noted(Holding("access", fresh), "secret", fresh))
    <3> DEFINE i == [access |-> fresh, secret |-> fresh, admin |-> FALSE, roles |-> {held["role"]},
                     allowed |-> FALSE]
    <3>1. ~LetsIn(i)
      BY <1>2 DEF LetsIn, Used
    <3>2. Given(i, fresh, fresh)
      BY <1>3, <2>1, <3>1
    <3> HIDE DEF Given
    <3> QED BY <3>2
  <2>2. ASSUME NEW i \in integrations,
               integrations' = {[i EXCEPT !.admin = FALSE, !.roles = @ \cup {held["role"]},
                                          !.secret = IF Unknown(i) THEN fresh ELSE @]},
               Then(Noted(Holding("access", i.access), "secret", IF Unknown(i) THEN fresh ELSE host.secret))
        PROVE  \E j, a, s : Given(j, a, s)
    <3> DEFINE j == [i EXCEPT !.admin = FALSE, !.roles = @ \cup {held["role"]},
                              !.secret = IF Unknown(i) THEN fresh ELSE @]
               s == IF Unknown(i) THEN fresh ELSE host.secret
    <3>1. IsIntegration(i) /\ (\A k \in integrations : k = i)
      BY <2>2 DEF BootInv, KeysAreUsed
    <3>2. /\ j = [access |-> j.access, secret |-> j.secret, admin |-> j.admin, roles |-> j.roles,
                  allowed |-> j.allowed]
          /\ j.access = i.access /\ j.secret = IF Unknown(i) THEN fresh ELSE i.secret
      <4>1. PICK v1, v2, v3, v4, v5 : Fields(i, v1, v2, v3, v4, v5)
        BY <3>1 DEF IsIntegration, Fields
      <4> DEFINE no == FALSE
                 u == IF Unknown(i) THEN fresh ELSE i.secret
                 r == i.roles \cup {held["role"]}
      <4> HIDE DEF no, u, r
      <4>2. Fields(Edited(i, no, r, u), v1, u, no, r, v5)
        BY <4>1, ThreeEdits
      <4>3. j = Edited(i, no, r, u)
        BY DEF Edited, no, u, r
      <4> HIDE DEF j
      <4> QED BY <4>1, <4>2, <4>3 DEF u, Fields
    <3> HIDE DEF j
    <3>3. {j.access, j.secret, s} \subseteq {n \in Nat : n < fresh'} /\ j.secret # 0
      BY <1>2, <1>3, <3>1, <3>2 DEF IsIntegration
    <3>4. LetsIn(j) => i.access = host.access /\ s = host.secret
      BY <1>2, <3>1, <3>2 DEF LetsIn, Unknown, Used, IsIntegration
    <3>5. (\E k \in integrations : LetsIn(k)) => LetsIn(j)
      BY <1>2, <3>1, <3>2 DEF LetsIn, Unknown, IsIntegration
    <3>6. integrations' = {j} /\ Then(Noted(Holding("access", i.access), "secret", s))
      BY <2>2 DEF j
    <3> HIDE DEF s
    <3>7. Given(j, i.access, s)
      BY <3>2, <3>3, <3>4, <3>5, <3>6
    <3> HIDE DEF Given
    <3> QED BY <3>7
  <2> HIDE DEF Given
  <2> QED BY <2>1, <2>2 DEF EnsureIntegration
<1>5. PICK i, a, s : Given(i, a, s)
  BY <1>4
<1>6. KeysAreUsed'
  BY <1>3, <1>5 DEF KeysAreUsed, IsIntegration, Used
<1>7. NotCutOff
  <2>1. StillLetIn
    BY <1>1, <1>5 DEF StillLetIn, LetsIn
  <2> QED BY <1>1, <2>1, SameKeys DEF NotCutOff, StillShared, StillKnown
<1>8. CASE Stop
  BY <1>1, <1>6, <1>7, <1>8, StopOnly
<1>9. CASE pc' = 38 /\ held' = Noted(Holding("access", a), "secret", s) /\ stops' = stops
  <2>1. /\ "access" \in DOMAIN held' /\ "secret" \in DOMAIN held'
        /\ held'["access"] = a /\ held'["secret"] = s
        /\ "handoff" \in DOMAIN held => "handoff" \in DOMAIN held' /\ held'["handoff"] = held["handoff"]
    BY <1>9 DEF Noted, Holding
  <2>2. Held("order")' = Held("order")
    BY <1>9 DEF Noted, Holding, Held
  <2>3. CredentialsInHand'
    BY <1>1, <1>5, <1>9, <2>1 DEF CredentialsInHand, Used, LetsIn
  <2>4. SecretInHand'
    BY <1>1, <1>9, <2>1 DEF SecretInHand, BootInv
  <2>5. OrdersAsPlanned' /\ OrderInHand' /\ ShortOfStops'
    BY <1>1, <1>9, <2>2, OrdersUntouched
  <2> QED BY <1>2, <1>6, <1>7, <1>9, <2>3, <2>4, <2>5 DEF BootInv, InRange, HeldInRuns, KeyInHand
<1>10. Stop \/ (pc' = 38 /\ held' = Noted(Holding("access", a), "secret", s) /\ stops' = stops)
  BY <1>1, <1>5 DEF Then, Past, count
<1> QED BY <1>8, <1>9, <1>10

\* The allowlist, and the hosts' file that names what the shop has.
LEMMA CredentialSteps ==
  ASSUME BootInv, SetAllowlist \/ WriteEnv
  PROVE  Plain /\ NotCutOff
<1>1. /\ UNCHANGED <<orders, keys, shop, fresh>> /\ Then(held)
      /\ KeysAreUsed /\ fresh \in Nat /\ InRange /\ ShopShape /\ HostShape
  BY DEF SetAllowlist, WriteEnv, BootInv, KeysAreUsed
<1>2. KeepsHeld(held) /\ (Stop => Stopped) /\ ShopShape'
  BY <1>1 DEF KeepsHeld, Stop, Stopped, ShopShape
<1>3. CASE SetAllowlist
  <2>1. /\ pc = 38 /\ host' = host
        /\ integrations' = {[i EXCEPT !.allowed = TRUE] : i \in integrations}
    BY <1>3, AtStep, Places DEF SetAllowlist
  <2>2. ASSUME NEW i \in integrations
        PROVE  LET j == [i EXCEPT !.allowed = TRUE] IN
               /\ IsIntegration(j) /\ j.access = i.access /\ j.secret = i.secret
    <3>1. IsIntegration(i)
      BY DEF BootInv, KeysAreUsed
    <3>2. PICK v1, v2, v3, v4, v5 :
            i = [access |-> v1, secret |-> v2, admin |-> v3, roles |-> v4, allowed |-> v5]
      BY <3>1 DEF IsIntegration
    <3> DEFINE yes == TRUE
    <3> HIDE DEF yes
    <3>3. [i EXCEPT !.allowed = yes]
            = [access |-> v1, secret |-> v2, admin |-> v3, roles |-> v4, allowed |-> yes]
      BY <3>2
    <3>4. Used(v1) /\ Used(v2) /\ v2 # 0 /\ i.access = v1 /\ i.secret = v2
      BY <3>1, <3>2 DEF IsIntegration
    <3> QED BY <3>3, <3>4 DEF IsIntegration, yes
  <2>3. /\ \A j \in integrations' : \E i \in integrations :
             IsIntegration(j) /\ j = [i EXCEPT !.allowed = TRUE] /\ j.access = i.access /\ j.secret = i.secret
        /\ \A i \in integrations : \E j \in integrations' : j.access = i.access /\ j.secret = i.secret
    BY <2>1, <2>2
  <2>4. KeysAreUsed'
    <3>1. \A j, k \in integrations' : j = k
      BY <2>3 DEF BootInv, KeysAreUsed
    <3>2. \A j \in integrations' : IsIntegration(j)'
      BY <1>1, <2>3 DEF IsIntegration, Used
    <3> QED BY <1>1, <1>2, <2>1, <3>1, <3>2 DEF KeysAreUsed, HostShape, Used
  <2>5. /\ (\E i \in integrations' : LetsIn(i)) => (\E i \in integrations : LetsIn(i))
        /\ StillLetIn
    <3>1. \A j \in integrations' : LetsIn(j) => \E i \in integrations : LetsIn(i)
      BY <2>3 DEF LetsIn
    <3>2. \A i \in integrations : LetsIn(i) => \E j \in integrations' : j.access = host.access /\ j.secret = host.secret
      BY <2>3 DEF LetsIn
    <3>3. \A j : (j.access = host.access /\ j.secret = host.secret) => LetsIn(j)'
      BY <2>1 DEF LetsIn
    <3>4. StillLetIn
      BY <3>2, <3>3 DEF StillLetIn
    <3> QED BY <3>1, <3>4
  <2>6. Stopped \/ Goes
    BY <1>1, <1>2, <2>1, <2>5 DEF Then, Past, Goes, count
  <2>7. NotCutOff
    BY <1>1, <2>1, <2>5, SameKeys DEF NotCutOff, StillShared, StillKnown
  <2> QED BY <1>1, <2>4, <2>6, <2>7 DEF Plain
<1>4. CASE WriteEnv
  <2>1. /\ pc = 39 /\ integrations' = integrations
        /\ host' = [host EXCEPT !.access = held["access"], !.secret = held["secret"]]
    BY <1>4, AtStep, Places DEF WriteEnv
  <2>2. /\ HostShape' /\ host'.access = held["access"] /\ host'.secret = held["secret"]
        /\ host'.handoff = host.handoff /\ host'.pem = host.pem
    BY <1>1, <2>1 DEF HostShape
  <2>3. /\ Used(held["access"]) /\ Used(held["secret"])
        /\ (\E i \in integrations : LetsIn(i)) =>
             held["access"] = host.access /\ held["secret"] = host.secret
    BY <2>1 DEF CredentialsInHand, BootInv
  <2>4. KeysAreUsed'
    <3>1. Used(host.access)' /\ Used(host.secret)'
      BY <1>1, <2>2, <2>3 DEF Used
    <3>2. \A j \in integrations : IsIntegration(j)'
      BY <1>1 DEF IsIntegration, Used, KeysAreUsed
    <3> QED BY <1>1, <1>2, <2>1, <2>2, <3>1, <3>2 DEF KeysAreUsed
  <2>5. StillLetIn
    BY <2>1, <2>2, <2>3 DEF StillLetIn, LetsIn
  <2>6. NotCutOff
    BY <1>1, <2>2, <2>5, SameKeys DEF NotCutOff, StillShared, StillKnown
  <2>7. Stopped \/ Goes
    BY <1>1, <1>2, <2>1 DEF Then, Past, Goes, count
  <2> QED BY <1>1, <2>4, <2>6, <2>7 DEF Plain
<1> QED BY <1>3, <1>4

\* The rows, the keys and what both sides know are left alone.
LEMMA WorldKept ==
  ASSUME BootInv, UNCHANGED <<integrations, keys, shop, host, fresh>>
  PROVE  KeysAreUsed' /\ NotCutOff
<1>1. KeysAreUsed'
  BY UsedGrows DEF BootInv, KeysAreUsed, ShopShape, HostShape
<1> QED BY <1>1, KeysOnly, SameKeys DEF NotCutOff, StillShared, StillKnown

\* Counting the orders there are, and leaving the loop over the plan.
LEMMA CountSteps ==
  ASSUME BootInv, CountOrders \/ AllPlaced
  PROVE  BootInv' /\ NotCutOff
<1>1. UNCHANGED world /\ fresh \in Nat
  BY DEF CountOrders, AllPlaced, BootInv, KeysAreUsed
<1>2. KeysAreUsed' /\ NotCutOff
  BY <1>1, WorldKept DEF world
<1>3. CASE (pc = 33 \/ (pc = 34 /\ Held("order") = 0)) /\ pc' = 35 /\ held' = held /\ stops' = stops
  <2>1. Goes
    BY <1>1, <1>3 DEF Goes, KeepsHeld, world
  <2> QED BY <1>1, <1>2, <2>1, PlainKeeps DEF Plain, world
<1>4. CASE Stop
  BY <1>1, <1>2, <1>4, StopOnly DEF world
<1>5. CASE pc = 33 /\ pc' = 34 /\ held' = Holding("existing", Len(orders)) /\ stops' = stops
  <2>1. Held("order") = 0 /\ Held("order")' = Held("order")
    BY <1>5, HeldOther DEF OrderInHand, BootInv
  <2>2. OrderInHand'
    BY <1>1, <1>5, <2>1 DEF OrderInHand, Holding, Noted, world
  <2>3. ShortOfStops'
    <3>1. \A n : Short(n)' = Short(n)
      BY <1>1 DEF Short, world
    <3> QED BY <1>5, <2>1, <3>1 DEF ShortOfStops, BootInv
  <2>4. SecretInHand'
    BY <1>1, <1>5, SecretKept DEF world
  <2>5. InRange' /\ OrdersAsPlanned'
    BY <1>1, <1>5 DEF InRange, OrdersAsPlanned, world, BootInv
  <2> QED BY <1>2, <1>5, <2>2, <2>3, <2>4, <2>5
          DEF BootInv, HeldInRuns, CredentialsInHand, KeyInHand
<1>6. CASE CountOrders
  <2>1. pc = 33
    BY <1>6, AtStep, Places DEF CountOrders
  <2>2. \/ pc' = pc + 2 /\ UNCHANGED <<last, held, count>>
        \/ Then(Holding("existing", Len(orders)))
    BY <1>6 DEF CountOrders
  <2> QED BY <1>3, <1>4, <1>5, <2>1, <2>2 DEF Then, Past, count
<1>7. CASE AllPlaced
  <2>1. pc = 34 /\ Held("order") = 0 /\ pc' = pc + 1 /\ UNCHANGED <<held, count>>
    BY <1>7, AtStep, Places DEF AllPlaced
  <2> QED BY <1>3, <2>1 DEF count
<1> QED BY <1>6, <1>7

\* The loop over the plan turns, or the run ends in it.
LEMMA LoopKeeps ==
  ASSUME BootInv, pc = 34, UNCHANGED <<integrations, keys, shop, host, fresh>>, OrdersAsPlanned',
         NEW m, Short(0)' \subseteq Short(Held("order")) \cup {m},
         \/ Stop
         \/ /\ pc' = pc /\ stops' = stops
            /\ "handoff" \in DOMAIN held' /\ held'["handoff"] = held["handoff"]
            /\ OrderInHand' /\ ShortOfStops'
  PROVE  BootInv' /\ NotCutOff
<1>1. KeysAreUsed' /\ NotCutOff
  BY WorldKept
<1>2. CASE Stop
  <2>1. Stopped
    BY <1>2 DEF Stop, Stopped
  <2> QED BY <1>1, <2>1, StopKeeps DEF BootInv
<1>3. CASE /\ pc' = pc /\ stops' = stops
           /\ "handoff" \in DOMAIN held' /\ held'["handoff"] = held["handoff"]
           /\ OrderInHand' /\ ShortOfStops'
  <2>1. SecretInHand'
    BY <1>3 DEF SecretInHand, BootInv
  <2>2. InRange'
    BY <1>3 DEF InRange, BootInv
  <2> QED BY <1>1, <1>3, <2>1, <2>2 DEF BootInv, HeldInRuns, CredentialsInHand, KeyInHand
<1> QED BY <1>2, <1>3

\* An order is placed: the next one of the plan.
LEMMA OrderPlaced ==
  ASSUME BootInv, PlaceOrder
  PROVE  BootInv' /\ NotCutOff
<1> DEFINE o == [kind |-> Kinds[held["existing"] + 1], dated |-> FALSE, moved |-> 0]
<1>1. /\ pc = 34 /\ Held("order") = 0 /\ Held("existing") < Len(Kinds)
      /\ orders' = Append(orders, o)
      /\ Again(Holding("order", Len(orders) + 1))
      /\ UNCHANGED <<integrations, keys, shop, host, fresh>>
  BY AtStep, Places DEF PlaceOrder
<1>2. /\ "existing" \in DOMAIN held /\ held["existing"] = Len(orders)
      /\ "handoff" \in DOMAIN held
      /\ orders \in Seq(Order) /\ Len(orders) \in Nat /\ Len(orders) + 1 <= Len(Kinds)
  BY <1>1, BootAssumption DEF OrderInHand, SecretInHand, OrdersAsPlanned, BootInv, Held
<1>3. o \in Order /\ o.kind = Kinds[Len(orders) + 1]
  BY <1>2, BootAssumption DEF Order
<1> HIDE DEF o
<1>4. /\ orders' \in Seq(Order) /\ Len(orders') = Len(orders) + 1
      /\ \A n \in 1 .. Len(orders) : orders'[n] = orders[n]
      /\ orders'[Len(orders) + 1] = o
  BY <1>1, <1>2, <1>3
<1>5. OrdersAsPlanned'
  BY <1>2, <1>3, <1>4 DEF OrdersAsPlanned, BootInv
<1>6. PICK l : l = Len(orders) + 1
  OBVIOUS
<1>7. Short(0)' \subseteq Short(0) \cup {l} /\ Short(l)' = Short(0)
  <2>1. \A m \in 1 .. Len(orders') : m \in 1 .. Len(orders) \/ m = Len(orders) + 1
    BY <1>2, <1>4
  <2>2. \A m \in 1 .. Len(orders) : m \in 1 .. Len(orders') /\ m # 0 /\ m # Len(orders) + 1
    BY <1>2, <1>4
  <2>3. \A m \in 1 .. Len(orders) : Settled(orders[m]) <=> Settled(orders'[m])
    BY <1>4 DEF Settled
  <2> QED BY <1>6, <2>1, <2>2, <2>3 DEF Short
<1>8. CASE Stop
  BY <1>1, <1>5, <1>7, <1>8, LoopKeeps
<1>9. CASE pc' = pc /\ stops' = stops /\ held' = Holding("order", Len(orders) + 1)
  <2>1. /\ "order" \in DOMAIN held' /\ held'["order"] = Len(orders) + 1
        /\ "existing" \in DOMAIN held' /\ held'["existing"] = Len(orders)
        /\ "handoff" \in DOMAIN held' /\ held'["handoff"] = held["handoff"]
    BY <1>2, <1>9 DEF Holding, Noted
  <2>2. Held("order")' = Len(orders) + 1 /\ Len(orders) + 1 # 0
    BY <1>2, <2>1 DEF Held
  <2>3. OrderInHand'
    BY <1>1, <1>2, <1>4, <1>9, <2>1, <2>2 DEF OrderInHand
  <2>4. ShortOfStops'
    BY <1>1, <1>6, <1>7, <1>9, <2>2 DEF ShortOfStops, BootInv
  <2> QED BY <1>1, <1>5, <1>7, <1>9, <2>1, <2>3, <2>4, LoopKeeps
<1> QED BY <1>1, <1>8, <1>9 DEF Again, count

\* The order in hand is dated, moved on, and let go once it is settled.
LEMMA OrderMoved ==
  ASSUME BootInv, Backdate \/ ApplyState
  PROVE  BootInv' /\ NotCutOff
<1>0. PICK n : n = held["order"]
  OBVIOUS
<1>1. /\ pc = 34 /\ Held("order") # 0
      /\ UNCHANGED <<integrations, keys, shop, host, fresh>>
  BY AtStep, Places DEF Backdate, ApplyState
<1>2. /\ "existing" \in DOMAIN held /\ held["existing"] + 1 = Len(orders) /\ held["existing"] \in Nat
      /\ "order" \in DOMAIN held /\ n = Len(orders) /\ Held("order") = n
      /\ "handoff" \in DOMAIN held
      /\ orders \in Seq(Order) /\ Len(orders) \in Nat /\ n \in 1 .. Len(orders) /\ OrdersAsPlanned
  BY <1>0, <1>1 DEF OrderInHand, SecretInHand, OrdersAsPlanned, BootInv, Held
<1>3. orders[n] \in Order
  BY <1>2
<1>4. \/ orders' = [orders EXCEPT ![n].dated = TRUE] /\ Again(held)
      \/ orders' = [orders EXCEPT ![n].moved = @ + 1] /\ Again(held)
      \/ /\ Settled(orders[n]) /\ orders' = orders
         /\ held' = [Holding("existing", held["existing"] + 1) EXCEPT !["order"] = 0]
         /\ UNCHANGED <<pc, last, count>>
  BY <1>0 DEF Backdate, ApplyState
<1>5. CASE Settled(orders[n]) /\ orders' = orders /\ UNCHANGED <<pc, last, count>>
           /\ held' = [Holding("existing", held["existing"] + 1) EXCEPT !["order"] = 0]
  <2>1. /\ "order" \in DOMAIN held' /\ held'["order"] = 0
        /\ "existing" \in DOMAIN held' /\ held'["existing"] = held["existing"] + 1
        /\ "handoff" \in DOMAIN held' /\ held'["handoff"] = held["handoff"]
    BY <1>2, <1>5 DEF Holding, Noted
  <2>2. Held("order")' = 0
    BY <2>1 DEF Held
  <2>3. OrderInHand'
    BY <1>1, <1>2, <1>5, <2>1, <2>2 DEF OrderInHand
  <2>4. Short(0)' = Short(n)
    BY <1>2, <1>5 DEF Short
  <2>5. ShortOfStops'
    BY <1>2, <1>5, <2>2, <2>4 DEF ShortOfStops, BootInv, count
  <2>6. OrdersAsPlanned'
    BY <1>2, <1>5 DEF OrdersAsPlanned
  <2>7. Short(0)' \subseteq Short(Held("order")) \cup {0}
    BY <1>2, <2>4
  <2> QED BY <1>1, <1>5, <2>1, <2>3, <2>5, <2>6, <2>7, LoopKeeps DEF count
<1>6. ASSUME Again(held), NEW o \in Order, orders' = [orders EXCEPT ![n] = o], o.kind = orders[n].kind
      PROVE  BootInv' /\ NotCutOff
  <2>1. /\ orders' \in Seq(Order) /\ Len(orders') = Len(orders)
        /\ \A m \in 1 .. Len(orders) : orders'[m] = IF m = n THEN o ELSE orders[m]
    BY <1>2, <1>6
  <2>2. OrdersAsPlanned'
    BY <1>2, <1>6, <2>1 DEF OrdersAsPlanned
  <2>3. Short(0)' \subseteq Short(n) \cup {n} /\ Short(n)' = Short(n)
    BY <1>2, <2>1 DEF Short
  <2>4. CASE Stop
    BY <1>1, <1>2, <2>2, <2>3, <2>4, LoopKeeps
  <2>5. CASE held' = held /\ pc' = pc /\ stops' = stops
    <3>1. Held("order")' = n
      BY <1>2, <2>5 DEF Held
    <3>2. OrderInHand'
      BY <1>0, <1>1, <1>2, <2>1, <2>5, <3>1 DEF OrderInHand
    <3>3. ShortOfStops'
      BY <1>2, <2>3, <2>5, <3>1 DEF ShortOfStops, BootInv
    <3> QED BY <1>1, <1>2, <2>2, <2>3, <2>5, <3>2, <3>3, LoopKeeps
  <2> QED BY <1>6, <2>4, <2>5 DEF Again, count
<1>7. CASE orders' = [orders EXCEPT ![n].dated = TRUE] /\ Again(held)
  <2> DEFINE o == [orders[n] EXCEPT !.dated = TRUE]
  <2>1. o \in Order /\ o.kind = orders[n].kind
    BY <1>3 DEF Order
  <2>2. orders' = [orders EXCEPT ![n] = o]
    BY <1>7
  <2> HIDE DEF o
  <2> QED BY <1>6, <1>7, <2>1, <2>2
<1>8. CASE orders' = [orders EXCEPT ![n].moved = @ + 1] /\ Again(held)
  <2> DEFINE o == [orders[n] EXCEPT !.moved = @ + 1]
  <2>1. o \in Order /\ o.kind = orders[n].kind
    BY <1>3 DEF Order
  <2>2. orders' = [orders EXCEPT ![n] = o]
    BY <1>8
  <2> HIDE DEF o
  <2> QED BY <1>6, <1>8, <2>1, <2>2
<1> QED BY <1>4, <1>5, <1>7, <1>8

\* Between two runs: staff, or a new volume.
LEMMA QuietSteps ==
  ASSUME BootInv, StaffDelete \/ StaffEdit \/ StaffKeys \/ DropVolume
  PROVE  BootInv' /\ pc = 0
<1>1. /\ pc = 0 /\ UNCHANGED <<pc, held, stops>> /\ DOMAIN held = {}
  BY DEF StaffDelete, StaffEdit, StaffKeys, DropVolume, Quiet, BootInv, HeldInRuns
<1>2. /\ KeysAreUsed /\ fresh \in Nat /\ fresh >= 2 /\ ShopShape /\ HostShape
      /\ Used(host.access) /\ Used(host.secret)
  BY DEF BootInv, KeysAreUsed
<1>3. KeysAreUsed' /\ (orders' = orders \/ orders' = <<>>)
  <2>1. CASE StaffDelete
    <3>0. PICK s : /\ integrations' = {[i EXCEPT !.roles = @ \ {s.id}] : i \in integrations}
                   /\ shop' = [shop EXCEPT !.footer = IF @ = s.id THEN 0 ELSE @,
                                           !.service = IF @ = s.id THEN 0 ELSE @,
                                           !.assigned = @ \ {s.id}]
      BY <2>1 DEF StaffDelete
    <3>1. UNCHANGED <<orders, host, fresh>> /\ ShopShape'
      <4>1. ShopShape'
        BY <1>2, <3>0 DEF ShopShape
      <4> QED BY <2>1, <4>1 DEF StaffDelete
    <3>2. PICK r : integrations' = {[i EXCEPT !.roles = @ \ {r}] : i \in integrations}
      BY <3>0
    <3>3. ASSUME NEW i \in integrations PROVE IsIntegration([i EXCEPT !.roles = @ \ {r}])
      BY <1>2 DEF KeysAreUsed, IsIntegration
    <3>4. \A j \in integrations' : IsIntegration(j)'
      BY <3>1, <3>2, <3>3 DEF IsIntegration, Used
    <3>5. \A j, k \in integrations' : j = k
      BY <1>2, <3>2 DEF KeysAreUsed
    <3> QED BY <1>2, <3>1, <3>4, <3>5 DEF KeysAreUsed, HostShape, Used
  <2>2. CASE StaffEdit
    <3>1. UNCHANGED <<orders, integrations, shop, host, fresh>>
      BY <2>2 DEF StaffEdit
    <3> QED BY <1>2, <3>1, UsedGrows DEF ShopShape, HostShape
  <2>3. CASE StaffKeys
    <3>1. /\ fresh' = fresh + 1 /\ orders' = orders /\ ShopShape' /\ HostShape'
          /\ host'.access = host.access /\ host'.secret = host.secret
      BY <1>2, <2>3 DEF StaffKeys, ShopShape, HostShape
    <3>2. CASE integrations' = integrations
      BY <1>2, <3>1, <3>2, UsedGrows
    <3>3. ASSUME NEW i \in integrations, NEW j, integrations' = {j},
                 \/ j = [i EXCEPT !.access = fresh, !.secret = fresh]
                 \/ j = [i EXCEPT !.secret = fresh]
                 \/ j = [i EXCEPT !.admin = TRUE, !.allowed = FALSE]
          PROVE  KeysAreUsed'
      <4>1. PICK v1, v2, v3, v4, v5 : Fields(i, v1, v2, v3, v4, v5)
        BY <1>2 DEF KeysAreUsed, IsIntegration, Fields
      <4>2. /\ v1 \in Nat /\ v2 \in Nat /\ v1 < fresh' /\ v2 < fresh' /\ v2 # 0
            /\ fresh \in Nat /\ fresh < fresh' /\ fresh # 0
        BY <1>2, <3>1, <4>1 DEF KeysAreUsed, IsIntegration, Fields, Used
      <4>3. \E a, s, d, r, l : Fields(j, a, s, d, r, l) /\ {a, s} \subseteq {v1, v2, fresh} /\ s # 0
        <5> DEFINE yes == TRUE  no == FALSE
        <5> HIDE DEF yes, no
        <5>1. /\ Fields([i EXCEPT !.access = fresh, !.secret = fresh], fresh, fresh, v3, v4, v5)
              /\ Fields([i EXCEPT !.secret = fresh], v1, fresh, v3, v4, v5)
              /\ Fields([i EXCEPT !.admin = yes, !.allowed = no], v1, v2, yes, v4, no)
          BY <4>1, TwoEdits
        <5>2. Fields([i EXCEPT !.admin = TRUE, !.allowed = FALSE], v1, v2, TRUE, v4, FALSE)
          BY <5>1 DEF yes, no
        <5>3. CASE j = [i EXCEPT !.access = fresh, !.secret = fresh]
          BY <4>2, <5>1, <5>3
        <5>4. CASE j = [i EXCEPT !.secret = fresh]
          BY <4>2, <5>1, <5>4
        <5>5. CASE j = [i EXCEPT !.admin = TRUE, !.allowed = FALSE]
          BY <4>2, <5>2, <5>5
        <5> QED BY <3>3, <5>3, <5>4, <5>5
      <4>4. IsIntegration(j)'
        BY <4>2, <4>3 DEF IsIntegration, Fields, Used
      <4>5. Used(host.access)' /\ Used(host.secret)' /\ fresh' \in Nat /\ fresh' >= 2
        BY <1>2, <3>1 DEF Used
      <4> QED BY <3>1, <3>3, <4>4, <4>5 DEF KeysAreUsed
    <3> QED BY <2>3, <3>1, <3>2, <3>3 DEF StaffKeys
  <2>4. CASE DropVolume
    <3>1. /\ UNCHANGED <<host, fresh>> /\ integrations' = {} /\ orders' = <<>> /\ ShopShape'
      BY <2>4 DEF DropVolume, ShopShape, NewShop
    <3> QED BY <1>2, <3>1 DEF KeysAreUsed, HostShape, Used
  <2> QED BY <2>1, <2>2, <2>3, <2>4
<1>4. Held("order")' = 0 /\ Held("order") = 0
  BY <1>1 DEF Held
<1>5. OrdersAsPlanned'
  <2>1. CASE orders' = orders
    BY <2>1 DEF BootInv, OrdersAsPlanned
  <2>2. CASE orders' = <<>>
    BY <2>2, BootAssumption DEF OrdersAsPlanned
  <2> QED BY <1>3, <2>1, <2>2
<1>6. ShortOfStops'
  <2>1. Short(0)' \subseteq Short(0)
    BY <1>3 DEF Short
  <2>2. Cardinality(Short(0)') <= Cardinality(Short(0)) /\ Cardinality(Short(0)') \in Nat
    <3>1. IsFiniteSet(Short(0)) /\ Cardinality(Short(0)) \in Nat
      BY ShortIsFinite DEF BootInv, OrdersAsPlanned
    <3> QED BY <2>1, <3>1, FS_Subset, FS_CardinalityType
  <2>3. Cardinality(Short(0)) \in Nat
    BY ShortIsFinite DEF BootInv, OrdersAsPlanned
  <2> QED BY <1>1, <1>4, <2>2, <2>3 DEF ShortOfStops, BootInv, InRange
<1> QED BY <1>1, <1>3, <1>4, <1>5, <1>6
        DEF BootInv, InRange, HeldInRuns, CredentialsInHand, SecretInHand, KeyInHand, OrderInHand

\* A run begins, or comes to its end.
LEMMA Ends ==
  ASSUME BootInv, Start \/ Finish
  PROVE  BootInv' /\ NotCutOff
<1>1. UNCHANGED <<world, stops>> /\ (orders' = orders) /\ Held("order") = 0 /\ Held("order")' = 0
      /\ \/ pc = 0 /\ pc' = 1 /\ UNCHANGED held
         \/ pc' = 0 /\ pc = 41 /\ DOMAIN held' = {}
  <2>1. Held("order") = 0 /\ (pc = 0 => DOMAIN held = {})
    <3>1. pc # 34
      <4>1. pc = 0 \/ pc = Len(Calls) + 1
        BY DEF Start, Finish
      <4> QED BY <4>1, CallList
    <3> QED BY <3>1 DEF OrderInHand, BootInv, HeldInRuns
  <2>2. CASE Start
    BY <2>1, <2>2 DEF Start, world, Held
  <2>3. CASE Finish
    <3>1. UNCHANGED <<world, stops>> /\ pc' = 0 /\ pc = 41 /\ DOMAIN held' = {}
      BY <2>3, CallList DEF Finish, count
    <3> QED BY <2>1, <3>1 DEF world, Held
  <2> QED BY <2>2, <2>3
<1>2. KeysAreUsed' /\ NotCutOff
  BY <1>1, WorldKept DEF world
<1>3. OrdersAsPlanned' /\ OrderInHand' /\ ShortOfStops'
  <2>1. pc # 34 /\ pc' # 34
    BY <1>1
  <2> QED BY <1>1, <2>1, OrdersUntouched
<1> QED BY <1>1, <1>2, <1>3
        DEF BootInv, InRange, HeldInRuns, CredentialsInHand, SecretInHand, KeyInHand

-----------------------------------------------------------------------------
(* It holds from the start, and on. *)

\* The invariant holds at the start.
LEMMA BootStarts == ASSUME Init PROVE BootInv
<1>1. /\ pc = 0 /\ DOMAIN held = {} /\ orders = <<>> /\ integrations = {} /\ shop = NewShop
      /\ host = [handoff |-> 0, access |-> 0, secret |-> 0, pem |-> 0, profile |-> 0]
      /\ fresh = 2 /\ stops = 0
  BY DEF Init
<1>2. Held("order") = 0
  BY <1>1 DEF Held
<1>3. KeysAreUsed
  BY <1>1 DEF KeysAreUsed, ShopShape, HostShape, Used, NewShop
<1>4. OrdersAsPlanned
  BY <1>1, BootAssumption DEF OrdersAsPlanned
<1>5. ShortOfStops
  <2>1. Short(0) = {}
    BY <1>1 DEF Short
  <2> QED BY <1>1, <1>2, <2>1, FS_EmptySet DEF ShortOfStops
<1> QED BY <1>1, <1>2, <1>3, <1>4, <1>5
        DEF BootInv, InRange, HeldInRuns, CredentialsInHand, SecretInHand, KeyInHand, OrderInHand

\* Every step keeps the invariant, and no step of a run takes away what works.
LEMMA BootStep ==
  ASSUME BootInv, [Next]_vars
  PROVE  BootInv' /\ (pc # 0 => NotCutOff)
<1>1. CASE UNCHANGED vars
  <2>1. UNCHANGED <<pc, held, world, stops>>
    BY <1>1 DEF vars, count
  <2>2. KeysAreUsed' /\ NotCutOff
    BY <2>1, WorldKept DEF world
  <2>3. \A n : Short(n)' = Short(n)
    BY <2>1 DEF Short, world
  <2>4. Held("order")' = Held("order")
    BY <2>1 DEF Held
  <2>5. CredentialsInHand' /\ SecretInHand' /\ KeyInHand' /\ OrdersAsPlanned' /\ OrderInHand' /\ ShortOfStops'
    BY <2>1, <2>3, <2>4
       DEF world, BootInv, CredentialsInHand, SecretInHand, KeyInHand, OrdersAsPlanned, OrderInHand,
           ShortOfStops, LetsIn, Active, Used
  <2> QED BY <2>1, <2>2, <2>5 DEF BootInv, InRange, HeldInRuns
<1>2. CASE Ucp
  BY <1>2, PlainSteps, PlainKeeps, KeySteps, SecretIsShared DEF Ucp
<1>3. CASE Catalog
  BY <1>3, PlainSteps, PlainKeeps, RowsAreFiled, GroupIsFiled, FiledIsPlain DEF Catalog
<1>4. CASE Orders
  BY <1>4, CountSteps, OrderPlaced, OrderMoved DEF Orders
<1>5. CASE Credentials
  BY <1>5, PlainSteps, PlainKeeps, RowsAreFiled, FiledIsPlain, IntegrationStep, CredentialSteps DEF Credentials
<1>6. CASE Start \/ Fails \/ Finish
  BY <1>6, Ends, PlainSteps, PlainKeeps
<1>7. CASE StaffDelete \/ StaffEdit \/ StaffKeys \/ DropVolume
  BY <1>7, QuietSteps
<1> QED BY <1>1, <1>2, <1>3, <1>4, <1>5, <1>6, <1>7 DEF Next

-----------------------------------------------------------------------------
(* The rows a run sees to, by the place of their call: the name of each, the  *)
(* place of the row it is under and of the row it refers to, 0 for none.      *)

\* The places of the calls that see to a row, and the name of each row.
RowPlaces == (10 .. 23) \cup {25, 26} \cup (28 .. 32) \cup {36}

Names ==
  << "none", "none", "none", "none", "none", "none", "none", "none", "none",
     "Size", "S", "L", "l", "2-4-Tage", "CA-TSHIRT", "CA-TSHIRT-S", "CA-TSHIRT-L", "CA-OIL",
     "1-2-Tage", "Express", "Standard", "EUR", "EUR", "none",
     "Footer", "Service", "none", "Rechtliches", "AGB-page", "AGB", "Kontakt-page", "Kontakt",
     "none", "none", "none", "role", "none", "none", "none", "none" >>

\* The place of the row it is under, and of the row it refers to.
Above == << 0, 0, 0, 0, 0, 0, 0, 0, 0,  0, 10, 10, 0, 0, 0, 15, 15, 0,  0, 0, 0, 21, 20, 0,
            0, 0, 0, 25, 0, 28, 0, 26,  0, 0, 0,  0, 0, 0, 0, 0 >>
Refs  == << 0, 0, 0, 0, 0, 0, 0, 0, 0,  0, 0, 0, 0, 0, 14, 14, 14, 14,  0, 19, 0, 0, 0, 0,
            0, 0, 0, 0, 0, 29, 0, 31,  0, 0, 0,  0, 0, 0, 0, 0 >>

NameAt(p) == IF p = 0 THEN "none" ELSE Names[p]
Entry(i) == Row(Steps[i], Names[i], NameAt(Above[i]), NameAt(Refs[i]))

\* These are the calls.
LEMMA RowList == \A i \in RowPlaces : Calls[i] = Entry(i)
<1>1. \A i \in 1 .. 9 : Products[i] = Entry(9 + i)
  <2>1. Products[1] = Entry(10)
    BY DEF Products, Entry, Row, Steps, Names, Above, Refs, NameAt
  <2>2. Products[2] = Entry(11)
    BY DEF Products, Entry, Row, Steps, Names, Above, Refs, NameAt
  <2>3. Products[3] = Entry(12)
    BY DEF Products, Entry, Row, Steps, Names, Above, Refs, NameAt
  <2>4. Products[4] = Entry(13)
    BY DEF Products, Entry, Row, Steps, Names, Above, Refs, NameAt
  <2>5. Products[5] = Entry(14)
    BY DEF Products, Entry, Row, Steps, Names, Above, Refs, NameAt
  <2>6. Products[6] = Entry(15)
    BY DEF Products, Entry, Row, Steps, Names, Above, Refs, NameAt
  <2>7. Products[7] = Entry(16)
    BY DEF Products, Entry, Row, Steps, Names, Above, Refs, NameAt
  <2>8. Products[8] = Entry(17)
    BY DEF Products, Entry, Row, Steps, Names, Above, Refs, NameAt
  <2>9. Products[9] = Entry(18)
    BY DEF Products, Entry, Row, Steps, Names, Above, Refs, NameAt
  <2> QED BY <2>1, <2>2, <2>3, <2>4, <2>5, <2>6, <2>7, <2>8, <2>9
<1>2. \A i \in 1 .. 5 : Shipping[i] = Entry(18 + i)
  <2>1. Shipping[1] = Entry(19)
    BY DEF Shipping, Entry, Row, Steps, Names, Above, Refs, NameAt
  <2>2. Shipping[2] = Entry(20)
    BY DEF Shipping, Entry, Row, Steps, Names, Above, Refs, NameAt
  <2>3. Shipping[3] = Entry(21)
    BY DEF Shipping, Entry, Row, Steps, Names, Above, Refs, NameAt
  <2>4. Shipping[4] = Entry(22)
    BY DEF Shipping, Entry, Row, Steps, Names, Above, Refs, NameAt
  <2>5. Shipping[5] = Entry(23)
    BY DEF Shipping, Entry, Row, Steps, Names, Above, Refs, NameAt
  <2> QED BY <2>1, <2>2, <2>3, <2>4, <2>5
<1>3. \A i \in {1, 2, 4, 5, 6, 7, 8} : Policies[i] = Entry(24 + i)
  <2>1. Policies[1] = Entry(25)
    BY DEF Policies, Entry, Row, Steps, Names, Above, Refs, NameAt
  <2>2. Policies[2] = Entry(26)
    BY DEF Policies, Entry, Row, Steps, Names, Above, Refs, NameAt
  <2>3. Policies[4] = Entry(28)
    BY DEF Policies, Entry, Row, Steps, Names, Above, Refs, NameAt
  <2>4. Policies[5] = Entry(29)
    BY DEF Policies, Entry, Row, Steps, Names, Above, Refs, NameAt
  <2>5. Policies[6] = Entry(30)
    BY DEF Policies, Entry, Row, Steps, Names, Above, Refs, NameAt
  <2>6. Policies[7] = Entry(31)
    BY DEF Policies, Entry, Row, Steps, Names, Above, Refs, NameAt
  <2>7. Policies[8] = Entry(32)
    BY DEF Policies, Entry, Row, Steps, Names, Above, Refs, NameAt
  <2> QED BY <2>1, <2>2, <2>3, <2>4, <2>5, <2>6, <2>7
<1>4. \A i \in {1} : Identity[i] = Entry(35 + i)
  <2>1. Identity[1] = Entry(36)
    BY DEF Identity, Entry, Row, Steps, Names, Above, Refs, NameAt
  <2> QED BY <2>1
<1>5. \A i \in RowPlaces : \/ \E j \in 1 .. 9 : i = 9 + j
                           \/ \E j \in 1 .. 5 : i = 18 + j
                           \/ \E j \in {1, 2, 4, 5, 6, 7, 8} : i = 24 + j
                           \/ \E j \in {1} : i = 35 + j
  BY DEF RowPlaces
<1> QED BY <1>1, <1>2, <1>3, <1>4, <1>5, CallList

\* Each place of a row, one by one.
LEMMA EachPlace ==
  \A p \in RowPlaces :
    \/ p = 10 \/ p = 11 \/ p = 12 \/ p = 13 \/ p = 14 \/ p = 15 \/ p = 16 \/ p = 17 \/ p = 18 \/ p = 19
    \/ p = 20 \/ p = 21 \/ p = 22 \/ p = 23 \/ p = 25 \/ p = 26 \/ p = 28 \/ p = 29 \/ p = 30
    \/ p = 31 \/ p = 32 \/ p = 36
BY DEF RowPlaces

\* A name has one place, but for the two prices.
LEMMA NamePlaces ==
  \A p \in RowPlaces :
    /\ Names[p] = "Size" => p = 10
    /\ Names[p] = "S" => p = 11
    /\ Names[p] = "L" => p = 12
    /\ Names[p] = "l" => p = 13
    /\ Names[p] = "2-4-Tage" => p = 14
    /\ Names[p] = "CA-TSHIRT" => p = 15
    /\ Names[p] = "CA-TSHIRT-S" => p = 16
    /\ Names[p] = "CA-TSHIRT-L" => p = 17
    /\ Names[p] = "CA-OIL" => p = 18
    /\ Names[p] = "1-2-Tage" => p = 19
    /\ Names[p] = "Express" => p = 20
    /\ Names[p] = "Standard" => p = 21
    /\ Names[p] = "EUR" <=> p \in {22, 23}
    /\ Names[p] = "Footer" => p = 25
    /\ Names[p] = "Service" => p = 26
    /\ Names[p] = "Rechtliches" => p = 28
    /\ Names[p] = "AGB-page" => p = 29
    /\ Names[p] = "AGB" => p = 30
    /\ Names[p] = "Kontakt-page" => p = 31
    /\ Names[p] = "Kontakt" => p = 32
    /\ Names[p] = "role" => p = 36
    /\ Names[p] \notin Reserved \cup {"none"}
<1>1. \A p \in RowPlaces :
        /\ Names[p] = "Size" => p = 10
        /\ Names[p] = "S" => p = 11
        /\ Names[p] = "L" => p = 12
        /\ Names[p] = "l" => p = 13
        /\ Names[p] = "2-4-Tage" => p = 14
        /\ Names[p] = "CA-TSHIRT" => p = 15
        /\ Names[p] = "CA-TSHIRT-S" => p = 16
  BY EachPlace DEF Names
<1>2. \A p \in RowPlaces :
        /\ Names[p] = "CA-TSHIRT-L" => p = 17
        /\ Names[p] = "CA-OIL" => p = 18
        /\ Names[p] = "1-2-Tage" => p = 19
        /\ Names[p] = "Express" => p = 20
        /\ Names[p] = "Standard" => p = 21
        /\ Names[p] = "EUR" <=> p \in {22, 23}
        /\ Names[p] = "Footer" => p = 25
  BY EachPlace DEF Names
<1>3. \A p \in RowPlaces :
        /\ Names[p] = "Service" => p = 26
        /\ Names[p] = "Rechtliches" => p = 28
        /\ Names[p] = "AGB-page" => p = 29
        /\ Names[p] = "AGB" => p = 30
        /\ Names[p] = "Kontakt-page" => p = 31
        /\ Names[p] = "Kontakt" => p = 32
        /\ Names[p] = "role" => p = 36
  BY EachPlace DEF Names
<1>4. \A p \in RowPlaces : Names[p] \notin Reserved \cup {"none"}
  BY EachPlace DEF Names, Reserved
<1> QED BY <1>1, <1>2, <1>3, <1>4

\* A row's name, and for a price what it is under, tell its place.
LEMMA OnePlace ==
  \A i, j \in RowPlaces : Names[i] = Names[j] /\ (Names[i] = "EUR" => Above[i] = Above[j]) => i = j
<1> SUFFICES ASSUME NEW i \in RowPlaces, NEW j \in RowPlaces, Names[i] = Names[j],
                    Names[i] = "EUR" => Above[i] = Above[j]
             PROVE  i = j
  OBVIOUS
<1>1. CASE Names[i] = "EUR"
  <2>1. i \in {22, 23} /\ j \in {22, 23} /\ Above[i] = Above[j]
    <3>1. Names[j] = "EUR" /\ Above[i] = Above[j]
      BY <1>1
    <3>2. i \in {22, 23}
      BY <1>1, NamePlaces
    <3>3. j \in {22, 23}
      BY <3>1, NamePlaces
    <3> QED BY <3>1, <3>2, <3>3
  <2> QED BY <2>1 DEF Above
<1>2. CASE Names[i] # "EUR"
  <2>1. i \notin {22, 23}
    BY <1>2, NamePlaces
  <2>2. Names[i] \in {"Size", "S", "L", "l", "2-4-Tage", "CA-TSHIRT", "CA-TSHIRT-S", "CA-TSHIRT-L",
                     "CA-OIL", "1-2-Tage", "Express", "Standard", "Footer", "Service", "Rechtliches",
                     "AGB-page", "AGB", "Kontakt-page", "Kontakt", "role"}
    BY <2>1, EachPlace DEF Names
  <2> QED BY <2>2, NamePlaces
<1> QED BY <1>1, <1>2

\* Rows are seen to after the ones they are under or refer to, of which none is a price or the
\* unit, and no row has three others above it.
LEMMA RowsInOrder ==
  \A i \in RowPlaces :
    /\ i \in 1 .. 40
    /\ Above[i] = 0 \/ (Above[i] \in RowPlaces \ {13, 22, 23} /\ Above[i] < i)
    /\ Refs[i] = 0 \/ (Refs[i] \in RowPlaces \ {13, 22, 23} /\ Refs[i] < i)
    /\ Above[i] # 0 /\ Above[Above[i]] # 0 => Above[Above[Above[i]]] = 0
BY EachPlace DEF Above, Refs, RowPlaces

-----------------------------------------------------------------------------
(* The rows of the shop, whoever wrote them last. *)

\* What staff may edit; the other rows are as they were written.
Editable == {"Standard", "Express", "EUR", "AGB", "role"}

\* The fields of a row.
RowFields == {"name", "id", "under", "ref", "good"}

\* A row has its fields, a number that was given out, and is good if staff may not edit it.
IsRow(r) ==
  /\ DOMAIN r = RowFields
  /\ r.id \in Nat /\ r.id # 0 /\ r.id < fresh
  /\ r.good \in BOOLEAN /\ (r.good \/ r.name \in Editable)

\* A row of R for the call at a place, and the row that it is under.
Seat(r, i, R) ==
  /\ r.name = Names[i]
  /\ IF Above[i] = 0 THEN r.under = 0 ELSE \E p \in R : p.name = Names[Above[i]] /\ p.id = r.under

\* The same name, and of prices the same method.
SameKey(r, s) == r.name = s.name /\ (r.name = "EUR" => r.under = s.under)

\* Every row has a seat; there is one of each name, one price of each method, one of each number.
RowsWell ==
  /\ \A r \in rows : IsRow(r) /\ \E i \in RowPlaces : Seat(r, i, rows)
  /\ \A r, s \in rows : SameKey(r, s) \/ r.id = s.id => r = s

\* The same row, written again.
Like(m, r) == m.name = r.name /\ m.id = r.id /\ m.under = r.under

AllStay == \A r \in rows : \E s \in rows' : Like(s, r)

\* Some rows are written again and others join.
Joins(X, M) ==
  /\ X \subseteq rows /\ rows' = (rows \ X) \cup M
  /\ \A m \in M : IsRow(m)' /\ \E i \in RowPlaces : Seat(m, i, rows')
  /\ \A r \in X : \E m \in M : Like(m, r)
  /\ \A m \in M : \A s \in rows \ X : ~SameKey(m, s) /\ m.id # s.id
  /\ \A m, n \in M : SameKey(m, n) \/ m.id = n.id => m = n

\* Then the rows are still well, and none is gone.
LEMMA RowsReplaced ==
  ASSUME RowsWell, NEW X, NEW M, Joins(X, M),
         fresh \in Nat, fresh' \in Nat, fresh' >= fresh
  PROVE  RowsWell' /\ AllStay
<1>0. /\ X \subseteq rows /\ rows' = (rows \ X) \cup M
      /\ \A m \in M : IsRow(m)' /\ \E i \in RowPlaces : Seat(m, i, rows')
      /\ \A r \in X : \E m \in M : Like(m, r)
      /\ \A m \in M : \A s \in rows \ X : ~SameKey(m, s) /\ m.id # s.id
      /\ \A m, n \in M : SameKey(m, n) \/ m.id = n.id => m = n
  BY DEF Joins
<1>1. AllStay
  BY <1>0 DEF AllStay, Like
<1>2. ASSUME NEW r \in rows' PROVE IsRow(r)' /\ \E i \in RowPlaces : Seat(r, i, rows')
  <2>1. CASE r \in M
    BY <1>0, <2>1
  <2>2. CASE r \in rows
    <3>1. IsRow(r)'
      BY <1>0, <2>2 DEF RowsWell, IsRow
    <3>2. PICK i \in RowPlaces : Seat(r, i, rows)
      BY <2>2 DEF RowsWell
    <3>3. Seat(r, i, rows')
      BY <1>1, <3>2 DEF Seat, AllStay, Like
    <3> QED BY <3>1, <3>3
  <2> QED BY <1>0, <2>1, <2>2
<1>3. ASSUME NEW r \in rows', NEW s \in rows', SameKey(r, s) \/ r.id = s.id PROVE r = s
  <2>1. CASE r \in M /\ s \in M
    BY <1>0, <1>3, <2>1
  <2>2. CASE r \in rows \ X /\ s \in rows \ X
    BY <1>3, <2>2 DEF RowsWell
  <2>3. CASE r \in M /\ s \in rows \ X
    BY <1>0, <1>3, <2>3
  <2>4. CASE r \in rows \ X /\ s \in M
    <3>1. SameKey(s, r) \/ s.id = r.id
      BY <1>3 DEF SameKey
    <3> QED BY <1>0, <2>4, <3>1
  <2> QED BY <1>0, <2>1, <2>2, <2>3, <2>4
<1>4. \A r \in rows' : \A s \in rows' : SameKey(r, s) \/ r.id = s.id => r = s
  BY <1>3
<1> QED BY <1>1, <1>2, <1>4 DEF RowsWell

-----------------------------------------------------------------------------
(* What a run has seen to. *)

\* A row as the call at a place wants it.
Sits(r, i) ==
  /\ r.name = Names[i] /\ r.under = Held(NameAt(Above[i])) /\ r.good
  /\ Names[i] # "EUR" => Held(Names[i]) = r.id
  /\ Refs[i] # 0 => r.ref = Held(NameAt(Refs[i]))

\* Every row of a call that is behind is as it should be; the unit may have been refused.
RowsDone ==
  /\ "none" \notin DOMAIN held
  /\ \A i \in RowPlaces \ {13} : i < pc => \E r \in rows : Sits(r, i)

\* What the call names.
LEMMA CallAt ==
  ASSUME pc \in RowPlaces
  PROVE  /\ Call.op = Steps[pc] /\ Call.name = Names[pc]
         /\ Call.under = NameAt(Above[pc]) /\ Call.ref = NameAt(Refs[pc])
<1>1. Calls[pc] = Entry(pc)
  BY RowList
<1>2. /\ Entry(pc).op = Steps[pc] /\ Entry(pc).name = Names[pc]
      /\ Entry(pc).under = NameAt(Above[pc]) /\ Entry(pc).ref = NameAt(Refs[pc])
  BY DEF Entry, Row
<1> QED BY <1>1, <1>2 DEF Call

\* The run holds the ids of the rows it has seen to.
LEMMA Holder ==
  ASSUME RowsWell, RowsDone, NEW j \in RowPlaces \ {13, 22, 23}, j < pc,
         NEW p \in rows, p.name = Names[j]
  PROVE  Sits(p, j) /\ Held(Names[j]) = p.id
<1>1. PICK s \in rows : Sits(s, j)
  BY DEF RowsDone
<1>2. Names[j] # "EUR"
  BY NamePlaces
<1>3. s = p
  BY <1>1, <1>2 DEF RowsWell, SameKey, Sits
<1> QED BY <1>1, <1>2, <1>3 DEF Sits

\* A row stands where the call looks for it.
LEMMA SeatIsUnder ==
  ASSUME RowsWell, RowsDone, pc \in RowPlaces, NEW r \in rows, r.name = Names[pc], Names[pc] # "EUR"
  PROVE  r.under = Held(NameAt(Above[pc]))
<1>1. PICK i \in RowPlaces : Seat(r, i, rows)
  BY DEF RowsWell
<1>2. i = pc
  BY <1>1, OnePlace DEF Seat
<1>3. CASE Above[pc] = 0
  BY <1>1, <1>2, <1>3 DEF Seat, NameAt, Held, RowsDone
<1>4. CASE Above[pc] # 0
  <2>1. Above[pc] \in RowPlaces \ {13, 22, 23} /\ Above[pc] < pc
    BY <1>4, RowsInOrder
  <2>2. PICK p \in rows : p.name = Names[Above[pc]] /\ p.id = r.under
    BY <1>1, <1>2, <1>4 DEF Seat
  <2> QED BY <1>4, <2>1, <2>2, Holder DEF NameAt
<1> QED BY <1>3, <1>4

\* What a call finds.
LEMMA FoundRows ==
  ASSUME RowsWell, RowsDone, pc \in RowPlaces
  PROVE  Found(Call) = {r \in rows : r.name = Names[pc] /\ r.under = Held(NameAt(Above[pc]))}
<1>1. Call.op = Steps[pc] /\ Call.name = Names[pc] /\ Call.under = NameAt(Above[pc])
  BY CallAt
<1>2. CASE Names[pc] # "EUR"
  BY <1>1, <1>2, SeatIsUnder DEF Found
<1>3. CASE Names[pc] = "EUR"
  <2>1. Steps[pc] = "price"
    <3>1. pc \in {22, 23}
      BY <1>3, NamePlaces
    <3> QED BY <3>1 DEF Steps
  <2> QED BY <1>1, <2>1 DEF Found
<1> QED BY <1>2, <1>3

\* Written as the call at pc wants it.
Fits(m) ==
  /\ DOMAIN m = RowFields /\ m.good \in BOOLEAN /\ m.good
  /\ Refs[pc] # 0 => m.ref = Held(NameAt(Refs[pc]))

\* The call's row is made, or the one there is written again.
Put(id) ==
  \/ /\ Found(Call) = {} /\ id = fresh
     /\ rows' = rows \cup {New(Call)} /\ fresh' = fresh + 1
  \/ \E r \in Found(Call) : \E m :
       /\ Like(m, r) /\ Fits(m) /\ id = r.id
       /\ rows' = (rows \ {r}) \cup {m} /\ fresh' = fresh

\* A row that is under the right one has a seat.
LEMMA Seated ==
  ASSUME RowsWell, RowsDone, pc \in RowPlaces, NEW m, m.name = Names[pc],
         m.under = Held(NameAt(Above[pc]))
  PROVE  Seat(m, pc, rows)
<1>1. CASE Above[pc] = 0
  BY <1>1 DEF Seat, NameAt, Held, RowsDone
<1>2. CASE Above[pc] # 0
  <2>1. Above[pc] \in RowPlaces \ {13, 22, 23} /\ Above[pc] < pc
    BY <1>2, RowsInOrder
  <2>2. PICK p \in rows : Sits(p, Above[pc])
    BY <2>1 DEF RowsDone
  <2>3. Names[Above[pc]] # "EUR"
    BY <2>1, NamePlaces
  <2> QED BY <1>2, <2>2, <2>3 DEF Seat, Sits, NameAt
<1> QED BY <1>1, <1>2

\* What is new has the fields of a row.
LEMMA NewRow ==
  ASSUME pc \in RowPlaces
  PROVE  LET m == New(Call) IN
           /\ DOMAIN m = RowFields /\ m.id = fresh /\ m.good \in BOOLEAN /\ m.good
           /\ m.name = Names[pc] /\ m.under = Held(NameAt(Above[pc])) /\ m.ref = Held(NameAt(Refs[pc]))
BY CallAt DEF New, RowFields

\* Rows stay well.
LEMMA PutRows ==
  ASSUME RowsWell, RowsDone, pc \in RowPlaces, fresh \in Nat, fresh >= 2, NEW id, Put(id)
  PROVE  RowsWell' /\ AllStay
<1>0. Found(Call) = {r \in rows : r.name = Names[pc] /\ r.under = Held(NameAt(Above[pc]))}
  BY FoundRows
<1>1. CASE /\ Found(Call) = {} /\ id = fresh
           /\ rows' = rows \cup {New(Call)} /\ fresh' = fresh + 1
  <2> DEFINE m == New(Call)
  <2>1. /\ DOMAIN m = RowFields /\ m.id = fresh /\ m.good \in BOOLEAN /\ m.good
        /\ m.name = Names[pc] /\ m.under = Held(NameAt(Above[pc]))
    BY NewRow
  <2>2. rows' = (rows \ {}) \cup {m} /\ fresh' \in Nat /\ fresh' >= fresh
    BY <1>1
  <2> HIDE DEF m
  <2>3. \A x \in {m} : IsRow(x)'
    <3> SUFFICES ASSUME NEW x, x = m PROVE IsRow(x)'
      OBVIOUS
    <3>1. x.id \in Nat /\ x.id # 0 /\ x.id < fresh'
      BY <1>1, <2>1
    <3>2. DOMAIN x = RowFields /\ x.good \in BOOLEAN /\ x.good
      BY <2>1
    <3> QED BY <3>1, <3>2 DEF IsRow
  <2>4. Seat(m, pc, rows)
    BY <2>1, Seated
  <2>5. \A x \in {m} : \E i \in RowPlaces : Seat(x, i, rows')
    BY <2>2, <2>4 DEF Seat
  <2>6. \A s \in rows : ~SameKey(m, s) /\ m.id # s.id
    <3> SUFFICES ASSUME NEW s \in rows PROVE ~SameKey(m, s) /\ m.id # s.id
      OBVIOUS
    <3>1. m.id # s.id
      BY <2>1 DEF RowsWell, IsRow
    <3>2. ~(s.name = Names[pc] /\ s.under = Held(NameAt(Above[pc])))
      BY <1>0, <1>1
    <3>3. s.name = Names[pc] /\ Names[pc] # "EUR" => s.under = Held(NameAt(Above[pc]))
      BY SeatIsUnder
    <3> QED BY <2>1, <3>1, <3>2, <3>3 DEF SameKey
  <2>7. Joins({}, {m})
    BY <2>2, <2>3, <2>5, <2>6 DEF Joins
  <2> QED BY <2>2, <2>7, RowsReplaced
<1>2. ASSUME NEW r \in Found(Call), NEW m,
             Like(m, r), Fits(m), id = r.id, rows' = (rows \ {r}) \cup {m}, fresh' = fresh
      PROVE  RowsWell' /\ AllStay
  <2>1. r \in rows /\ IsRow(r) /\ m.name = Names[pc] /\ m.under = Held(NameAt(Above[pc]))
    BY <1>0, <1>2 DEF RowsWell, Like
  <2>2. \A x \in {m} : IsRow(x)'
    BY <1>2, <2>1 DEF IsRow, Like, Fits
  <2>3. PICK i \in RowPlaces : Seat(r, i, rows)
    BY <2>1 DEF RowsWell
  <2>4. \A x \in {m} : \E j \in RowPlaces : Seat(x, j, rows')
    <3>1. ASSUME Above[i] # 0
          PROVE  \E p \in rows' : p.name = Names[Above[i]] /\ p.id = m.under
      BY <1>2, <2>3, <3>1 DEF Seat, Like
    <3>2. Seat(m, i, rows')
      BY <1>2, <2>3, <3>1 DEF Seat, Like
    <3> QED BY <3>2
  <2>5. \A s \in rows \ {r} : ~SameKey(m, s) /\ m.id # s.id
    BY <1>2, <2>1 DEF RowsWell, SameKey, Like
  <2>6. Joins({r}, {m})
    BY <1>2, <2>1, <2>2, <2>4, <2>5 DEF Joins
  <2>7. fresh' \in Nat /\ fresh' >= fresh
    BY <1>2
  <2> QED BY <2>6, <2>7, RowsReplaced
<1> QED BY <1>1, <1>2 DEF Put

\* What is held under the names of earlier rows stays.
LEMMA HeldEarlier ==
  ASSUME pc \in RowPlaces, NEW id, held' = Holding(Names[pc], id), NEW i \in RowPlaces, i < pc,
         RowsDone
  PROVE  /\ Names[i] # "EUR" => Held(Names[i])' = Held(Names[i])
         /\ Held(NameAt(Above[i]))' = Held(NameAt(Above[i]))
         /\ Held(NameAt(Refs[i]))' = Held(NameAt(Refs[i]))
<1>1. \A n : n # Names[pc] => Held(n)' = Held(n)
  BY DEF Held, Holding, Noted
<1>2. ASSUME NEW j \in RowPlaces, j < pc, Names[j] # "EUR" PROVE Names[j] # Names[pc]
  BY <1>2, OnePlace, RowsInOrder
<1>3. Names[pc] # "none"
  BY NamePlaces
<1>4. ASSUME NEW j, j = 0 \/ (j \in RowPlaces \ {13, 22, 23} /\ j < i)
      PROVE  NameAt(j) # Names[pc]
  <2>1. CASE j = 0
    BY <1>3, <2>1 DEF NameAt
  <2>2. CASE j # 0
    <3>1. j \in RowPlaces /\ j < pc /\ Names[j] # "EUR"
      <4>1. j \in Nat /\ i \in Nat /\ pc \in Nat /\ j < i /\ i < pc
        BY <1>4, <2>2 DEF RowPlaces
      <4> QED BY <1>4, <2>2, <4>1, NamePlaces
    <3> QED BY <1>2, <2>2, <3>1 DEF NameAt
  <2> QED BY <2>1, <2>2
<1>5. NameAt(Above[i]) # Names[pc] /\ NameAt(Refs[i]) # Names[pc]
  BY <1>4, RowsInOrder
<1> QED BY <1>1, <1>2, <1>5

\* And what the row of the call itself is under and refers to.
LEMMA HeldHere ==
  ASSUME NEW p \in RowPlaces, p = pc, NEW id, held' = Holding(Names[p], id)
  PROVE  /\ Held(Names[p])' = id
         /\ Held(NameAt(Above[p]))' = Held(NameAt(Above[p]))
         /\ Held(NameAt(Refs[p]))' = Held(NameAt(Refs[p]))
         /\ "none" \notin DOMAIN held => "none" \notin DOMAIN held'
<1>1. /\ \A n : n # Names[p] => Held(n)' = Held(n)
      /\ Held(Names[p])' = id
      /\ DOMAIN held' = DOMAIN held \cup {Names[p]}
  BY DEF Held, Holding, Noted
<1>2. Names[p] # "none"
  BY NamePlaces
<1>3. ASSUME NEW j, j = 0 \/ (j \in RowPlaces \ {13, 22, 23} /\ j < p)
      PROVE  NameAt(j) # Names[p]
  <2>1. CASE j = 0
    BY <1>2, <2>1 DEF NameAt
  <2>2. CASE j # 0
    <3>1. j \in RowPlaces /\ j # p /\ Names[j] # "EUR"
      BY <1>3, <2>2, NamePlaces, RowsInOrder
    <3> QED BY <2>2, <3>1, OnePlace DEF NameAt
  <2> QED BY <2>1, <2>2
<1>4. NameAt(Above[p]) # Names[p] /\ NameAt(Refs[p]) # Names[p]
  BY <1>3, RowsInOrder
<1> QED BY <1>1, <1>2, <1>4

\* The two methods are different rows.
LEMMA TwoMethods ==
  ASSUME RowsWell, RowsDone, pc \in {22, 23}
  PROVE  Held("Standard") # Held("Express")
<1>1. 20 \in RowPlaces \ {13, 22, 23} /\ 21 \in RowPlaces \ {13, 22, 23} /\ 20 < pc /\ 21 < pc
  BY DEF RowPlaces
<1>2. Names[20] = "Express" /\ Names[21] = "Standard"
  BY DEF Names
<1>3. PICK r \in rows : Sits(r, 20)
  BY <1>1 DEF RowsDone
<1>4. PICK s \in rows : Sits(s, 21)
  BY <1>1 DEF RowsDone
<1>5. Held("Express") = r.id /\ Held("Standard") = s.id /\ r.name = "Express" /\ s.name = "Standard"
  BY <1>2, <1>3, <1>4 DEF Sits
<1> QED BY <1>5 DEF RowsWell

\* Rows seen to earlier are not written again.
LEMMA EarlierStays ==
  ASSUME RowsWell, RowsDone, pc \in RowPlaces, NEW id, Put(id),
         NEW i \in RowPlaces, i < pc, NEW s \in rows, Sits(s, i)
  PROVE  s \in rows'
<1>1. ASSUME NEW r \in Found(Call) PROVE r # s
  <2> SUFFICES ASSUME r = s PROVE FALSE
    OBVIOUS
  <2>1. s.name = Names[pc] /\ s.under = Held(NameAt(Above[pc]))
    BY <1>1, FoundRows
  <2>2. Names[i] = Names[pc] /\ s.under = Held(NameAt(Above[i])) /\ i # pc
    BY <2>1, RowsInOrder DEF Sits
  <2>3. Names[pc] = "EUR"
    BY <2>2, OnePlace
  <2>4. i \in {22, 23}
    BY <2>2, <2>3, NamePlaces
  <2>5. pc \in {22, 23}
    BY <2>3, NamePlaces
  <2>6. i = 22 /\ pc = 23
    BY <2>4, <2>5
  <2>7. NameAt(Above[i]) = "Standard" /\ NameAt(Above[pc]) = "Express"
    BY <2>6 DEF NameAt, Above, Names
  <2> QED BY <2>1, <2>2, <2>5, <2>7, TwoMethods
<1> QED BY <1>1 DEF Put

\* The row of the call is then as the call wants it, and those before it still are.
LEMMA PutDone ==
  ASSUME RowsWell, RowsDone, pc \in RowPlaces, NEW id, Put(id),
         held' = Holding(Names[pc], id), pc' = pc + 1
  PROVE  RowsDone'
<1>1. "none" \notin DOMAIN held'
  <2>1. PICK p \in RowPlaces : p = pc
    OBVIOUS
  <2> QED BY <2>1, HeldHere DEF RowsDone
<1>2. ASSUME NEW i \in RowPlaces \ {13}, i < pc, NEW s \in rows, Sits(s, i)
      PROVE  s \in rows' /\ Sits(s, i)'
  <2>1. s \in rows'
    BY <1>2, EarlierStays
  <2>2. /\ Names[i] # "EUR" => Held(Names[i])' = Held(Names[i])
        /\ Held(NameAt(Above[i]))' = Held(NameAt(Above[i]))
        /\ Held(NameAt(Refs[i]))' = Held(NameAt(Refs[i]))
    BY <1>2, HeldEarlier
  <2> QED BY <1>2, <2>1, <2>2 DEF Sits
<1>3. ASSUME NEW i \in RowPlaces, i = pc PROVE \E r \in rows' : Sits(r, i)'
  <2>1. /\ Held(Names[i])' = id
        /\ Held(NameAt(Above[i]))' = Held(NameAt(Above[i]))
        /\ Held(NameAt(Refs[i]))' = Held(NameAt(Refs[i]))
    BY <1>3, HeldHere
  <2>2. PICK m \in rows' : /\ m.name = Names[pc] /\ m.under = Held(NameAt(Above[pc])) /\ m.id = id /\ m.good
                           /\ Refs[pc] # 0 => m.ref = Held(NameAt(Refs[pc]))
    <3>1. CASE /\ Found(Call) = {} /\ id = fresh
               /\ rows' = rows \cup {New(Call)} /\ fresh' = fresh + 1
      BY <3>1, NewRow
    <3>2. ASSUME NEW r \in Found(Call), NEW m,
                 Like(m, r), Fits(m), id = r.id, rows' = (rows \ {r}) \cup {m}
          PROVE  \E x \in rows' : /\ x.name = Names[pc] /\ x.under = Held(NameAt(Above[pc])) /\ x.id = id /\ x.good
                                  /\ Refs[pc] # 0 => x.ref = Held(NameAt(Refs[pc]))
      <4>1. m \in rows' /\ m.name = Names[pc] /\ m.under = Held(NameAt(Above[pc])) /\ m.id = id
        BY <3>2, FoundRows DEF Like
      <4> QED BY <3>2, <4>1 DEF Fits
    <3> QED BY <3>1, <3>2 DEF Put
  <2>3. /\ m.name = Names[i] /\ m.under = Held(NameAt(Above[i])) /\ m.id = id /\ m.good
        /\ Refs[i] # 0 => m.ref = Held(NameAt(Refs[i]))
    BY <1>3, <2>2
  <2>4. Sits(m, i)'
    BY <2>1, <2>3 DEF Sits
  <2> QED BY <2>4
<1>4. ASSUME NEW i \in RowPlaces \ {13}, i < pc' PROVE \E r \in rows' : Sits(r, i)'
  <2>1. CASE i = pc
    BY <1>3, <2>1
  <2>2. CASE i # pc
    <3>1. i < pc
      BY <1>4, <2>2, RowsInOrder
    <3>2. PICK s \in rows : Sits(s, i)
      BY <3>1 DEF RowsDone
    <3> QED BY <1>2, <3>1, <3>2
  <2> QED BY <2>1, <2>2
<1> QED BY <1>1, <1>4 DEF RowsDone

\* What is held under the names of rows.
KeepsRows(h) ==
  /\ "none" \notin DOMAIN held => "none" \notin DOMAIN h
  /\ \A p \in RowPlaces : IF Names[p] \in DOMAIN held
                         THEN Names[p] \in DOMAIN h /\ h[Names[p]] = held[Names[p]]
                         ELSE Names[p] \notin DOMAIN h

\* A step that does not touch the rows.
LEMMA RowsAside ==
  ASSUME RowsDone, rows' = rows, KeepsRows(held'),
         \A i \in RowPlaces \ {13} : i < pc' => i < pc
  PROVE  RowsDone'
<1>1. "none" \notin DOMAIN held /\ "none" \notin DOMAIN held'
  BY DEF RowsDone, KeepsRows
<1>2. \A p \in RowPlaces : Held(Names[p])' = Held(Names[p])
  BY DEF KeepsRows, Held
<1>3. \A p \in RowPlaces : /\ Held(NameAt(Above[p]))' = Held(NameAt(Above[p]))
                          /\ Held(NameAt(Refs[p]))' = Held(NameAt(Refs[p]))
  <2>1. Held("none") = 0 /\ Held("none")' = 0
    BY <1>1 DEF Held
  <2> QED BY <1>2, <2>1, RowsInOrder DEF NameAt
<1>4. ASSUME NEW i \in RowPlaces \ {13}, i < pc' PROVE \E r \in rows' : Sits(r, i)'
  <2>1. PICK r \in rows : Sits(r, i)
    BY <1>4 DEF RowsDone
  <2>2. Sits(r, i)'
    BY <1>2, <1>3, <2>1 DEF Sits
  <2> QED BY <2>1, <2>2
<1> QED BY <1>1, <1>4 DEF RowsDone

-----------------------------------------------------------------------------
(* Each operation on rows puts the call's row there. *)

\* What the operations at the places of rows are about.
LEMMA StepPlaces ==
  \A p \in 1 .. 40 :
    /\ Steps[p] \in RowCalls => p \in RowPlaces
    /\ Steps[p] \in {"group", "option", "unit", "time", "page"} => Names[p] \notin Editable /\ Refs[p] = 0
    /\ Steps[p] \in {"standard", "price", "root", "role"} => Refs[p] = 0
    /\ Steps[p] = "product" => Names[p] \notin Editable
    /\ Steps[p] = "root" => p \in {25, 26}
<1>1. \A p \in 1 .. 40 : p \in RowPlaces \/ p \in 1 .. 9 \/ p \in {24, 27} \/ p \in 33 .. 35 \/ p \in 37 .. 40
  BY DEF RowPlaces
<1>2. \A p \in 1 .. 40 : p \in 1 .. 9 \/ p \in {24, 27} \/ p \in 33 .. 35 \/ p \in 37 .. 40 =>
        Steps[p] \notin RowCalls
  <2>1. \A p \in 1 .. 9 : p = 1 \/ p = 2 \/ p = 3 \/ p = 4 \/ p = 5 \/ p = 6 \/ p = 7 \/ p = 8 \/ p = 9
    OBVIOUS
  <2>2. \A p \in 33 .. 35 : p = 33 \/ p = 34 \/ p = 35
    OBVIOUS
  <2>3. \A p \in 37 .. 40 : p = 37 \/ p = 38 \/ p = 39 \/ p = 40
    OBVIOUS
  <2> QED BY <2>1, <2>2, <2>3 DEF Steps, RowCalls
<1>3. \A p \in RowPlaces :
        /\ Steps[p] \in {"group", "option", "unit", "time", "page"} => Names[p] \notin Editable /\ Refs[p] = 0
        /\ Steps[p] \in {"standard", "price", "root", "role"} => Refs[p] = 0
        /\ Steps[p] = "product" => Names[p] \notin Editable
        /\ Steps[p] = "root" => p \in {25, 26}
  BY EachPlace DEF Steps, Names, Refs, Editable
<1> QED BY <1>1, <1>2, <1>3 DEF RowCalls

\* Writing whether a row is good.
LEMMA GoodEdit ==
  ASSUME NEW r, DOMAIN r = RowFields, NEW v
  PROVE  LET m == [r EXCEPT !.good = v] IN DOMAIN m = RowFields /\ m.good = v /\ m.ref = r.ref /\ Like(m, r)
BY DEF RowFields, Like

\* What it refers to.
LEMMA RefEdit ==
  ASSUME NEW r, DOMAIN r = RowFields, NEW x
  PROVE  LET m == [r EXCEPT !.ref = x] IN DOMAIN m = RowFields /\ m.good = r.good /\ m.ref = x /\ Like(m, r)
BY DEF RowFields, Like

\* That and whether it is good.
LEMMA RefGoodEdit ==
  ASSUME NEW r, DOMAIN r = RowFields, NEW x, NEW v
  PROVE  LET m == [r EXCEPT !.ref = x, !.good = v]
         IN  DOMAIN m = RowFields /\ m.good = v /\ m.ref = x /\ Like(m, r)
BY DEF RowFields, Like

\* The other way round.
LEMMA GoodRefEdit ==
  ASSUME NEW r, DOMAIN r = RowFields, NEW x, NEW v
  PROVE  LET m == [r EXCEPT !.good = v, !.ref = x]
         IN  DOMAIN m = RowFields /\ m.good = v /\ m.ref = x /\ Like(m, r)
BY DEF RowFields, Like

\* The roots that the channel names are there.
RootsNamed ==
  /\ shop.footer # 0 => \E r \in rows : r.name = "Footer" /\ r.id = shop.footer
  /\ shop.service # 0 => \E r \in rows : r.name = "Service" /\ r.id = shop.service

\* A row as an operation leaves it, if it was there.
Writes(op, r, m) == At(op) /\ op \in RowCalls /\ r \in Found(Call) /\ Like(m, r) /\ Fits(m)

\* Looking, then making or writing again.
LEMMA EnsurePuts ==
  ASSUME RowsWell, RowsDone, NEW op \in RowCalls, At(op),
         \/ /\ Found(Call) = {}
            /\ rows' = rows \cup {New(Call)} /\ fresh' = fresh + 1
            /\ Then(Holding(Call.name, fresh))
         \/ \E r \in Found(Call) : \E m :
              /\ Writes(op, r, m)
              /\ rows' = (rows \ {r}) \cup {m} /\ fresh' = fresh
              /\ Then(Holding(Call.name, r.id))
  PROVE  pc \in RowPlaces /\ \E id : Put(id) /\ Then(Holding(Names[pc], id))
<1>1. pc \in RowPlaces
  BY AtStep, StepPlaces
<1>2. Call.name = Names[pc]
  BY <1>1, CallAt
<1>3. CASE /\ Found(Call) = {}
           /\ rows' = rows \cup {New(Call)} /\ fresh' = fresh + 1
           /\ Then(Holding(Call.name, fresh))
  <2>1. Put(fresh)
    BY <1>3 DEF Put
  <2> QED BY <1>1, <1>2, <1>3, <2>1
<1>4. ASSUME NEW r \in Found(Call), NEW m, Writes(op, r, m),
             rows' = (rows \ {r}) \cup {m}, fresh' = fresh, Then(Holding(Call.name, r.id))
      PROVE  \E id : Put(id) /\ Then(Holding(Names[pc], id))
  <2>1. Put(r.id)
    BY <1>4 DEF Put, Writes
  <2> QED BY <1>2, <1>4, <2>1
<1> QED BY <1>1, <1>3, <1>4

\* A row that is found.
LEMMA FoundRow ==
  ASSUME RowsWell, RowsDone, NEW op \in RowCalls, At(op), NEW r \in Found(Call)
  PROVE  /\ pc \in RowPlaces /\ Steps[pc] = op /\ Call.ref = NameAt(Refs[pc])
         /\ r \in rows /\ DOMAIN r = RowFields /\ r.good \in BOOLEAN
         /\ r.good \/ Names[pc] \in Editable
<1>1. pc \in RowPlaces /\ Steps[pc] = op
  BY AtStep, StepPlaces
<1>2. r \in rows /\ r.name = Names[pc]
  BY <1>1, FoundRows
<1> QED BY <1>1, <1>2, CallAt DEF RowsWell, IsRow

\* What is left as it is fits.
LEMMA AsItIsFits ==
  ASSUME RowsWell, RowsDone, NEW op \in {"group", "option", "unit", "time", "page"}, At(op),
         NEW r \in Found(Call)
  PROVE  Writes(op, r, AsItIs(r))
<1>1. op \in RowCalls
  BY DEF RowCalls
<1>2. pc \in 1 .. 40 /\ Steps[pc] = op /\ DOMAIN r = RowFields /\ r.good \in BOOLEAN
      /\ (r.good \/ Names[pc] \in Editable)
  BY <1>1, FoundRow, AtStep
<1>3. Names[pc] \notin Editable /\ Refs[pc] = 0
  BY <1>2, StepPlaces
<1>4. Fits(r)
  BY <1>2, <1>3 DEF Fits
<1> QED BY <1>1, <1>4 DEF Writes, AsItIs, Like

\* What is made usable fits.
LEMMA UsableFits ==
  ASSUME RowsWell, RowsDone, NEW op \in {"standard", "price", "root", "role"}, At(op),
         NEW r \in Found(Call)
  PROVE  Writes(op, r, Usable(r))
<1>1. op \in RowCalls
  BY DEF RowCalls
<1>2. pc \in 1 .. 40 /\ Steps[pc] = op /\ DOMAIN r = RowFields
  BY <1>1, FoundRow, AtStep
<1>3. Refs[pc] = 0
  BY <1>2, StepPlaces
<1> DEFINE yes == TRUE
<1>4. yes \in BOOLEAN /\ yes
  OBVIOUS
<1> HIDE DEF yes
<1> DEFINE m == [r EXCEPT !.good = yes]
<1>5. DOMAIN m = RowFields /\ m.good = yes /\ Like(m, r)
  BY <1>2, GoodEdit
<1>6. Usable(r) = m
  BY DEF Usable, yes
<1> HIDE DEF m
<1>7. Fits(m)
  BY <1>3, <1>4, <1>5 DEF Fits
<1> QED BY <1>1, <1>5, <1>6, <1>7 DEF Writes

\* A product's delivery time, and Express.
LEMMA TimedFits ==
  ASSUME RowsWell, RowsDone, NEW r \in Found(Call)
  PROVE  /\ At("product") => Writes("product", r, [r EXCEPT !.ref = Held(Call.ref)])
         /\ At("express") => Writes("express", r, [r EXCEPT !.ref = Held(Call.ref), !.good = TRUE])
<1> DEFINE yes == TRUE
<1>0. yes \in BOOLEAN /\ yes
  OBVIOUS
<1> HIDE DEF yes
<1>1. ASSUME At("product") PROVE Writes("product", r, [r EXCEPT !.ref = Held(Call.ref)])
  <2>1. "product" \in RowCalls
    BY DEF RowCalls
  <2>2. pc \in 1 .. 40 /\ Steps[pc] = "product" /\ DOMAIN r = RowFields /\ r.good \in BOOLEAN
        /\ (r.good \/ Names[pc] \in Editable) /\ Call.ref = NameAt(Refs[pc])
    BY <1>1, <2>1, FoundRow, AtStep
  <2>3. Names[pc] \notin Editable
    BY <2>2, StepPlaces
  <2> DEFINE m == [r EXCEPT !.ref = Held(Call.ref)]
  <2>4. DOMAIN m = RowFields /\ m.good = r.good /\ m.ref = Held(Call.ref) /\ Like(m, r)
    BY <2>2, RefEdit
  <2> HIDE DEF m
  <2>5. Fits(m)
    BY <2>2, <2>3, <2>4 DEF Fits
  <2>6. Writes("product", r, m)
    BY <1>1, <2>1, <2>4, <2>5 DEF Writes
  <2> QED BY <2>6 DEF m
<1>2. ASSUME At("express") PROVE Writes("express", r, [r EXCEPT !.ref = Held(Call.ref), !.good = yes])
  <2>1. "express" \in RowCalls
    BY DEF RowCalls
  <2>2. pc \in 1 .. 40 /\ DOMAIN r = RowFields /\ Call.ref = NameAt(Refs[pc])
    BY <1>2, <2>1, FoundRow, AtStep
  <2> DEFINE m == [r EXCEPT !.ref = Held(Call.ref), !.good = yes]
  <2>3. DOMAIN m = RowFields /\ m.good = yes /\ m.ref = Held(Call.ref) /\ Like(m, r)
    BY <2>2, RefGoodEdit
  <2> HIDE DEF m
  <2>4. Fits(m)
    BY <1>0, <2>2, <2>3 DEF Fits
  <2>5. Writes("express", r, m)
    BY <1>2, <2>1, <2>3, <2>4 DEF Writes
  <2> QED BY <2>5 DEF m
<1> QED BY <1>1, <1>2 DEF yes

\* A category is switched on, and given its page.
LEMMA CategoryFits ==
  ASSUME RowsWell, RowsDone, At("category"), NEW r \in Found(Call)
  PROVE  Writes("category", r,
                [r EXCEPT !.good = TRUE, !.ref = IF Call.ref = "none" THEN @ ELSE Held(Call.ref)])
<1> DEFINE yes == TRUE
           x == IF Call.ref = "none" THEN r.ref ELSE Held(Call.ref)
           m == [r EXCEPT !.good = yes, !.ref = x]
<1>0. yes \in BOOLEAN /\ yes
  OBVIOUS
<1>1. "category" \in RowCalls
  BY DEF RowCalls
<1>2. pc \in RowPlaces /\ DOMAIN r = RowFields /\ Call.ref = NameAt(Refs[pc])
  BY <1>1, FoundRow
<1>3. [r EXCEPT !.good = TRUE, !.ref = IF Call.ref = "none" THEN @ ELSE Held(Call.ref)] = m
  BY <1>2 DEF RowFields
<1>4. Refs[pc] # 0 => x = Held(NameAt(Refs[pc]))
  <2>1. Refs[pc] # 0 => Call.ref # "none"
    BY <1>2, RowsInOrder, NamePlaces DEF NameAt
  <2> QED BY <1>2, <2>1
<1> HIDE DEF yes, x
<1>5. DOMAIN m = RowFields /\ m.good = yes /\ m.ref = x /\ Like(m, r)
  BY <1>2, GoodRefEdit
<1> HIDE DEF m
<1>6. Fits(m)
  BY <1>0, <1>4, <1>5 DEF Fits
<1>7. Writes("category", r, m)
  BY <1>1, <1>5, <1>6 DEF Writes
<1> QED BY <1>3, <1>7

\* The row of the call is put there, and the run goes on or stops.
Sees == pc \in RowPlaces /\ \E id : Put(id) /\ Then(Holding(Names[pc], id))

\* Every operation on rows does that, but for a unit that is refused.
LEMMA OpsPut ==
  ASSUME RowsWell, RowsDone, RootsNamed,
         \/ EnsureOption \/ EnsureUnit \/ EnsureDeliveryTime \/ UpsertProduct
         \/ EnsureExpress \/ ActivateStandard \/ EnsureShippingPrice
         \/ EnsureRoot \/ EnsureCategory \/ EnsureCmsPage \/ EnsureAclRole
  PROVE  /\ UNCHANGED <<orders, keys, integrations, shop, host, unseen>>
         /\ \/ Sees
            \/ At("unit") /\ rows' = rows /\ fresh' = fresh /\ held' = held /\ pc' = pc + 1
<1> DEFINE Looked(op) ==
      /\ At(op)
      /\ \/ /\ Found(Call) = {}
            /\ rows' = rows \cup {New(Call)} /\ fresh' = fresh + 1
            /\ Then(Holding(Call.name, fresh))
         \/ \E r \in Found(Call) : \E m :
              /\ Writes(op, r, m)
              /\ rows' = (rows \ {r}) \cup {m} /\ fresh' = fresh
              /\ Then(Holding(Call.name, r.id))
      /\ UNCHANGED <<orders, keys, integrations, shop, host, unseen>>
<1>1. ASSUME NEW op \in RowCalls, Looked(op)
      PROVE  Sees /\ UNCHANGED <<orders, keys, integrations, shop, host, unseen>>
  BY <1>1, EnsurePuts DEF Sees
<1>2. CASE EnsureOption
  <2>1. Looked("option")
    BY <1>2, AsItIsFits DEF EnsureOption, Ensure
  <2> QED BY <1>1, <2>1 DEF RowCalls
<1>3. CASE EnsureDeliveryTime
  <2>1. Looked("time")
    BY <1>3, AsItIsFits DEF EnsureDeliveryTime, Ensure
  <2> QED BY <1>1, <2>1 DEF RowCalls
<1>4. CASE EnsureCmsPage
  <2>1. Looked("page")
    BY <1>4, AsItIsFits DEF EnsureCmsPage, Ensure
  <2> QED BY <1>1, <2>1 DEF RowCalls
<1>5. CASE ActivateStandard
  <2>1. Looked("standard")
    BY <1>5, UsableFits DEF ActivateStandard, Ensure
  <2> QED BY <1>1, <2>1 DEF RowCalls
<1>6. CASE EnsureShippingPrice
  <2>1. Looked("price")
    BY <1>6, UsableFits DEF EnsureShippingPrice, Ensure
  <2> QED BY <1>1, <2>1 DEF RowCalls
<1>7. CASE EnsureAclRole
  <2>1. Looked("role")
    BY <1>7, UsableFits DEF EnsureAclRole, Ensure
  <2> QED BY <1>1, <2>1 DEF RowCalls
<1>8. CASE EnsureUnit
  <2>1. CASE Ensure("unit", AsItIs)
    <3>1. Looked("unit")
      BY <2>1, AsItIsFits DEF Ensure
    <3> QED BY <1>1, <3>1 DEF RowCalls
  <2>2. CASE /\ At("unit") /\ Found(Call) = {} /\ Faulty
             /\ pc' = pc + 1
             /\ UNCHANGED <<last, held, world, runs, staff, stops, unseen>>
    BY <2>2 DEF world
  <2> QED BY <1>8, <2>1, <2>2 DEF EnsureUnit
<1>9. CASE UpsertProduct
  <2>1. Looked("product")
    BY <1>9, TimedFits DEF UpsertProduct, Ensure
  <2> QED BY <1>1, <2>1 DEF RowCalls
<1>10. CASE EnsureExpress
  <2>1. Looked("express")
    BY <1>10, TimedFits DEF EnsureExpress, Ensure
  <2> QED BY <1>1, <2>1 DEF RowCalls
<1>11. CASE EnsureCategory
  <2>1. Looked("category")
    BY <1>11, CategoryFits DEF EnsureCategory, Ensure
  <2> QED BY <1>1, <2>1 DEF RowCalls
<1>12. CASE EnsureRoot
  <2> DEFINE named == IF Call.name = "Footer" THEN shop.footer ELSE shop.service
  <2>1. CASE At("root") /\ named = 0 /\ Ensure("root", Usable)
    <3>1. Looked("root")
      BY <2>1, UsableFits DEF Ensure
    <3> QED BY <1>1, <3>1 DEF RowCalls
  <2>2. CASE At("root") /\ named # 0 /\ Then(Holding(Call.name, named)) /\ UNCHANGED <<world, unseen>>
    <3>1. pc \in {25, 26} /\ pc \in RowPlaces /\ pc \in 1 .. 40
      BY <2>2, AtStep, StepPlaces DEF RowCalls
    <3>2. Call.name = Names[pc] /\ Names[pc] = (IF pc = 25 THEN "Footer" ELSE "Service")
      BY <3>1, CallAt DEF Names
    <3>3. PICK r \in rows : r.name = Names[pc] /\ r.id = named
      BY <2>2, <3>1, <3>2 DEF RootsNamed
    <3>4. r \in Found(Call)
      <4>1. r.under = Held(NameAt(Above[pc]))
        BY <3>1, <3>2, <3>3, SeatIsUnder
      <4> QED BY <3>1, <3>3, <4>1, FoundRows
    <3>5. Fits(r)
      <4>1. DOMAIN r = RowFields /\ r.good \in BOOLEAN /\ (r.good \/ Names[pc] \in Editable)
        BY <2>2, <3>4, FoundRow DEF RowCalls
      <4>2. Names[pc] \notin Editable /\ Refs[pc] = 0
        BY <3>1, <3>2 DEF Editable, Refs
      <4> QED BY <4>1, <4>2 DEF Fits
    <3>6. Put(r.id)
      <4>1. rows' = (rows \ {r}) \cup {r} /\ fresh' = fresh
        BY <2>2, <3>3 DEF world
      <4> QED BY <3>4, <3>5, <4>1 DEF Put, Like
    <3>7. Then(Holding(Names[pc], r.id))
      BY <2>2, <3>2, <3>3
    <3> QED BY <2>2, <3>1, <3>6, <3>7 DEF Sees, world
  <2> QED BY <1>12, <2>1, <2>2 DEF EnsureRoot
<1> QED BY <1>2, <1>3, <1>4, <1>5, <1>6, <1>7, <1>8, <1>9, <1>10, <1>11, <1>12

\* What seeing to a row leaves: the rows well, and that of the call as it should be.
LEMMA SeesRows ==
  ASSUME RowsWell, RowsDone, Sees, fresh \in Nat, fresh >= 2
  PROVE  RowsWell' /\ AllStay /\ (Stop \/ (pc' = pc + 1 /\ RowsDone'))
<1>1. PICK id : Put(id) /\ Then(Holding(Names[pc], id))
  BY DEF Sees
<1>2. RowsWell' /\ AllStay
  BY <1>1, PutRows DEF Sees
<1>3. CASE pc' = pc + 1 /\ held' = Holding(Names[pc], id)
  <2>1. RowsDone'
    BY <1>1, <1>3, PutDone DEF Sees
  <2> QED BY <1>2, <1>3, <2>1
<1>4. Stop \/ (pc' = pc + 1 /\ held' = Holding(Names[pc], id))
  BY <1>1 DEF Then, Past
<1> QED BY <1>2, <1>3, <1>4

\* The two sizes.
LEMMA Sizes ==
  LET options == {c \in {Calls[i] : i \in 1 .. Len(Calls)} : c.op = "option"} IN
  /\ options = {Calls[11], Calls[12]} /\ Calls[11] # Calls[12] /\ Cardinality(options) = 2
  /\ Calls[11].name = "S" /\ Calls[12].name = "L"
<1> DEFINE options == {c \in {Calls[i] : i \in 1 .. Len(Calls)} : c.op = "option"}
<1>1. \A i \in 1 .. 40 : Calls[i].op = "option" <=> i \in {11, 12}
  <2>1. \A i \in 1 .. 40 : Steps[i] = "option" => i \in RowPlaces
    BY StepPlaces DEF RowCalls
  <2>2. \A i \in RowPlaces : Steps[i] = "option" <=> i \in {11, 12}
    BY EachPlace DEF Steps
  <2>3. 11 \in RowPlaces /\ 12 \in RowPlaces
    BY DEF RowPlaces
  <2> QED BY <2>1, <2>2, <2>3, StepList DEF Sound
<1>2. Calls[11].name = "S" /\ Calls[12].name = "L"
  <2>1. 11 \in RowPlaces /\ 12 \in RowPlaces
    BY DEF RowPlaces
  <2>2. Entry(11).name = Names[11] /\ Entry(12).name = Names[12]
    BY DEF Entry, Row
  <2> QED BY <2>1, <2>2, RowList DEF Names
<1>3. options = {Calls[11], Calls[12]} /\ Calls[11] # Calls[12]
  BY <1>1, <1>2, CallList
<1> HIDE DEF options
<1>4. Cardinality(options) = 2
  <2> DEFINE a == Calls[11]  b == Calls[12]
  <2>1. options = {a} \cup {b} /\ b \notin {a}
    BY <1>3
  <2> HIDE DEF a, b
  <2>2. IsFiniteSet({a}) /\ Cardinality({a}) = 1
    BY FS_Singleton
  <2>3. Cardinality(options) = Cardinality({a}) + 1
    BY <2>1, <2>2, FS_AddElement
  <2> QED BY <2>2, <2>3
<1> QED BY <1>2, <1>3, <1>4 DEF options

\* A new size: under the new group, with a number of its own.
LEMMA NewSize ==
  ASSUME NEW c, NEW n, NEW g
  PROVE  LET m == [New(c) EXCEPT !.id = n, !.under = g] IN
           /\ DOMAIN m = RowFields /\ m.id = n /\ m.under = g /\ m.name = c.name
           /\ m.good \in BOOLEAN /\ m.good
<1> DEFINE yes == TRUE  x == Held(c.ref)  u == Held(c.under)
           w == [name |-> c.name, id |-> fresh, under |-> u, ref |-> x, good |-> yes]
           v == [w EXCEPT !.id = n]
           m == [v EXCEPT !.under = g]
<1>1. yes \in BOOLEAN /\ yes
  OBVIOUS
<1>2. New(c) = w
  BY DEF New
<1> HIDE DEF yes, x, u
<1>3. DOMAIN w = RowFields /\ w.name = c.name /\ w.good = yes
  BY DEF RowFields
<1> HIDE DEF w
<1>4. DOMAIN v = RowFields /\ v.name = c.name /\ v.good = yes /\ v.id = n
  BY <1>3 DEF RowFields
<1>5. [w EXCEPT !.id = n, !.under = g] = m
  OBVIOUS
<1> HIDE DEF v
<1>6. DOMAIN m = RowFields /\ m.name = c.name /\ m.good = yes /\ m.id = n /\ m.under = g
  BY <1>4 DEF RowFields
<1> HIDE DEF m
<1> QED BY <1>1, <1>2, <1>5, <1>6

\* Two things can be numbered, and are then numbered apart.
Apart(f, S) == \A x, y \in S : f[x] = f[y] => x = y
CanNumber(S, n, k) == \E f \in [S -> n + 1 .. n + k] : Apart(f, S)

\* They can.
LEMMA Numbering ==
  ASSUME NEW S, NEW c, NEW d, S = {c, d}, c # d, NEW n \in Nat, NEW k, k = 2
  PROVE  CanNumber(S, n, k)
<1> DEFINE e == [x \in S |-> IF x = c THEN n + 1 ELSE n + 2]
<1>1. e \in [S -> n + 1 .. n + k]
  OBVIOUS
<1>2. e[c] = n + 1 /\ e[d] = n + 2
  OBVIOUS
<1> HIDE DEF e
<1>3. Apart(e, S)
  BY <1>2 DEF Apart
<1> QED BY <1>1, <1>3 DEF CanNumber

\* The numbers.
LEMMA Numbered ==
  ASSUME NEW S, NEW c, NEW d, S = {c, d}, c # d, NEW n \in Nat, NEW k, k = 2,
         NEW f \in [S -> n + 1 .. n + k], Apart(f, S)
  PROVE  {f[c], f[d]} \subseteq {n + 1, n + 2} /\ f[c] # f[d]
<1>1. f[c] \in n + 1 .. n + k /\ f[d] \in n + 1 .. n + k /\ f[c] # f[d]
  BY DEF Apart
<1>2. \A m \in n + 1 .. n + k : m \in {n + 1, n + 2}
  OBVIOUS
<1> QED BY <1>1, <1>2

\* The property group brings its sizes along, if it is new.
LEMMA GroupRows ==
  ASSUME RowsWell, RowsDone, EnsurePropertyGroup, fresh \in Nat, fresh >= 2
  PROVE  /\ RowsWell' /\ AllStay /\ (Stop \/ (pc' = pc + 1 /\ RowsDone'))
         /\ UNCHANGED <<orders, keys, integrations, shop, host, unseen>>
<1>0. /\ At("group") /\ pc = 10 /\ pc \in RowPlaces /\ Names[10] = "Size" /\ Call.name = "Size"
      /\ Above[10] = 0 /\ Refs[10] = 0 /\ Held("none") = 0 /\ "group" \in RowCalls
  <2>1. At("group") /\ "group" \in RowCalls
    BY DEF EnsurePropertyGroup, RowCalls
  <2>2. pc = 10
    BY <2>1, AtStep, Places
  <2> QED BY <2>1, <2>2, CallAt DEF RowPlaces, Names, Above, Refs, Held, RowsDone
<1>1. UNCHANGED <<orders, keys, integrations, shop, host, unseen>>
  BY DEF EnsurePropertyGroup
<1>2. ASSUME NEW r \in Found(Call), rows' = rows, fresh' = fresh, Then(Holding(Call.name, r.id))
      PROVE  Sees
  <2>1. Writes("group", r, r)
    BY <1>0, AsItIsFits DEF AsItIs
  <2>2. Put(r.id)
    <3>1. rows' = (rows \ {r}) \cup {r}
      BY <1>2 DEF Found
    <3> QED BY <1>2, <2>1, <3>1 DEF Put, Writes
  <2> QED BY <1>0, <1>2, <2>2 DEF Sees
<1> DEFINE options == {c \in {Calls[i] : i \in 1 .. Len(Calls)} : c.op = "option"}
           ids == [options -> fresh + 1 .. fresh + Cardinality(options)]
           one(f) == \A c, d \in options : f[c] = f[d] => c = d
           id == CHOOSE f \in ids : one(f)
           g == New(Call)
           a == [New(Calls[11]) EXCEPT !.id = id[Calls[11]], !.under = fresh]
           b == [New(Calls[12]) EXCEPT !.id = id[Calls[12]], !.under = fresh]
<1>3. CASE /\ Found(Call) = {}
           /\ rows' = rows \cup {g} \cup {[New(c) EXCEPT !.id = id[c], !.under = fresh] : c \in options}
           /\ fresh' = fresh + 1 + Cardinality(options)
           /\ Then(Holding(Call.name, fresh))
  <2>1. /\ options = {Calls[11], Calls[12]} /\ Calls[11] # Calls[12] /\ Cardinality(options) = 2
        /\ Calls[11].name = "S" /\ Calls[12].name = "L"
    BY Sizes
  <2>2. {id[Calls[11]], id[Calls[12]]} \subseteq {fresh + 1, fresh + 2} /\ id[Calls[11]] # id[Calls[12]]
    <3> HIDE DEF options
    <3>0. CanNumber(options, fresh, Cardinality(options))
      BY <2>1, Numbering
    <3>1. \E f \in ids : one(f)
      BY <3>0 DEF CanNumber, Apart
    <3> HIDE DEF ids, one
    <3>2. id \in ids /\ one(id)
      BY <3>1
    <3> HIDE DEF id
    <3> QED BY <2>1, <3>2, Numbered DEF ids, one, Apart
  <2>3. rows' = (rows \ {}) \cup {g, a, b} /\ fresh' = fresh + 3 /\ fresh' \in Nat /\ fresh' >= fresh
    <3> DEFINE size(c) == [New(c) EXCEPT !.id = id[c], !.under = fresh]
    <3>1. rows' = rows \cup {g} \cup {size(c) : c \in options} /\ fresh' = fresh + 1 + Cardinality(options)
      BY <1>3
    <3>2. a = size(Calls[11]) /\ b = size(Calls[12])
      OBVIOUS
    <3> HIDE DEF size, a, b, g, options
    <3>3. {size(c) : c \in options} = {a, b}
      BY <2>1, <3>2
    <3> QED BY <2>1, <3>1, <3>3
  <2>4. /\ DOMAIN g = RowFields /\ g.id = fresh /\ g.good \in BOOLEAN /\ g.good
        /\ g.name = "Size" /\ g.under = 0
    BY <1>0, NewRow DEF NameAt
  <2>5. /\ DOMAIN a = RowFields /\ a.id = id[Calls[11]] /\ a.under = fresh /\ a.name = "S"
        /\ a.good \in BOOLEAN /\ a.good
    BY <2>1, NewSize
  <2>6. /\ DOMAIN b = RowFields /\ b.id = id[Calls[12]] /\ b.under = fresh /\ b.name = "L"
        /\ b.good \in BOOLEAN /\ b.good
    BY <2>1, NewSize
  <2> DEFINE i == id[Calls[11]]  j == id[Calls[12]]
  <2>7. {i, j} \subseteq {fresh + 1, fresh + 2} /\ i # j /\ a.id = i /\ b.id = j
    BY <2>2, <2>5, <2>6
  <2> HIDE DEF options, id, g, a, b, i, j
  <2>8. \A m \in {g, a, b} : IsRow(m)'
    <3>1. \A m \in {g, a, b} : m.id \in Nat /\ m.id # 0 /\ m.id < fresh'
      BY <2>3, <2>4, <2>7
    <3>2. \A m \in {g, a, b} : DOMAIN m = RowFields /\ m.good \in BOOLEAN /\ m.good
      BY <2>4, <2>5, <2>6
    <3> QED BY <3>1, <3>2 DEF IsRow
  <2>9. \A m \in {g, a, b} : \E p \in RowPlaces : Seat(m, p, rows')
    <3>1. Seat(g, 10, rows')
      BY <1>0, <2>4 DEF Seat
    <3>2. 11 \in RowPlaces /\ 12 \in RowPlaces /\ Above[11] = 10 /\ Above[12] = 10
          /\ Names[11] = "S" /\ Names[12] = "L"
      BY DEF RowPlaces, Above, Names
    <3>3. g \in rows' /\ g.name = Names[10] /\ g.id = fresh
      BY <1>0, <2>3, <2>4
    <3>4. Seat(a, 11, rows') /\ Seat(b, 12, rows')
      BY <2>5, <2>6, <3>2, <3>3 DEF Seat
    <3> QED BY <1>0, <3>1, <3>2, <3>4
  <2>10. \A s \in rows : s.name \notin {"Size", "S", "L"} /\ s.id < fresh /\ s.id \in Nat
    <3> SUFFICES ASSUME NEW s \in rows
                 PROVE  s.name \notin {"Size", "S", "L"} /\ s.id < fresh /\ s.id \in Nat
      OBVIOUS
    <3>1. \A r \in rows : r.name # "Size"
      <4> SUFFICES ASSUME NEW r \in rows, r.name = "Size" PROVE FALSE
        OBVIOUS
      <4>1. r.under = Held(NameAt(Above[pc]))
        BY <1>0, SeatIsUnder
      <4> QED BY <1>0, <1>3, <4>1, FoundRows
    <3>2. PICK p \in RowPlaces : Seat(s, p, rows)
      BY DEF RowsWell
    <3>3. s.name \notin {"S", "L"}
      <4> SUFFICES ASSUME s.name \in {"S", "L"} PROVE FALSE
        OBVIOUS
      <4>1. Names[p] = "S" \/ Names[p] = "L"
        BY <3>2 DEF Seat
      <4>2. p = 11 \/ p = 12
        BY <4>1, NamePlaces
      <4>3. Above[p] = 10
        BY <4>2 DEF Above
      <4> QED BY <1>0, <3>1, <3>2, <4>3 DEF Seat
    <3> QED BY <3>1, <3>3 DEF RowsWell, IsRow
  <2>11. Joins({}, {g, a, b})
    <3>1. \A m \in {g, a, b} : \A s \in rows \ {} : ~SameKey(m, s) /\ m.id # s.id
      <4>1. \A m \in {g, a, b} : m.name \in {"Size", "S", "L"} /\ m.id >= fresh
        BY <2>4, <2>5, <2>6, <2>7
      <4> QED BY <2>10, <4>1 DEF SameKey
    <3>2. \A m, n \in {g, a, b} : SameKey(m, n) \/ m.id = n.id => m = n
      <4>1. g.id # a.id /\ g.id # b.id /\ a.id # b.id
        BY <2>4, <2>7
      <4>2. g.name # a.name /\ g.name # b.name /\ a.name # b.name
        BY <2>4, <2>5, <2>6
      <4> QED BY <4>1, <4>2 DEF SameKey
    <3> QED BY <2>3, <2>8, <2>9, <3>1, <3>2 DEF Joins
  <2>12. RowsWell' /\ AllStay
    BY <2>3, <2>11, RowsReplaced
  <2>13. ASSUME pc' = pc + 1, held' = Holding("Size", fresh) PROVE RowsDone'
    <3>1. PICK n : n = fresh
      OBVIOUS
    <3>2. /\ Held("Size")' = n
          /\ "none" \notin DOMAIN held'
      <4>1. DOMAIN held' = DOMAIN held \cup {"Size"} /\ held'["Size"] = n
        BY <2>13, <3>1 DEF Holding, Noted
      <4> QED BY <4>1 DEF Held, RowsDone
    <3>3. Held("none")' = 0
      BY <3>2 DEF Held
    <3>4. PICK x \in rows' : x.name = "Size" /\ x.id = n /\ x.under = 0 /\ x.good
      BY <2>3, <2>4, <3>1
    <3>5. Sits(x, 10)'
      BY <1>0, <3>2, <3>3, <3>4 DEF Sits, NameAt
    <3>6. \A i1 \in RowPlaces : i1 < pc' => i1 = 10
      BY <1>0, <2>13 DEF RowPlaces
    <3> QED BY <3>2, <3>4, <3>5, <3>6 DEF RowsDone
  <2> QED BY <1>0, <1>1, <1>3, <2>12, <2>13 DEF Then, Past
<1>4. \/ /\ Found(Call) = {}
         /\ rows' = rows \cup {g} \cup {[New(c) EXCEPT !.id = id[c], !.under = fresh] : c \in options}
         /\ fresh' = fresh + 1 + Cardinality(options)
         /\ Then(Holding(Call.name, fresh))
      \/ \E r \in Found(Call) : rows' = rows /\ fresh' = fresh /\ Then(Holding(Call.name, r.id))
  BY DEF EnsurePropertyGroup
<1> HIDE DEF options, id, g
<1> QED BY <1>1, <1>2, <1>3, <1>4, SeesRows

-----------------------------------------------------------------------------
(* The shop between the runs' steps and the changes of staff. *)

\* The roles of the integration are roles that the shop has.
RolesKnown == \A i \in integrations : \A n \in i.roles : \E r \in rows : r.name = "role" /\ r.id = n

\* A key has a name, and is active or not.
IsKey(k) == k = [kid |-> k.kid, active |-> k.active] /\ k.active \in BOOLEAN
KeysShape == \A k \in keys : IsKey(k)

\* What is true of a shop at any time, however many runs stopped.
ShopWell == RowsWell /\ RootsNamed /\ RolesKnown /\ KeysShape

\* Rows that are left alone.
LEMMA RowsUntouched ==
  ASSUME RowsWell, rows' = rows, fresh \in Nat, fresh' \in Nat, fresh' >= fresh
  PROVE  RowsWell' /\ AllStay
<1>1. Joins({}, {})
  BY DEF Joins
<1> QED BY <1>1, RowsReplaced

\* What names a row still names one.
LEMMA NamesStay ==
  ASSUME RootsNamed, RolesKnown, KeysShape, AllStay, UNCHANGED <<keys, integrations, shop>>
  PROVE  RootsNamed' /\ RolesKnown' /\ KeysShape'
<1>1. RootsNamed'
  BY DEF RootsNamed, AllStay, Like
<1>2. RolesKnown'
  BY DEF RolesKnown, AllStay, Like
<1> QED BY <1>1, <1>2 DEF KeysShape

\* A row is at the place of its name.
LEMMA RowPlace ==
  ASSUME RowsWell, NEW j \in RowPlaces \ {22, 23}, NEW p \in rows, p.name = Names[j]
  PROVE  Seat(p, j, rows)
<1>1. PICK i \in RowPlaces : Seat(p, i, rows)
  BY DEF RowsWell
<1>2. Names[i] = Names[j]
  BY <1>1 DEF Seat
<1>4. Names[j] # "EUR"
  BY NamePlaces
<1>3. i = j
  BY <1>2, <1>4, OnePlace
<1> QED BY <1>1, <1>3

\* Roots and roles are under no row, so they are not deleted with another.
LEMMA TopRow ==
  ASSUME RowsWell, NEW p \in rows, p.name \in {"Footer", "Service", "role"}, NEW r \in rows
  PROVE  p \notin Below(r)
<1>1. p.under = 0
  <2>1. /\ 25 \in RowPlaces \ {22, 23} /\ Names[25] = "Footer" /\ Above[25] = 0
        /\ 26 \in RowPlaces \ {22, 23} /\ Names[26] = "Service" /\ Above[26] = 0
        /\ 36 \in RowPlaces \ {22, 23} /\ Names[36] = "role" /\ Above[36] = 0
    BY DEF RowPlaces, Names, Above
  <2>2. \E j \in {25, 26, 36} : p.name = Names[j]
    BY <2>1
  <2> QED BY <2>1, <2>2, RowPlace DEF Seat
<1>2. \A t \in rows : t.id # 0
  BY DEF RowsWell, IsRow
<1> QED BY <1>1, <1>2 DEF Below

\* No row has three others above it.
LEMMA Depth ==
  ASSUME RowsWell, NEW s \in rows, NEW i \in RowPlaces, Seat(s, i, rows), Above[i] # 0,
         NEW p \in rows, p.name = Names[Above[i]], NEW t \in rows, p.under = t.id,
         NEW r \in rows, t.under = r.id
  PROVE  FALSE
<1>0. \A x \in rows : x.id # 0
  BY DEF RowsWell, IsRow
<1>1. PICK j \in RowPlaces \ {13, 22, 23} : j = Above[i]
  BY RowsInOrder
<1>2. Seat(p, j, rows)
  BY <1>1, RowPlace
<1>3. Above[j] # 0 /\ t.name = Names[Above[j]]
  <2>1. Above[j] # 0
    BY <1>0, <1>2 DEF Seat
  <2>2. PICK q \in rows : q.name = Names[Above[j]] /\ q.id = p.under
    BY <1>2, <2>1 DEF Seat
  <2>3. q = t
    BY <2>2 DEF RowsWell
  <2> QED BY <2>1, <2>2, <2>3
<1>4. PICK k \in RowPlaces \ {13, 22, 23} : k = Above[j]
  BY <1>3, RowsInOrder
<1>5. Seat(t, k, rows)
  BY <1>3, <1>4, RowPlace
<1>6. Above[k] # 0
  BY <1>0, <1>5 DEF Seat
<1> QED BY <1>1, <1>3, <1>4, <1>6, RowsInOrder

\* Of an integration's roles one is taken away.
LEMMA RoleEdit ==
  ASSUME NEW i, IsIntegration(i), NEW x
  PROVE  LET j == [i EXCEPT !.roles = x] IN
         /\ j.roles = x /\ j.access = i.access /\ j.secret = i.secret
         /\ j.admin = i.admin /\ j.allowed = i.allowed
BY DEF IsIntegration

\* Staff delete a row, with what is below it.
LEMMA DeleteKeeps == ASSUME BootInv, ShopWell, StaffDelete PROVE ShopWell'
<1>1. PICK r \in rows :
        /\ rows' = rows \ ({r} \cup Below(r))
        /\ integrations' = {[i EXCEPT !.roles = @ \ {r.id}] : i \in integrations}
        /\ shop' = [shop EXCEPT !.footer = IF @ = r.id THEN 0 ELSE @, !.service = IF @ = r.id THEN 0 ELSE @,
                                !.assigned = @ \ {r.id}]
  BY DEF StaffDelete
<1>2. keys' = keys /\ fresh' = fresh /\ RowsWell /\ RootsNamed /\ RolesKnown /\ KeysShape
  BY DEF StaffDelete, ShopWell
<1>3. ShopShape /\ \A i \in integrations : IsIntegration(i)
  BY DEF BootInv, KeysAreUsed
<1>4. ASSUME NEW s \in rows' PROVE IsRow(s)' /\ \E i \in RowPlaces : Seat(s, i, rows')
  <2>1. s \in rows /\ s # r /\ s \notin Below(r)
    BY <1>1
  <2>2. IsRow(s)'
    BY <1>2, <2>1 DEF RowsWell, IsRow
  <2>3. PICK i \in RowPlaces : Seat(s, i, rows)
    BY <1>2, <2>1 DEF RowsWell
  <2>4. ASSUME Above[i] # 0
        PROVE  \E p \in rows' : p.name = Names[Above[i]] /\ p.id = s.under
    <3>1. PICK p \in rows : p.name = Names[Above[i]] /\ p.id = s.under
      BY <2>3, <2>4 DEF Seat
    <3>2. p # r
      BY <2>1, <3>1 DEF Below
    <3>3. p.under # r.id
      BY <2>1, <3>1 DEF Below
    <3>4. \A t \in rows : ~(t.under = r.id /\ p.under = t.id)
      BY <1>2, <2>1, <2>3, <2>4, <3>1, Depth
    <3>5. p \notin Below(r)
      BY <3>3, <3>4 DEF Below
    <3> QED BY <1>1, <3>1, <3>2, <3>5
  <2>5. Seat(s, i, rows')
    BY <2>3, <2>4 DEF Seat
  <2> QED BY <2>2, <2>5
<1>5. RowsWell'
  <2>1. \A x, y \in rows' : SameKey(x, y) \/ x.id = y.id => x = y
    BY <1>1, <1>2 DEF RowsWell
  <2> QED BY <1>4, <2>1 DEF RowsWell
<1>6. RootsNamed'
  <2>1. /\ shop'.footer # 0 => shop'.footer = shop.footer /\ shop.footer # r.id
        /\ shop'.service # 0 => shop'.service = shop.service /\ shop.service # r.id
    BY <1>1, <1>3 DEF ShopShape
  <2>2. ASSUME NEW p \in rows, p.name \in {"Footer", "Service"}, p.id # r.id PROVE p \in rows'
    BY <1>1, <1>2, <2>2, TopRow
  <2> QED BY <1>2, <2>1, <2>2 DEF RootsNamed
<1>7. RolesKnown'
  <2> SUFFICES ASSUME NEW j \in integrations', NEW n \in j.roles
               PROVE  \E p \in rows' : p.name = "role" /\ p.id = n
    BY DEF RolesKnown
  <2>1. PICK i \in integrations : j = [i EXCEPT !.roles = i.roles \ {r.id}]
    BY <1>1
  <2>2. n \in i.roles /\ n # r.id
    BY <1>3, <2>1, RoleEdit
  <2>3. PICK p \in rows : p.name = "role" /\ p.id = n
    BY <1>2, <2>2 DEF RolesKnown
  <2> QED BY <1>1, <1>2, <2>2, <2>3, TopRow
<1> QED BY <1>2, <1>5, <1>6, <1>7 DEF ShopWell, KeysShape

\* Staff edit a row that may be edited.
LEMMA EditKeeps == ASSUME BootInv, ShopWell, StaffEdit PROVE ShopWell'
<1>1. PICK r \in rows : r.name \in Editable /\ rows' = (rows \ {r}) \cup {[r EXCEPT !.good = FALSE]}
  BY DEF StaffEdit, Editable
<1>2. UNCHANGED <<keys, integrations, shop, fresh>> /\ RowsWell /\ fresh \in Nat
  BY DEF StaffEdit, ShopWell, BootInv, KeysAreUsed
<1> DEFINE no == FALSE  m == [r EXCEPT !.good = no]
<1>3. no \in BOOLEAN
  OBVIOUS
<1>4. rows' = (rows \ {r}) \cup {m}
  BY <1>1
<1> HIDE DEF no
<1>5. IsRow(r)
  BY <1>2 DEF RowsWell
<1>6. DOMAIN m = RowFields /\ m.good = no /\ Like(m, r)
  BY <1>5, GoodEdit DEF IsRow
<1> HIDE DEF m
<1>7. IsRow(m)'
  BY <1>1, <1>2, <1>3, <1>5, <1>6 DEF IsRow, Like
<1>8. \E i \in RowPlaces : Seat(m, i, rows')
  <2>1. PICK i \in RowPlaces : Seat(r, i, rows)
    BY <1>2 DEF RowsWell
  <2>2. ASSUME Above[i] # 0
        PROVE  \E p \in rows' : p.name = Names[Above[i]] /\ p.id = m.under
    BY <1>4, <1>6, <2>1, <2>2 DEF Seat, Like
  <2>3. Seat(m, i, rows')
    BY <1>6, <2>1, <2>2 DEF Seat, Like
  <2> QED BY <2>3
<1>9. \A s \in rows \ {r} : ~SameKey(m, s) /\ m.id # s.id
  BY <1>2, <1>6 DEF RowsWell, SameKey, Like
<1>10. Joins({r}, {m})
  BY <1>4, <1>6, <1>7, <1>8, <1>9 DEF Joins
<1>11. RowsWell' /\ AllStay
  BY <1>2, <1>10, RowsReplaced
<1> QED BY <1>2, <1>11, NamesStay DEF ShopWell

\* Staff add a key or rights, or change what the integration is reached with.
LEMMA ChangeKeeps == ASSUME BootInv, ShopWell, StaffKeys PROVE ShopWell'
<1>1. rows' = rows /\ fresh' = fresh + 1 /\ fresh \in Nat
  BY DEF StaffKeys, BootInv, KeysAreUsed
<1>2. RowsWell'
  BY <1>1, RowsUntouched DEF ShopWell
<1>3. ShopShape /\ \A i \in integrations : IsIntegration(i)
  BY DEF BootInv, KeysAreUsed
<1>4. RootsNamed'
  <2>1. shop'.footer = shop.footer /\ shop'.service = shop.service
    BY <1>3 DEF StaffKeys, ShopShape
  <2> QED BY <1>1, <2>1 DEF ShopWell, RootsNamed
<1>5. RolesKnown'
  <2>1. ASSUME NEW i \in integrations, NEW j,
               \/ j = [i EXCEPT !.access = fresh, !.secret = fresh]
               \/ j = [i EXCEPT !.secret = fresh]
               \/ j = [i EXCEPT !.admin = TRUE, !.allowed = FALSE]
        PROVE  j.roles = i.roles
    <3>1. PICK v1, v2, v3, v4, v5 : Fields(i, v1, v2, v3, v4, v5)
      BY <1>3 DEF IsIntegration, Fields
    <3> DEFINE yes == TRUE  no == FALSE
    <3> HIDE DEF yes, no
    <3>2. /\ Fields([i EXCEPT !.access = fresh, !.secret = fresh], fresh, fresh, v3, v4, v5)
          /\ Fields([i EXCEPT !.secret = fresh], v1, fresh, v3, v4, v5)
          /\ Fields([i EXCEPT !.admin = yes, !.allowed = no], v1, v2, yes, v4, no)
      BY <3>1, TwoEdits
    <3>3. Fields([i EXCEPT !.admin = TRUE, !.allowed = FALSE], v1, v2, TRUE, v4, FALSE)
      BY <3>2 DEF yes, no
    <3>4. i.roles = v4 /\ \A w, a, b, c, d : Fields(w, a, b, c, v4, d) => w.roles = v4
      BY <3>1 DEF Fields
    <3>5. CASE j = [i EXCEPT !.access = fresh, !.secret = fresh]
      BY <3>2, <3>4, <3>5
    <3>6. CASE j = [i EXCEPT !.secret = fresh]
      BY <3>2, <3>4, <3>6
    <3>7. CASE j = [i EXCEPT !.admin = TRUE, !.allowed = FALSE]
      BY <3>3, <3>4, <3>7
    <3> QED BY <2>1, <3>5, <3>6, <3>7
  <2>2. \A j \in integrations' : \E i \in integrations : j.roles = i.roles
    BY <2>1 DEF StaffKeys
  <2> QED BY <1>1, <2>2 DEF ShopWell, RolesKnown
<1>6. KeysShape'
  <2>1. \A k \in keys' : k \in keys \/ k = [kid |-> "staff", active |-> TRUE]
    BY DEF StaffKeys
  <2>2. \A k : k = [kid |-> "staff", active |-> TRUE] => IsKey(k)
    BY DEF IsKey
  <2> QED BY <2>1, <2>2 DEF ShopWell, KeysShape
<1> QED BY <1>2, <1>4, <1>5, <1>6 DEF ShopWell

\* A new shop.
LEMMA NewShopIsWell ==
  ASSUME rows' = {Standard}, integrations' = {}, keys' \in Shipped, shop' = NewShop,
         fresh' \in Nat, fresh' >= 2
  PROVE  ShopWell'
<1>1. IsRow(Standard)'
  BY DEF IsRow, Standard, RowFields, Editable
<1>2. Seat(Standard, 21, rows')
  BY DEF Seat, Standard, Names, Above
<1>3. RowsWell'
  BY <1>1, <1>2 DEF RowsWell, RowPlaces
<1>4. RootsNamed'
  BY DEF RootsNamed, NewShop
<1>5. \A k \in keys' : k = [kid |-> "plugin", active |-> TRUE]
  BY DEF Shipped
<1>6. \A k : k = [kid |-> "plugin", active |-> TRUE] => IsKey(k)
  BY DEF IsKey
<1>7. KeysShape'
  BY <1>5, <1>6 DEF KeysShape
<1> QED BY <1>3, <1>4, <1>7 DEF ShopWell, RolesKnown

\* Between two runs.
LEMMA QuietKeeps ==
  ASSUME BootInv, ShopWell, StaffDelete \/ StaffEdit \/ StaffKeys \/ DropVolume
  PROVE  ShopWell'
<1>1. CASE DropVolume
  <2>1. /\ rows' = {Standard} /\ integrations' = {} /\ keys' \in Shipped /\ shop' = NewShop
        /\ fresh' \in Nat /\ fresh' >= 2
    BY <1>1 DEF DropVolume, BootInv, KeysAreUsed
  <2> QED BY <2>1, NewShopIsWell
<1> QED BY <1>1, DeleteKeeps, EditKeeps, ChangeKeeps

-----------------------------------------------------------------------------
(* What a run leaves behind it. *)

\* Host and shop share a secret and the agent's profile; the shop has one active key, is
\* configured and remembers no profile, unless something failed unseen.
Signed ==
  /\ pc > 1 => shop.handoff # 0
  /\ pc > 2 => "localhost" \notin shop.domains
  /\ pc > 4 => host.profile = host.pem
  /\ pc > 5 => shop.copy = host.profile
  /\ ~ unseen => /\ pc > 6 => shop.config
                 /\ pc > 8 => \E k : Active(keys) = {k}
                 /\ pc > 9 => shop.cached = 0

\* The channel offers both methods and names both roots.
Linked ==
  /\ pc > 24 => {Held("Standard"), Held("Express")} \subseteq shop.assigned
  /\ pc > 27 => shop.footer = Held("Footer") /\ shop.service = Held("Service")

\* The orders are there, and the hosts have their credentials.
Credited ==
  /\ pc > 34 => Len(orders) >= Len(Kinds)
  /\ pc > 35 => host.handoff = shop.handoff
  /\ pc > 37 => \E i \in integrations : ~ i.admin /\ i.roles = {Held("role")}
  /\ pc > 38 => \A i \in integrations : i.allowed
  /\ pc > 40 => \A i \in integrations : LetsIn(i)

\* All that a run has left behind it.
Behind == RowsDone /\ Signed /\ Linked /\ Credited

\* A run that stops leaves nothing to say.
LEMMA StopBehind == ASSUME Stop PROVE Behind'
<1>1. pc' = 0 /\ DOMAIN held' = {}
  BY DEF Stop
<1>2. \A i \in RowPlaces : ~(i < pc')
  BY <1>1 DEF RowPlaces
<1> QED BY <1>1, <1>2 DEF Behind, RowsDone, Signed, Linked, Credited

\* Neither does one that has come no further than to the first row.
LEMMA EarlyBehind ==
  ASSUME pc' \in 0 .. 10, "none" \notin DOMAIN held'
  PROVE  RowsDone' /\ Linked' /\ Credited'
<1>1. \A i \in RowPlaces : ~(i < pc')
  BY DEF RowPlaces
<1> QED BY <1>1 DEF RowsDone, Linked, Credited

\* What is signed stays signed.
LEMMA SignedStays ==
  ASSUME Signed, pc \in 10 .. 41, pc' \in 10 .. 41, unseen' = unseen, keys' = keys,
         shop'.handoff = shop.handoff, shop'.domains = shop.domains, shop'.copy = shop.copy,
         shop'.config = shop.config, shop'.cached = shop.cached,
         host'.profile = host.profile, host'.pem = host.pem
  PROVE  Signed'
BY DEF Signed, Active

\* Ids that are held on, of what the channel names.
LEMMA LinkedStays ==
  ASSUME Linked, pc \in 10 .. 41, pc' \in 10 .. 41, pc' > 24 => pc > 24, pc' > 27 => pc > 27,
         shop'.footer = shop.footer, shop'.service = shop.service, shop'.assigned = shop.assigned,
         pc' > 24 => Held("Standard")' = Held("Standard") /\ Held("Express")' = Held("Express"),
         pc' > 27 => Held("Footer")' = Held("Footer") /\ Held("Service")' = Held("Service")
  PROVE  Linked'
BY DEF Linked

\* Credentials that are left alone.
LEMMA CreditedStays ==
  ASSUME Credited, pc \in 10 .. 41, pc' \in 10 .. 41,
         \A p \in {34, 35, 37, 38, 40} : pc' > p => pc > p,
         orders' = orders, integrations' = integrations, host' = host, shop'.handoff = shop.handoff,
         pc' > 37 => Held("role")' = Held("role")
  PROVE  Credited'
BY DEF Credited, LetsIn

\* What a row's call leaves to say.
LEMMA FilesBehind ==
  ASSUME Behind, pc \in RowPlaces, pc' = pc + 1, RowsDone',
         UNCHANGED <<orders, keys, integrations, shop, host, unseen>>,
         held' = held \/ \E id : held' = Holding(Names[pc], id)
  PROVE  Behind'
<1>1. pc \in 10 .. 41 /\ pc' \in 10 .. 41 /\ pc \notin {24, 27, 34, 35, 37, 38, 40}
  BY DEF RowPlaces
<1>2. Signed'
  BY <1>1, SignedStays DEF Behind
<1>3. ASSUME NEW j \in RowPlaces \ {22, 23}, j < pc PROVE Held(Names[j])' = Held(Names[j])
  <2>1. CASE held' = held
    BY <2>1 DEF Held
  <2>2. ASSUME NEW id, held' = Holding(Names[pc], id) PROVE Held(Names[j])' = Held(Names[j])
    BY <1>3, <2>2, HeldEarlier, NamePlaces DEF Behind
  <2> QED BY <2>1, <2>2
<1>4. /\ 20 \in RowPlaces \ {22, 23} /\ Names[20] = "Express"
      /\ 21 \in RowPlaces \ {22, 23} /\ Names[21] = "Standard"
      /\ 25 \in RowPlaces \ {22, 23} /\ Names[25] = "Footer"
      /\ 26 \in RowPlaces \ {22, 23} /\ Names[26] = "Service"
  BY DEF RowPlaces, Names
<1>5. Linked'
  <2>1. pc' > 24 => pc > 24 /\ 20 < pc /\ 21 < pc
    BY <1>1
  <2>2. pc' > 27 => pc > 27 /\ 25 < pc /\ 26 < pc
    BY <1>1
  <2>3. pc' > 24 => Held("Standard")' = Held("Standard") /\ Held("Express")' = Held("Express")
    BY <1>3, <1>4, <2>1
  <2>4. pc' > 27 => Held("Footer")' = Held("Footer") /\ Held("Service")' = Held("Service")
    BY <1>3, <1>4, <2>2
  <2> QED BY <1>1, <2>1, <2>2, <2>3, <2>4, LinkedStays DEF Behind
<1>6. Credited'
  <2>1. pc' \in 10 .. 37
    BY DEF RowPlaces
  <2>2. \A p \in {34, 35, 37, 38, 40} : pc' > p => pc > p
    BY <1>1
  <2> QED BY <1>1, <2>1, <2>2, CreditedStays DEF Behind
<1> QED BY <1>2, <1>5, <1>6 DEF Behind

\* The run holds what it holds under the names of rows.
LEMMA HoldsOn ==
  ASSUME KeepsRows(held')
  PROVE  /\ \A p \in RowPlaces : Held(Names[p])' = Held(Names[p])
         /\ \A n \in {"Standard", "Express", "Footer", "Service", "role"} : Held(n)' = Held(n)
<1>1. \A p \in RowPlaces : Held(Names[p])' = Held(Names[p])
  BY DEF KeepsRows, Held
<1>2. \A n \in {"Standard", "Express", "Footer", "Service", "role"} : \E p \in RowPlaces : n = Names[p]
  <2>1. {20, 21, 25, 26, 36} \subseteq RowPlaces
    BY DEF RowPlaces
  <2>2. /\ Names[20] = "Express" /\ Names[21] = "Standard" /\ Names[25] = "Footer"
        /\ Names[26] = "Service" /\ Names[36] = "role"
    BY DEF Names
  <2> QED BY <2>1, <2>2
<1>3. ASSUME NEW n \in {"Standard", "Express", "Footer", "Service", "role"} PROVE Held(n)' = Held(n)
  <2>1. PICK p \in RowPlaces : n = Names[p]
    BY <1>2
  <2> QED BY <1>1, <2>1
<1> QED BY <1>1, <1>3

\* A script that holds something else keeps them.
LEMMA ReservedKeeps ==
  /\ KeepsRows(held)
  /\ \A n \in Reserved : \A v : KeepsRows(Holding(n, v))
  /\ \A n, m \in Reserved : \A v, w : KeepsRows(Noted(Holding(n, v), m, w))
<1>1. \A n \in Reserved : n # "none" /\ \A p \in RowPlaces : Names[p] # n
  BY NamePlaces DEF Reserved
<1>2. ASSUME NEW h, KeepsRows(h), NEW n \in Reserved, NEW v PROVE KeepsRows(Noted(h, n, v))
  BY <1>1, <1>2 DEF KeepsRows, Noted
<1>3. KeepsRows(held)
  BY DEF KeepsRows
<1> QED BY <1>2, <1>3 DEF Holding

-----------------------------------------------------------------------------
(* Each operation keeps both. *)

\* The places of the other operations.
LEMMA MorePlaces ==
  \A p \in 1 .. 40 : /\ Steps[p] = "domain" => p = 2
                     /\ Steps[p] = "pem" => p = 3
                     /\ Steps[p] = "profile" => p = 4
                     /\ Steps[p] = "copy" => p = 5
                     /\ Steps[p] = "assign" => p = 24
                     /\ Steps[p] = "channel" => p = 27
                     /\ Steps[p] = "verify" => p = 40
BY Forty DEF Steps

\* The rows are seen to.
LEMMA RowSteps ==
  ASSUME BootInv, ShopWell, Behind,
         \/ EnsurePropertyGroup \/ EnsureOption \/ EnsureUnit \/ EnsureDeliveryTime \/ UpsertProduct
         \/ EnsureExpress \/ ActivateStandard \/ EnsureShippingPrice
         \/ EnsureRoot \/ EnsureCategory \/ EnsureCmsPage \/ EnsureAclRole
  PROVE  ShopWell' /\ Behind'
<1>0. fresh \in Nat /\ fresh >= 2 /\ RowsWell /\ RowsDone /\ RootsNamed
  BY DEF BootInv, KeysAreUsed, ShopWell, Behind
<1>1. ASSUME RowsWell', AllStay, UNCHANGED <<orders, keys, integrations, shop, host, unseen>>,
             \/ Stop
             \/ /\ pc \in RowPlaces /\ pc' = pc + 1 /\ RowsDone'
                /\ held' = held \/ \E id : held' = Holding(Names[pc], id)
      PROVE  ShopWell' /\ Behind'
  <2>1. ShopWell'
    BY <1>1, NamesStay DEF ShopWell
  <2>2. Behind'
    BY <1>1, StopBehind, FilesBehind
  <2> QED BY <2>1, <2>2
<1>2. CASE EnsurePropertyGroup
  <2>1. /\ RowsWell' /\ AllStay /\ (Stop \/ (pc' = pc + 1 /\ RowsDone'))
        /\ UNCHANGED <<orders, keys, integrations, shop, host, unseen>>
    BY <1>0, <1>2, GroupRows
  <2>2. \E id : Then(Holding(Call.name, id))
    BY <1>2 DEF EnsurePropertyGroup
  <2>3. pc \in RowPlaces
    BY <1>2, AtStep, StepPlaces DEF EnsurePropertyGroup, RowCalls
  <2>4. Call.name = Names[pc]
    BY <2>3, CallAt
  <2>5. Stop \/ \E id : held' = Holding(Names[pc], id)
    BY <2>2, <2>4 DEF Then, Past
  <2> QED BY <1>1, <2>1, <2>3, <2>5
<1>3. CASE Sees /\ UNCHANGED <<orders, keys, integrations, shop, host, unseen>>
  <2>1. RowsWell' /\ AllStay /\ (Stop \/ (pc' = pc + 1 /\ RowsDone'))
    BY <1>0, <1>3, SeesRows
  <2>2. pc \in RowPlaces /\ (Stop \/ \E id : held' = Holding(Names[pc], id))
    BY <1>3 DEF Sees, Then, Past
  <2> QED BY <1>1, <1>3, <2>1, <2>2
<1>4. CASE /\ At("unit") /\ rows' = rows /\ fresh' = fresh /\ held' = held /\ pc' = pc + 1
           /\ UNCHANGED <<orders, keys, integrations, shop, host, unseen>>
  <2>1. pc = 13
    <3>1. pc \in RowPlaces /\ Steps[pc] = "unit"
      BY <1>4, AtStep, StepPlaces DEF RowCalls
    <3>2. \A p \in RowPlaces : Steps[p] = "unit" => p = 13
      BY EachPlace DEF Steps
    <3> QED BY <3>1, <3>2
  <2>2. RowsDone'
    <3>1. \A i \in RowPlaces \ {13} : i < pc' => i < pc
      BY <1>4, <2>1, RowsInOrder
    <3> QED BY <1>0, <1>4, <3>1, RowsAside, ReservedKeeps
  <2>3. RowsWell' /\ AllStay
    BY <1>0, <1>4, RowsUntouched
  <2> QED BY <1>1, <1>4, <2>1, <2>2, <2>3 DEF RowPlaces
<1> QED BY <1>0, <1>2, <1>3, <1>4, OpsPut

\* A step that leaves the rows, and what names them.
LEMMA WellAside ==
  ASSUME BootInv, ShopWell, rows' = rows, fresh' \in Nat, fresh' >= fresh, integrations' = integrations,
         shop'.footer = shop.footer, shop'.service = shop.service, KeysShape'
  PROVE  ShopWell'
<1>1. RowsWell'
  BY RowsUntouched DEF BootInv, KeysAreUsed, ShopWell
<1> QED BY <1>1 DEF ShopWell, RootsNamed, RolesKnown

\* Active keys of one name are one key.
LEMMA OneKey ==
  ASSUME NEW k, IsKey(k), NEW j, IsKey(j), k.kid = j.kid, k.active, j.active
  PROVE  k = j
<1>1. k.active = j.active
  BY DEF IsKey
<1>2. \A a, b, c, d : a = c /\ b = d => [kid |-> a, active |-> b] = [kid |-> c, active |-> d]
  OBVIOUS
<1> QED BY <1>1, <1>2 DEF IsKey

\* The secret, the domains, the agent's key and its profile, and the plugin's configuration.
LEMMA UcpSteps ==
  ASSUME BootInv, ShopWell, Behind,
         \/ HandoffSecret \/ PatchDomains \/ AgentKey \/ WriteProfile \/ CopyProfile
         \/ EnsureConfig \/ SkipUcp \/ PurgeProfiles
  PROVE  ShopWell' /\ Behind'
<1>0. /\ fresh \in Nat /\ fresh >= 2 /\ ShopShape /\ HostShape /\ Signed
      /\ "none" \notin DOMAIN held
  BY DEF BootInv, KeysAreUsed, Behind, RowsDone
<1>1. /\ rows' = rows /\ keys' = keys /\ integrations' = integrations
      /\ fresh' \in Nat /\ fresh' >= fresh
  BY <1>0 DEF HandoffSecret, PatchDomains, AgentKey, WriteProfile, CopyProfile, EnsureConfig, SkipUcp,
              PurgeProfiles, world
<1>2. KeysShape'
  BY <1>1 DEF ShopWell, KeysShape
<1>3. \A n \in Reserved : \A v : "none" \notin DOMAIN Holding(n, v)
  BY <1>0 DEF Holding, Noted, Reserved
<1>4. ASSUME pc' \in 0 .. 10, held' = held \/ (\E v : held' = Holding("handoff", v)), Signed',
             shop'.footer = shop.footer, shop'.service = shop.service
      PROVE  ShopWell' /\ Behind'
  <2>1. "none" \notin DOMAIN held'
    BY <1>0, <1>3, <1>4 DEF Reserved
  <2> QED BY <1>1, <1>2, <1>4, <2>1, EarlyBehind, WellAside DEF Behind
<1>5. ASSUME Stop, shop'.footer = shop.footer, shop'.service = shop.service
      PROVE  ShopWell' /\ Behind'
  BY <1>1, <1>2, <1>5, StopBehind, WellAside
<1>6. CASE HandoffSecret
  <2> DEFINE known == IF shop.handoff # 0 THEN shop.handoff ELSE host.handoff
             s     == IF known # 0 THEN known ELSE fresh
  <2>1. pc = 1 /\ shop' = [shop EXCEPT !.handoff = s] /\ Then(Holding("handoff", s)) /\ s # 0
    BY <1>0, <1>6, AtStep, Places DEF HandoffSecret
  <2> HIDE DEF s
  <2>2. /\ shop'.handoff = s /\ shop'.footer = shop.footer /\ shop'.service = shop.service
    BY <1>0, <2>1 DEF ShopShape
  <2>3. CASE pc' = 2 /\ held' = Holding("handoff", s)
    <3>1. Signed'
      BY <2>1, <2>2, <2>3 DEF Signed
    <3> QED BY <1>4, <2>2, <2>3, <3>1
  <2> QED BY <1>5, <2>1, <2>2, <2>3 DEF Then, Past
<1>7. CASE PatchDomains
  <2>1. pc = 2 /\ unseen' = unseen /\ host' = host
    <3>1. pc \in 1 .. 40 /\ Steps[pc] = "domain"
      BY <1>7, AtStep DEF PatchDomains
    <3> QED BY <1>7, <3>1, MorePlaces DEF PatchDomains
  <2>2. CASE /\ shop' = [shop EXCEPT !.domains = (@ \ {"localhost"}) \cup {"published"}] /\ Again(held)
    <3>1. shop'.handoff = shop.handoff /\ shop'.footer = shop.footer /\ shop'.service = shop.service
      BY <1>0, <2>2 DEF ShopShape
    <3>2. CASE pc' = pc /\ held' = held
      <4>1. Signed'
        BY <1>0, <2>1, <3>1, <3>2 DEF Signed
      <4> QED BY <1>4, <2>1, <3>1, <3>2, <4>1
    <3> QED BY <1>5, <2>2, <3>1, <3>2 DEF Again
  <2>3. CASE "localhost" \notin shop.domains /\ shop' = shop /\ Then(held)
    <3>1. CASE pc' = pc + 1 /\ held' = held
      <4>1. Signed'
        BY <1>0, <2>1, <2>3, <3>1 DEF Signed
      <4> QED BY <1>4, <2>1, <2>3, <3>1, <4>1
    <3> QED BY <1>5, <2>3, <3>1 DEF Then, Past
  <2> QED BY <1>7, <2>2, <2>3 DEF PatchDomains
<1>8. ASSUME Then(held), pc \in 1 .. 9, shop'.footer = shop.footer, shop'.service = shop.service,
             pc' = pc + 1 => Signed'
      PROVE  ShopWell' /\ Behind'
  <2>1. CASE pc' = pc + 1 /\ held' = held
    BY <1>4, <1>8, <2>1
  <2> QED BY <1>5, <1>8, <2>1 DEF Then, Past
<1>9. CASE AgentKey
  <2>1. /\ pc = 3 /\ Then(held) /\ UNCHANGED <<shop, unseen>>
    BY <1>9, AtStep, MorePlaces DEF AgentKey
  <2>2. pc' = pc + 1 => Signed'
    BY <2>1, <1>0 DEF Signed
  <2> QED BY <1>8, <2>1, <2>2
<1>10. CASE WriteProfile
  <2>1. /\ pc = 4 /\ Then(held) /\ UNCHANGED <<shop, unseen>>
        /\ host'.profile = host.pem /\ host'.pem = host.pem
    BY <1>0, <1>10, AtStep, MorePlaces DEF WriteProfile, HostShape
  <2>2. pc' = pc + 1 => Signed'
    BY <2>1, <1>0 DEF Signed
  <2> QED BY <1>8, <2>1, <2>2
<1>11. CASE CopyProfile
  <2>1. /\ pc = 5 /\ Then(held) /\ UNCHANGED <<host, unseen>>
        /\ shop'.copy = host.profile /\ shop'.footer = shop.footer /\ shop'.service = shop.service
        /\ shop'.handoff = shop.handoff /\ shop'.domains = shop.domains
    BY <1>0, <1>11, AtStep, MorePlaces DEF CopyProfile, ShopShape
  <2>2. pc' = pc + 1 => Signed'
    BY <2>1, <1>0 DEF Signed
  <2> QED BY <1>8, <2>1, <2>2
<1>12. CASE EnsureConfig
  <2>1. /\ pc = 6 /\ Then(held) /\ UNCHANGED <<host, unseen>>
        /\ shop' = [shop EXCEPT !.config = TRUE]
    BY <1>12, AtStep, Places DEF EnsureConfig
  <2>2. /\ shop'.copy = shop.copy /\ shop'.footer = shop.footer /\ shop'.service = shop.service
        /\ shop'.handoff = shop.handoff /\ shop'.domains = shop.domains
    BY <1>0, <2>1 DEF ShopShape
  <2>3. shop'.config
    BY <1>0, <2>1 DEF ShopShape
  <2>4. pc' = pc + 1 => Signed'
    BY <2>1, <2>2, <2>3, <1>0 DEF Signed
  <2> QED BY <1>8, <2>1, <2>2, <2>4
<1>13. CASE SkipUcp
  <2>1. (pc = 6 \/ pc = 9) /\ pc' = 10 /\ unseen' = TRUE /\ UNCHANGED <<held, shop, host>>
    BY <1>13, AtStep, Places, GroupIsTenth DEF SkipUcp, world
  <2>2. Signed'
    BY <1>0, <2>1 DEF Signed
  <2> QED BY <1>4, <2>1, <2>2
<1>14. CASE PurgeProfiles
  <2>1. /\ pc = 9 /\ Then(held) /\ UNCHANGED <<host, unseen>>
        /\ shop'.copy = shop.copy /\ shop'.footer = shop.footer /\ shop'.service = shop.service
        /\ shop'.handoff = shop.handoff /\ shop'.domains = shop.domains /\ shop'.cached = 0
        /\ (shop.config => shop'.config)
    BY <1>0, <1>14, AtStep, Places DEF PurgeProfiles, ShopShape
  <2>2. pc' = pc + 1 => Signed'
    <3>1. Active(keys)' = Active(keys)
      BY <1>1 DEF Active
    <3> QED BY <1>0, <2>1, <3>1 DEF Signed
  <2> QED BY <1>8, <2>1, <2>2
<1> QED BY <1>6, <1>7, <1>9, <1>10, <1>11, <1>12, <1>13, <1>14

\* The shop's signing keys: one is active in the end.
LEMMA KeyStepsBehind ==
  ASSUME BootInv, ShopWell, Behind, ListKeys \/ ListKeysUnread \/ RemoveSurplus
  PROVE  ShopWell' /\ Behind'
<1>0. /\ Signed /\ "none" \notin DOMAIN held /\ fresh \in Nat /\ RowsWell
      /\ RootsNamed /\ RolesKnown /\ KeysShape
      /\ UNCHANGED <<rows, orders, integrations, shop, host, fresh>>
  BY DEF BootInv, KeysAreUsed, ShopWell, Behind, RowsDone, ListKeys, ListKeysUnread, RemoveSurplus
<1>1. ASSUME NEW k, k = [kid |-> "default", active |-> TRUE] PROVE IsKey(k) /\ k.active
  <2>1. IsKey(k)
    BY <1>1 DEF IsKey
  <2>2. k.active
    BY <1>1
  <2> QED BY <2>1, <2>2
<1>2. ASSUME NEW k, IsKey(k), NEW no, no \in BOOLEAN PROVE IsKey([k EXCEPT !.active = no])
  BY <1>2 DEF IsKey
<1>3. KeysShape'
  <2>1. CASE ListKeys \/ ListKeysUnread
    <3>1. \A k \in keys' : k \in keys \/ k = [kid |-> "default", active |-> TRUE]
      BY <2>1 DEF ListKeys, ListKeysUnread
    <3> QED BY <1>0, <1>1, <3>1 DEF KeysShape
  <2>2. CASE RemoveSurplus
    <3> DEFINE no == FALSE
    <3>1. \A k \in keys' : k \in keys \/ \E j \in keys : k = [j EXCEPT !.active = no]
      BY <2>2 DEF RemoveSurplus
    <3>2. no \in BOOLEAN
      OBVIOUS
    <3> HIDE DEF no
    <3> QED BY <1>0, <1>2, <3>1, <3>2 DEF KeysShape
  <2> QED BY <2>1, <2>2
<1>4. ShopWell'
  BY <1>0, <1>3, WellAside
<1>5. CASE Stop
  BY <1>4, <1>5, StopBehind
<1>6. ASSUME pc' \in {8, 9}, pc \in {7, 8}, held' = held \/ (\E v : held' = Holding("keep", v)),
             unseen' = unseen \/ unseen' = TRUE,
             pc' = 9 /\ unseen' = unseen => \E k : Active(keys)' = {k}
      PROVE  Behind'
  <2>1. "none" \notin DOMAIN held'
    BY <1>0, <1>6 DEF Holding, Noted
  <2>2. Signed'
    BY <1>0, <1>6 DEF Signed
  <2> QED BY <1>6, <2>1, <2>2, EarlyBehind DEF Behind
<1>7. CASE ListKeys
  <2>1. pc = 7 /\ unseen' = unseen
    BY <1>7, AtStep, Places DEF ListKeys
  <2>2. ASSUME NEW k, Then(Holding("keep", k.kid)) PROVE Behind'
    <3>1. CASE pc' = pc + 1 /\ held' = Holding("keep", k.kid)
      BY <1>6, <2>1, <3>1
    <3> QED BY <1>5, <2>2, <3>1 DEF Then, Past
  <2>3. ASSUME Active(keys) = {}, keys' = keys \cup {[kid |-> "default", active |-> TRUE]}, Past(2, held)
        PROVE  Behind'
    <3> DEFINE k == [kid |-> "default", active |-> TRUE]
    <3>1. k.active
      BY <1>1
    <3>2. keys' = keys \cup {k}
      BY <2>3
    <3> HIDE DEF k
    <3>3. Active(keys)' = {k}
      BY <2>3, <3>1, <3>2 DEF Active
    <3>4. CASE pc' = pc + 2 /\ held' = held
      BY <1>6, <2>1, <3>3, <3>4
    <3> QED BY <1>5, <2>3, <3>4 DEF Past
  <2> QED BY <1>4, <1>5, <1>7, <2>2, <2>3 DEF ListKeys
<1>8. CASE ListKeysUnread
  <2>1. pc = 7 /\ (Stop \/ (unseen' = TRUE /\ pc' = pc + 2 /\ held' = held))
    BY <1>8, AtStep, Places DEF ListKeysUnread
  <2>2. CASE unseen' = TRUE /\ pc' = pc + 2 /\ held' = held
    <3>1. Signed'
      BY <1>0, <2>1, <2>2 DEF Signed
    <3> QED BY <1>0, <1>4, <2>1, <2>2, <3>1, EarlyBehind DEF Behind
  <2> QED BY <1>4, <1>5, <2>1, <2>2
<1>9. CASE RemoveSurplus
  <2> DEFINE surplus == {k \in keys : k.kid # held["keep"]}
  <2>1. pc = 8
    BY <1>9, AtStep, Places DEF RemoveSurplus
  <2>2. PICK left \in SUBSET surplus : \E retired \in SUBSET left :
           /\ keys' = (keys \ surplus) \cup (left \ retired) \cup {[k EXCEPT !.active = FALSE] : k \in retired}
           /\ \/ left = {} /\ Then(held) /\ UNCHANGED unseen
              \/ left # {} /\ Faulty /\ Stop /\ UNCHANGED unseen
              \/ left # {} /\ Faulty /\ unseen' = TRUE /\ pc' = pc + 1
                 /\ UNCHANGED <<last, held, runs, staff, stops>>
    BY <1>9 DEF RemoveSurplus
  <2>3. CASE left = {} /\ Then(held) /\ UNCHANGED unseen
    <3>1. keys' = keys \ surplus
      BY <2>2, <2>3
    <3>2. PICK k \in Active(keys) : k.kid = held["keep"]
      BY <2>1 DEF BootInv, KeyInHand
    <3>3. Active(keys)' = {k}
      <4>1. k \in keys' /\ k.active
        BY <3>1, <3>2 DEF Active
      <4>2. ASSUME NEW j \in keys', j.active PROVE j = k
        <5>1. j \in keys /\ j.kid = held["keep"]
          BY <3>1, <4>2
        <5> QED BY <1>0, <3>2, <4>1, <4>2, <5>1, OneKey DEF KeysShape, Active
      <4> QED BY <4>1, <4>2 DEF Active
    <3>4. CASE pc' = pc + 1 /\ held' = held
      BY <1>4, <1>6, <2>1, <2>3, <3>3, <3>4
    <3> QED BY <1>4, <1>5, <2>3, <3>4 DEF Then, Past
  <2>4. CASE unseen' = TRUE /\ pc' = pc + 1 /\ held' = held
    <3>1. Signed'
      BY <1>0, <2>1, <2>4 DEF Signed
    <3> QED BY <1>0, <1>4, <2>1, <2>4, <3>1, EarlyBehind DEF Behind
  <2> QED BY <1>4, <1>5, <2>2, <2>3, <2>4
<1> QED BY <1>7, <1>8, <1>9

\* The id of a row that is behind.
LEMMA HeldRow ==
  ASSUME RowsWell, RowsDone, NEW j \in RowPlaces \ {13, 22, 23}, j < pc
  PROVE  /\ Names[j] \in DOMAIN held /\ Held(Names[j]) = held[Names[j]]
         /\ \E r \in rows : r.name = Names[j] /\ r.id = Held(Names[j])
         /\ \A r \in rows : r.name = Names[j] => r.id = Held(Names[j])
<1>1. PICK r \in rows : Sits(r, j)
  BY DEF RowsDone
<1>2. r.name = Names[j] /\ Held(Names[j]) = r.id /\ r.id # 0
  BY <1>1, NamePlaces DEF Sits, RowsWell, IsRow
<1>3. Names[j] \in DOMAIN held /\ Held(Names[j]) = held[Names[j]]
  BY <1>2 DEF Held
<1> QED BY <1>2, <1>3, Holder

\* The same by the names that are spoken of.
LEMMA HeldNames ==
  ASSUME RowsWell, RowsDone
  PROVE  LET Known(n) == /\ n \in DOMAIN held /\ Held(n) = held[n]
                         /\ \E r \in rows : r.name = n /\ r.id = Held(n)
                         /\ \A r \in rows : r.name = n => r.id = Held(n)
         IN  /\ pc \in 22 .. 41 => Known("Standard") /\ Known("Express")
             /\ pc \in 27 .. 41 => Known("Footer") /\ Known("Service")
             /\ pc \in 37 .. 41 => Known("role")
<1>1. /\ 20 \in RowPlaces \ {13, 22, 23} /\ 21 \in RowPlaces \ {13, 22, 23}
      /\ 25 \in RowPlaces \ {13, 22, 23} /\ 26 \in RowPlaces \ {13, 22, 23}
      /\ 36 \in RowPlaces \ {13, 22, 23}
  BY DEF RowPlaces
<1>2. /\ Names[20] = "Express" /\ Names[21] = "Standard" /\ Names[25] = "Footer"
      /\ Names[26] = "Service" /\ Names[36] = "role"
  BY DEF Names
<1>3. pc \in 22 .. 41 => 20 < pc /\ 21 < pc
  OBVIOUS
<1>4. pc \in 27 .. 41 => 25 < pc /\ 26 < pc
  OBVIOUS
<1>5. pc \in 37 .. 41 => 36 < pc
  OBVIOUS
<1> DEFINE Known(n) == /\ n \in DOMAIN held /\ Held(n) = held[n]
                       /\ \E r \in rows : r.name = n /\ r.id = Held(n)
                       /\ \A r \in rows : r.name = n => r.id = Held(n)
<1>6. ASSUME NEW j \in RowPlaces \ {13, 22, 23}, j < pc PROVE Known(Names[j])
  BY <1>6, HeldRow
<1> HIDE DEF Known
<1>7. pc \in 22 .. 41 => Known("Standard") /\ Known("Express")
  BY <1>1, <1>2, <1>3, <1>6
<1>8. pc \in 27 .. 41 => Known("Footer") /\ Known("Service")
  BY <1>1, <1>2, <1>4, <1>6
<1>9. pc \in 37 .. 41 => Known("role")
  BY <1>1, <1>2, <1>5, <1>6
<1> QED BY <1>7, <1>8, <1>9 DEF Known

\* The rows are behind, after a step past one of the other operations.
LEMMA AsideBehind ==
  ASSUME RowsDone, rows' = rows, KeepsRows(held'), pc \in 0 .. 41, pc' \in 0 .. 41,
         \/ pc' = pc
         \/ pc' = pc + 1 /\ pc \notin RowPlaces
         \/ pc' = pc + 2 /\ pc \notin RowPlaces /\ pc + 1 \notin RowPlaces
  PROVE  RowsDone'
<1>1. ASSUME NEW i \in RowPlaces \ {13}, i < pc' PROVE i < pc
  <2>1. i \in 1 .. 40
    BY RowsInOrder
  <2>2. i # pc \/ pc' = pc
    OBVIOUS
  <2>3. i # pc + 1 \/ pc' = pc \/ pc' = pc + 1
    OBVIOUS
  <2> QED BY <1>1, <2>1, <2>2, <2>3
<1> QED BY <1>1, RowsAside

\* The channel is given both methods, and names both roots.
LEMMA ChannelSteps ==
  ASSUME BootInv, ShopWell, Behind, AssignMethods \/ PatchChannel
  PROVE  ShopWell' /\ Behind'
<1>0. /\ fresh \in Nat /\ ShopShape /\ Signed /\ Linked /\ RowsWell /\ RowsDone
      /\ RootsNamed /\ RolesKnown /\ KeysShape
  BY DEF BootInv, KeysAreUsed, Behind, ShopWell
<1>1. /\ UNCHANGED <<rows, orders, keys, integrations, host, fresh, unseen>> /\ Then(held)
      /\ shop'.handoff = shop.handoff /\ shop'.domains = shop.domains /\ shop'.copy = shop.copy
      /\ shop'.cached = shop.cached /\ shop'.config = shop.config
  <2>1. CASE AssignMethods
    BY <1>0, <2>1 DEF AssignMethods, ShopShape
  <2>2. CASE PatchChannel
    BY <1>0, <2>2 DEF PatchChannel, ShopShape
  <2> QED BY <2>1, <2>2
<1>2. KeysShape' /\ RolesKnown'
  BY <1>0, <1>1 DEF KeysShape, RolesKnown
<1>3. RowsWell'
  BY <1>0, <1>1, RowsUntouched
<1>4. CASE AssignMethods
  <2>1. /\ pc = 24 /\ shop'.footer = shop.footer /\ shop'.service = shop.service
        /\ shop'.assigned = shop.assigned \cup {held["Standard"], held["Express"]}
    BY <1>0, <1>4, AtStep, MorePlaces DEF AssignMethods, ShopShape
  <2>2. ShopWell'
    BY <1>0, <1>1, <1>2, <2>1, WellAside
  <2>3. CASE pc' = pc + 1 /\ held' = held
    <3>1. Held("Standard")' = Held("Standard") /\ Held("Express")' = Held("Express")
      BY <2>3 DEF Held
    <3>2. Held("Standard") = held["Standard"] /\ Held("Express") = held["Express"]
      BY <1>0, <2>1, HeldNames
    <3>3. Linked'
      BY <2>1, <2>3, <3>1, <3>2 DEF Linked
    <3>4. Signed'
      BY <1>0, <1>1, <2>1, <2>3, SignedStays
    <3>5. Credited'
      BY <2>1, <2>3 DEF Credited
    <3>6. RowsDone'
      BY <1>0, <1>1, <2>1, <2>3, AsideBehind, ReservedKeeps DEF RowPlaces
    <3> QED BY <2>2, <3>3, <3>4, <3>5, <3>6 DEF Behind
  <2> QED BY <1>1, <2>2, <2>3, StopBehind DEF Then, Past
<1>5. CASE PatchChannel
  <2>1. /\ pc = 27 /\ shop'.assigned = shop.assigned
        /\ shop'.footer = held["Footer"] /\ shop'.service = held["Service"]
    BY <1>0, <1>5, AtStep, MorePlaces DEF PatchChannel, ShopShape
  <2>2. /\ Held("Footer") = held["Footer"] /\ Held("Service") = held["Service"]
        /\ \E r \in rows : r.name = "Footer" /\ r.id = Held("Footer")
        /\ \E r \in rows : r.name = "Service" /\ r.id = Held("Service")
    BY <1>0, <2>1, HeldNames
  <2>3. RootsNamed'
    BY <1>1, <2>1, <2>2 DEF RootsNamed
  <2>4. ShopWell'
    BY <1>2, <1>3, <2>3 DEF ShopWell
  <2>5. CASE pc' = pc + 1 /\ held' = held
    <3>1. \A n : Held(n)' = Held(n)
      BY <2>5 DEF Held
    <3>2. Linked'
      BY <1>0, <2>1, <2>2, <2>5, <3>1 DEF Linked
    <3>3. Signed'
      BY <1>0, <1>1, <2>1, <2>5, SignedStays
    <3>4. Credited'
      BY <2>1, <2>5 DEF Credited
    <3>5. RowsDone'
      BY <1>0, <1>1, <2>1, <2>5, AsideBehind, ReservedKeeps DEF RowPlaces
    <3> QED BY <2>4, <3>2, <3>3, <3>4, <3>5 DEF Behind
  <2> QED BY <1>1, <2>4, <2>5, StopBehind DEF Then, Past
<1> QED BY <1>4, <1>5

\* A step that leaves shop, keys and rows, past operations that are none of rows.
LEMMA LateBehind ==
  ASSUME BootInv, ShopWell, Behind, pc \in 28 .. 41, pc' \in 28 .. 41,
         UNCHANGED <<rows, keys, shop, unseen>>, fresh' \in Nat, fresh' >= fresh,
         host'.profile = host.profile, host'.pem = host.pem,
         KeepsRows(held'), RolesKnown',
         \/ pc' = pc
         \/ pc' = pc + 1 /\ pc \notin RowPlaces
         \/ pc' = pc + 2 /\ pc \notin RowPlaces /\ pc + 1 \notin RowPlaces
  PROVE  ShopWell' /\ (Credited' => Behind')
<1>1. RowsWell'
  BY RowsUntouched DEF BootInv, KeysAreUsed, ShopWell
<1>2. ShopWell'
  BY <1>1 DEF ShopWell, RootsNamed, KeysShape
<1>3. RowsDone'
  BY AsideBehind DEF Behind
<1>4. Signed'
  BY SignedStays DEF Behind
<1>5. Linked'
  BY HoldsOn, LinkedStays DEF Behind
<1> QED BY <1>2, <1>3, <1>4, <1>5 DEF Behind

\* The orders.
LEMMA OrderSteps ==
  ASSUME BootInv, ShopWell, Behind, CountOrders \/ PlaceOrder \/ Backdate \/ ApplyState \/ AllPlaced
  PROVE  ShopWell' /\ Behind'
<1>0. /\ fresh \in Nat /\ OrdersAsPlanned /\ OrderInHand /\ RolesKnown /\ Credited
      /\ UNCHANGED <<rows, keys, integrations, shop, host, fresh, unseen>>
  BY DEF BootInv, KeysAreUsed, ShopWell, Behind, CountOrders, PlaceOrder, Backdate, ApplyState,
         AllPlaced, world
<1>1. RolesKnown'
  BY <1>0 DEF RolesKnown
<1>2. CASE Stop
  <2>1. KeysShape'
    BY <1>0 DEF ShopWell, KeysShape
  <2> QED BY <1>0, <1>2, <2>1, StopBehind, WellAside
<1>3. ASSUME pc \in {33, 34}, pc' = 34,
             held' = held \/ (\E n \in Reserved : \E v : held' = Holding(n, v))
             \/ (\E n, m \in Reserved : \E v, w : held' = Noted(Holding(n, v), m, w))
      PROVE  ShopWell' /\ Behind'
  <2>1. KeepsRows(held')
    BY <1>3, ReservedKeeps
  <2>2. Credited'
    BY <1>3 DEF Credited
  <2> QED BY <1>0, <1>1, <1>3, <2>1, <2>2, LateBehind DEF RowPlaces
<1>4. ASSUME pc \in {33, 34}, pc' = 35, held' = held, orders' = orders, Len(orders) >= Len(Kinds)
      PROVE  ShopWell' /\ Behind'
  <2>1. KeepsRows(held')
    BY <1>4, ReservedKeeps
  <2>2. Credited'
    BY <1>4 DEF Credited
  <2>3. \/ pc' = pc + 1 /\ pc \notin RowPlaces
        \/ pc' = pc + 2 /\ pc \notin RowPlaces /\ pc + 1 \notin RowPlaces
    BY <1>4 DEF RowPlaces
  <2> QED BY <1>0, <1>1, <1>4, <2>1, <2>2, <2>3, LateBehind
<1>5. CASE CountOrders
  <2>1. pc = 33
    BY <1>5, AtStep, Places DEF CountOrders
  <2>2. CASE Len(orders) >= Len(Kinds) /\ pc' = pc + 2 /\ held' = held
    BY <1>4, <1>5, <2>1, <2>2 DEF CountOrders, world
  <2>3. CASE Then(Holding("existing", Len(orders)))
    <3>1. CASE pc' = pc + 1 /\ held' = Holding("existing", Len(orders))
      BY <1>3, <2>1, <3>1 DEF Reserved
    <3> QED BY <1>2, <2>3, <3>1 DEF Then, Past
  <2> QED BY <1>5, <2>2, <2>3 DEF CountOrders
<1>6. CASE PlaceOrder
  <2>1. pc = 34 /\ Again(Holding("order", Len(orders) + 1))
    BY <1>6, AtStep, Places DEF PlaceOrder
  <2>2. CASE pc' = pc /\ held' = Holding("order", Len(orders) + 1)
    BY <1>3, <2>1, <2>2 DEF Reserved
  <2> QED BY <1>2, <2>1, <2>2 DEF Again
<1>7. CASE Backdate
  <2>1. pc = 34 /\ Again(held)
    BY <1>7, AtStep, Places DEF Backdate
  <2>2. CASE pc' = pc /\ held' = held
    BY <1>3, <2>1, <2>2
  <2> QED BY <1>2, <2>1, <2>2 DEF Again
<1>8. CASE ApplyState
  <2>1. pc = 34
    BY <1>8, AtStep, Places DEF ApplyState
  <2>2. CASE Again(held)
    <3>1. CASE pc' = pc /\ held' = held
      BY <1>3, <2>1, <3>1
    <3> QED BY <1>2, <2>2, <3>1 DEF Again
  <2>3. CASE pc' = pc /\ held' = [Holding("existing", held["existing"] + 1) EXCEPT !["order"] = 0]
    <3>1. "order" \in DOMAIN held
      BY <1>0, <1>8, <2>1 DEF OrderInHand, ApplyState
    <3>2. held' = Noted(Holding("existing", held["existing"] + 1), "order", 0)
      BY <2>3, <3>1 DEF Noted, Holding
    <3> QED BY <1>3, <2>1, <2>3, <3>2 DEF Reserved
  <2> QED BY <1>8, <2>2, <2>3 DEF ApplyState
<1>9. CASE AllPlaced
  <2>1. /\ pc = 34 /\ pc' = pc + 1 /\ held' = held /\ orders' = orders
        /\ Held("existing") = Len(Kinds) /\ Held("order") = 0
    BY <1>9, AtStep, Places DEF AllPlaced, world
  <2>2. Len(orders) = Len(Kinds)
    BY <1>0, <2>1 DEF OrderInHand, Held
  <2>3. Len(Kinds) \in Nat
    BY BootAssumption
  <2> QED BY <1>4, <2>1, <2>2, <2>3
<1> QED BY <1>5, <1>6, <1>7, <1>8, <1>9

\* The rights of the integration: the list is allowed.
LEMMA AllowEdit ==
  ASSUME NEW i, IsIntegration(i), NEW v
  PROVE  LET j == [i EXCEPT !.allowed = v] IN j.roles = i.roles /\ j.admin = i.admin /\ j.allowed = v
BY DEF IsIntegration

\* The integration gets the role, and no other.
LEMMA IntegrationRoles ==
  ASSUME BootInv, ShopWell, Behind, EnsureIntegration
  PROVE  \A j \in integrations' : j.admin = FALSE /\ j.roles = {Held("role")}
<1>1. pc = 37 /\ RowsWell /\ RowsDone /\ RolesKnown
  BY AtStep, Places DEF EnsureIntegration, ShopWell, Behind
<1>2. held["role"] = Held("role") /\ (\A r \in rows : r.name = "role" => r.id = Held("role"))
  BY <1>1, HeldNames
<1>3. CASE integrations' = {[access |-> fresh, secret |-> fresh, admin |-> FALSE, roles |-> {held["role"]},
                             allowed |-> FALSE]}
  <2> DEFINE no == FALSE
             i == [access |-> fresh, secret |-> fresh, admin |-> no, roles |-> {held["role"]}, allowed |-> no]
  <2>1. integrations' = {i}
    BY <1>3
  <2>2. i.admin = no /\ i.roles = {held["role"]}
    OBVIOUS
  <2> HIDE DEF i
  <2> QED BY <1>2, <2>1, <2>2
<1>4. ASSUME NEW i \in integrations,
             integrations' = {[i EXCEPT !.admin = FALSE, !.roles = @ \cup {held["role"]},
                                        !.secret = IF Unknown(i) THEN fresh ELSE @]}
      PROVE  \A j \in integrations' : j.admin = FALSE /\ j.roles = {Held("role")}
  <2> DEFINE no == FALSE
             u == IF Unknown(i) THEN fresh ELSE i.secret
             r == i.roles \cup {held["role"]}
             j == [i EXCEPT !.admin = FALSE, !.roles = @ \cup {held["role"]},
                            !.secret = IF Unknown(i) THEN fresh ELSE @]
  <2>1. PICK v1, v2, v3, v4, v5 : Fields(i, v1, v2, v3, v4, v5)
    BY DEF BootInv, KeysAreUsed, IsIntegration, Fields
  <2>2. r = {Held("role")}
    BY <1>1, <1>2 DEF RolesKnown
  <2> HIDE DEF no, u, r
  <2>3. Fields(Edited(i, no, r, u), v1, u, no, r, v5)
    BY <2>1, ThreeEdits
  <2>4. j = Edited(i, no, r, u)
    BY DEF Edited, no, u, r
  <2>5. integrations' = {j}
    BY <1>4
  <2> HIDE DEF j
  <2>6. j.admin = no /\ j.roles = r
    BY <2>3, <2>4 DEF Fields
  <2> QED BY <2>2, <2>5, <2>6 DEF no
<1> QED BY <1>3, <1>4 DEF EnsureIntegration

\* The hosts' credentials, and what the integration may do.
LEMMA IdentitySteps ==
  ASSUME BootInv, ShopWell, Behind,
         \/ WriteCredentials \/ EnsureIntegration \/ SetAllowlist \/ WriteEnv \/ VerifyMcp
  PROVE  ShopWell' /\ Behind'
<1>0. /\ fresh \in Nat /\ ShopShape /\ HostShape /\ SecretInHand /\ CredentialsInHand
      /\ (\A i \in integrations : IsIntegration(i)) /\ (\A i, j \in integrations : i = j)
      /\ RolesKnown /\ RowsWell /\ RowsDone /\ Credited /\ RootsNamed /\ KeysShape
  BY DEF BootInv, KeysAreUsed, ShopWell, Behind
<1>1. /\ UNCHANGED <<rows, orders, keys, shop, unseen>>
      /\ fresh' \in Nat /\ fresh' >= fresh
  <2>1. CASE WriteCredentials \/ SetAllowlist \/ WriteEnv
    BY <1>0, <2>1 DEF WriteCredentials, SetAllowlist, WriteEnv
  <2>2. CASE EnsureIntegration
    <3>1. UNCHANGED <<rows, orders, keys, shop, unseen>> /\ fresh' = fresh + 1
      BY <2>2 DEF EnsureIntegration
    <3> QED BY <1>0, <3>1
  <2>3. CASE VerifyMcp
    BY <1>0, <2>3 DEF VerifyMcp, world
  <2> QED BY <2>1, <2>2, <2>3
<1>2. host'.profile = host.profile /\ host'.pem = host.pem
  <2>1. CASE WriteCredentials
    BY <1>0, <2>1 DEF WriteCredentials, HostShape
  <2>2. CASE WriteEnv
    BY <1>0, <2>2 DEF WriteEnv, HostShape
  <2>3. CASE EnsureIntegration \/ SetAllowlist \/ VerifyMcp
    BY <2>3 DEF EnsureIntegration, SetAllowlist, VerifyMcp, world
  <2> QED BY <2>1, <2>2, <2>3
<1>3. RolesKnown' => ShopWell'
  BY <1>0, <1>1, RowsUntouched DEF ShopWell, RootsNamed, KeysShape
<1>4. ASSUME Stop, RolesKnown' PROVE ShopWell' /\ Behind'
  BY <1>3, <1>4, StopBehind
<1>5. ASSUME RolesKnown', pc' = pc + 1, pc \in {35, 37, 38, 39, 40}, KeepsRows(held'), Credited'
      PROVE  ShopWell' /\ Behind'
  <2>1. pc \in 28 .. 41 /\ pc' \in 28 .. 41 /\ pc \notin RowPlaces
    BY <1>5 DEF RowPlaces
  <2> QED BY <1>1, <1>2, <1>5, <2>1, LateBehind
<1>6. CASE WriteCredentials
  <2>1. /\ pc = 35 /\ Then(held) /\ integrations' = integrations
        /\ host'.handoff = held["handoff"]
    BY <1>0, <1>6, AtStep, Places DEF WriteCredentials, HostShape
  <2>2. RolesKnown'
    BY <1>0, <1>1, <2>1 DEF RolesKnown
  <2>3. CASE pc' = pc + 1 /\ held' = held
    <3>1. Credited'
      BY <1>0, <1>1, <2>1, <2>3 DEF Credited, SecretInHand
    <3> QED BY <1>5, <2>1, <2>2, <2>3, <3>1, ReservedKeeps
  <2> QED BY <1>4, <2>1, <2>2, <2>3 DEF Then, Past
<1>7. CASE EnsureIntegration
  <2>1. pc = 37 /\ host' = host
    BY <1>7, AtStep, Places DEF EnsureIntegration
  <2>2. \A j \in integrations' : j.admin = FALSE /\ j.roles = {Held("role")}
    BY <1>7, IntegrationRoles
  <2>3. RolesKnown'
    <3>1. \E r \in rows : r.name = "role" /\ r.id = Held("role")
      BY <1>0, <2>1, HeldNames
    <3> QED BY <1>1, <2>2, <3>1 DEF RolesKnown
  <2>4. \E j : j \in integrations'
    BY <1>7 DEF EnsureIntegration
  <2>5. \E a, s : Then(Noted(Holding("access", a), "secret", s))
    BY <1>7 DEF EnsureIntegration
  <2>6. ASSUME NEW a, NEW s, pc' = pc + 1, held' = Noted(Holding("access", a), "secret", s)
        PROVE  ShopWell' /\ Behind'
    <3>1. KeepsRows(held')
      BY <2>6, ReservedKeeps DEF Reserved
    <3>2. Held("role")' = Held("role")
      BY <3>1, HoldsOn
    <3>3. PICK j \in integrations' : ~ j.admin /\ j.roles = {Held("role")}
      BY <2>2, <2>4
    <3>4. \E i \in integrations' : ~ i.admin /\ i.roles = {Held("role")'}
      BY <3>2, <3>3
    <3>5. Credited'
      BY <1>0, <1>1, <2>1, <2>6, <3>4 DEF Credited
    <3> QED BY <1>5, <2>1, <2>3, <2>6, <3>1, <3>5
  <2> QED BY <1>4, <2>3, <2>5, <2>6 DEF Then, Past
<1>8. CASE SetAllowlist
  <2>1. /\ pc = 38 /\ Then(held) /\ host' = host
        /\ integrations' = {[i EXCEPT !.allowed = TRUE] : i \in integrations}
    BY <1>8, AtStep, Places DEF SetAllowlist
  <2> DEFINE yes == TRUE
  <2>2. integrations' = {[i EXCEPT !.allowed = yes] : i \in integrations} /\ yes
    BY <2>1
  <2> HIDE DEF yes
  <2>3. /\ \A j \in integrations' : \E i \in integrations : j.roles = i.roles /\ j.allowed
        /\ \A i \in integrations : \E j \in integrations' : j.roles = i.roles /\ j.admin = i.admin
    <3>1. ASSUME NEW i \in integrations
          PROVE  /\ [i EXCEPT !.allowed = yes] \in integrations'
                 /\ [i EXCEPT !.allowed = yes].roles = i.roles
                 /\ [i EXCEPT !.allowed = yes].admin = i.admin
                 /\ [i EXCEPT !.allowed = yes].allowed = yes
      BY <1>0, <2>2, AllowEdit
    <3> QED BY <2>2, <3>1
  <2>4. RolesKnown'
    BY <1>0, <1>1, <2>3 DEF RolesKnown
  <2>5. CASE pc' = pc + 1 /\ held' = held
    <3>1. Held("role")' = Held("role")
      BY <2>5 DEF Held
    <3>2. PICK i \in integrations : ~ i.admin /\ i.roles = {Held("role")}
      BY <1>0, <2>1 DEF Credited
    <3>3. \E j \in integrations' : ~ j.admin /\ j.roles = {Held("role")'}
      BY <2>3, <3>1, <3>2
    <3>4. Credited'
      BY <1>0, <1>1, <2>1, <2>3, <2>5, <3>3 DEF Credited
    <3> QED BY <1>5, <2>1, <2>4, <2>5, <3>4, ReservedKeeps
  <2> QED BY <1>4, <2>1, <2>4, <2>5 DEF Then, Past
<1>9. CASE WriteEnv
  <2>1. /\ pc = 39 /\ Then(held) /\ integrations' = integrations
        /\ host'.handoff = host.handoff
    BY <1>0, <1>9, AtStep, Places DEF WriteEnv, HostShape
  <2>2. RolesKnown'
    BY <1>0, <1>1, <2>1 DEF RolesKnown
  <2>3. CASE pc' = pc + 1 /\ held' = held
    <3>1. Held("role")' = Held("role")
      BY <2>3 DEF Held
    <3>2. Credited'
      BY <1>0, <1>1, <2>1, <2>3, <3>1 DEF Credited
    <3> QED BY <1>5, <2>1, <2>2, <2>3, <3>2, ReservedKeeps
  <2> QED BY <1>4, <2>1, <2>2, <2>3 DEF Then, Past
<1>10. CASE VerifyMcp
  <2>1. pc = 40 /\ integrations' = integrations /\ host' = host
    BY <1>10, AtStep, MorePlaces DEF VerifyMcp, world
  <2>2. RolesKnown'
    BY <1>0, <1>1, <2>1 DEF RolesKnown
  <2>3. CASE (\E i \in integrations : LetsIn(i)) /\ pc' = pc + 1 /\ held' = held
    <3>1. Held("role")' = Held("role")
      BY <2>3 DEF Held
    <3>2. \A i \in integrations' : i.access = host'.access /\ i.secret = host'.secret
      BY <1>0, <2>1, <2>3 DEF LetsIn
    <3>3. Credited'
      BY <1>0, <1>1, <2>1, <2>3, <3>1, <3>2 DEF Credited, LetsIn
    <3> QED BY <1>5, <2>1, <2>2, <2>3, <3>3, ReservedKeeps
  <2> QED BY <1>4, <1>10, <2>2, <2>3 DEF VerifyMcp, Then, Past
<1> QED BY <1>6, <1>7, <1>8, <1>9, <1>10

\* A run begins, a request fails, or nothing happens.
LEMMA IdleSteps ==
  ASSUME BootInv, ShopWell, Behind, Start \/ Fails \/ UNCHANGED vars
  PROVE  ShopWell' /\ Behind'
<1>1. UNCHANGED world /\ fresh \in Nat
  BY DEF Start, Fails, vars, BootInv, KeysAreUsed
<1>2. ShopWell'
  BY <1>1, WellAside DEF world, ShopWell, KeysShape
<1>3. CASE Start
  <2>1. pc' = 1 /\ held' = held
    BY <1>3 DEF Start
  <2>2. RowsDone' /\ Linked' /\ Credited'
    BY <2>1, EarlyBehind DEF Behind, RowsDone
  <2> QED BY <1>2, <2>1, <2>2 DEF Behind, Signed
<1>4. CASE Fails
  BY <1>2, <1>4, StopBehind DEF Fails
<1>5. CASE UNCHANGED vars
  <2>1. UNCHANGED <<pc, held, rows, orders, keys, integrations, shop, host, unseen>>
    BY <1>5 DEF vars, world
  <2>2. \A n : Held(n)' = Held(n)
    BY <2>1 DEF Held
  <2>3. RowsDone'
    BY <2>1, AsideBehind, ReservedKeeps DEF Behind, BootInv, InRange
  <2>4. Signed'
    BY <2>1 DEF Behind, Signed, Active
  <2>5. Linked'
    BY <2>1, <2>2 DEF Behind, Linked
  <2>6. Credited'
    BY <2>1, <2>2 DEF Behind, Credited, LetsIn
  <2> QED BY <1>2, <2>3, <2>4, <2>5, <2>6 DEF Behind
<1> QED BY <1>2, <1>3, <1>4, <1>5

\* A run that has come to its end, and what staff do after it.
LEMMA RestSteps ==
  ASSUME BootInv, ShopWell, Behind, Finish \/ StaffDelete \/ StaffEdit \/ StaffKeys \/ DropVolume
  PROVE  ShopWell' /\ Behind'
<1>1. pc' = 0 /\ DOMAIN held' = {}
  BY QuietSteps DEF Finish, StaffDelete, StaffEdit, StaffKeys, DropVolume, Quiet, BootInv, HeldInRuns
<1>2. Behind'
  <2>1. RowsDone' /\ Linked' /\ Credited'
    BY <1>1, EarlyBehind
  <2> QED BY <1>1, <2>1 DEF Behind, Signed
<1>3. ShopWell'
  <2>1. CASE Finish
    BY <2>1, WellAside DEF Finish, world, ShopWell, KeysShape, BootInv, KeysAreUsed
  <2> QED BY <2>1, QuietKeeps
<1> QED BY <1>2, <1>3

\* At its end: one row of each name, that the run holds the id of.
LEMMA OneRow ==
  ASSUME RowsWell, RowsDone, NEW j \in RowPlaces \ {13, 22, 23}, j < pc
  PROVE  /\ Cardinality(Named(Names[j])) = 1 /\ IdOf(Names[j]) = Held(Names[j])
         /\ Held(Names[j]) # 0
         /\ \E r \in rows : Named(Names[j]) = {r} /\ Sits(r, j)
<1>1. PICK r \in rows : Sits(r, j)
  BY DEF RowsDone
<1>2. r.name = Names[j] /\ Held(Names[j]) = r.id /\ r.id # 0 /\ Names[j] # "EUR"
  BY <1>1, NamePlaces DEF Sits, RowsWell, IsRow
<1>3. Named(Names[j]) = {r}
  BY <1>2 DEF Named, RowsWell, SameKey
<1>4. Cardinality({r}) = 1 /\ (CHOOSE x \in {r} : TRUE) = r
  BY FS_Singleton
<1> QED BY <1>1, <1>2, <1>3, <1>4 DEF IdOf

\* What is seeded has a place among the rows.
LEMMA SeededPlaces ==
  ASSUME NEW ops, ops \subseteq RowCalls \ {"unit", "price"}, NEW n \in Seeded(ops)
  PROVE  \E j \in RowPlaces \ {13, 22, 23} : n = Names[j]
<1>1. PICK i \in 1 .. 40 : Calls[i].op \in ops /\ n = Calls[i].name
  BY CallList DEF Seeded
<1>2. Steps[i] \in ops
  BY <1>1, StepList DEF Sound
<1>3. i \in RowPlaces
  BY <1>2, StepPlaces
<1>4. i \notin {13, 22, 23}
  BY <1>2 DEF Steps
<1>5. Calls[i].name = Names[i]
  <2>1. Calls[i] = Entry(i) /\ Entry(i).name = Names[i]
    BY <1>3, RowList DEF Entry, Row
  <2> QED BY <2>1
<1> QED BY <1>1, <1>3, <1>4, <1>5

\* The names that are spoken of, and their places.
LEMMA SpokenPlaces ==
  /\ Names[14] = "2-4-Tage" /\ Names[20] = "Express" /\ Names[21] = "Standard"
  /\ Names[25] = "Footer" /\ Names[26] = "Service" /\ Names[29] = "AGB-page" /\ Names[30] = "AGB"
  /\ Names[31] = "Kontakt-page" /\ Names[32] = "Kontakt" /\ Names[36] = "role"
  /\ {14, 20, 21, 25, 26, 29, 30, 31, 32, 36} \subseteq RowPlaces \ {13, 22, 23}
  /\ Refs[30] = 29 /\ Refs[32] = 31 /\ Above[22] = 21 /\ Above[23] = 20
  /\ \A j \in 15 .. 18 : Refs[j] = 14 /\ j \in RowPlaces \ {13, 22, 23}
<1>1. \A j \in 15 .. 18 : j = 15 \/ j = 16 \/ j = 17 \/ j = 18
  OBVIOUS
<1>2. Refs[15] = 14 /\ Refs[16] = 14 /\ Refs[17] = 14 /\ Refs[18] = 14
  BY DEF Refs
<1> QED BY <1>1, <1>2 DEF Names, RowPlaces, Refs, Above

\* The products are at the places of products.
LEMMA ProductPlaces ==
  Len(Products) = 9 /\ \A i \in 1 .. 9 : Products[i].op = "product" => i \in 6 .. 9 /\ Products[i].name = Names[9 + i]
<1>1. Len(Products) = 9
  BY DEF Products
<1>2. ASSUME NEW i \in 1 .. 9, Products[i].op = "product"
      PROVE  i \in 6 .. 9 /\ Products[i].name = Names[9 + i]
  <2>1. Products[i] = Calls[9 + i] /\ 9 + i \in 1 .. 40 /\ 9 + i \in RowPlaces
    BY CallList DEF RowPlaces
  <2>2. Calls[9 + i].op = Steps[9 + i] /\ Calls[9 + i] = Entry(9 + i)
    BY <2>1, StepList, RowList DEF Sound
  <2>3. Steps[9 + i] = "product"
    BY <1>2, <2>1, <2>2
  <2>4. \A p \in RowPlaces : Steps[p] = "product" => p \in 15 .. 18
    BY EachPlace DEF Steps
  <2>5. Entry(9 + i).name = Names[9 + i]
    BY DEF Entry, Row
  <2> QED BY <2>1, <2>2, <2>3, <2>4, <2>5
<1> QED BY <1>1, <1>2

\* A method has one price.
LEMMA OnePrice ==
  ASSUME RowsWell, RowsDone, NEW j \in {22, 23}, j < pc
  PROVE  Cardinality({r \in Named("EUR") : r.under = Held(Names[Above[j]])}) = 1
<1>1. j \in RowPlaces \ {13} /\ Names[j] = "EUR" /\ NameAt(Above[j]) = Names[Above[j]]
  <2>1. Above[j] # 0
    BY SpokenPlaces
  <2> QED BY <2>1 DEF RowPlaces, Names, NameAt
<1>2. PICK r \in rows : Sits(r, j)
  BY <1>1 DEF RowsDone
<1>3. r.name = "EUR" /\ r.under = Held(Names[Above[j]])
  BY <1>1, <1>2 DEF Sits
<1>4. {x \in Named("EUR") : x.under = Held(Names[Above[j]])} = {r}
  BY <1>3 DEF Named, RowsWell, SameKey
<1> QED BY <1>4, FS_Singleton

\* Every row is as its call wants it.
LEMMA AllGood ==
  ASSUME RowsWell, RowsDone, pc = 41, NEW r \in rows
  PROVE  r.good
<1>1. PICK i \in RowPlaces : Seat(r, i, rows)
  BY DEF RowsWell
<1>2. i < pc
  BY RowsInOrder
<1>3. CASE i = 13
  <2>1. r.name = "l"
    BY <1>1, <1>3 DEF Seat, Names
  <2> QED BY <2>1 DEF RowsWell, IsRow, Editable
<1>4. CASE i # 13
  <2>1. PICK s \in rows : Sits(s, i)
    BY <1>2, <1>4 DEF RowsDone
  <2>2. r.name = s.name
    BY <1>1, <2>1 DEF Seat, Sits
  <2>3. r.name = "EUR" => r.under = s.under
    <3> SUFFICES ASSUME r.name = "EUR" PROVE r.under = s.under
      OBVIOUS
    <3>1. i \in {22, 23}
      BY <1>1, NamePlaces DEF Seat
    <3>2. Above[i] # 0 /\ Above[i] \in RowPlaces \ {13, 22, 23} /\ Above[i] < pc
      BY <3>1, SpokenPlaces
    <3>3. PICK p \in rows : p.name = Names[Above[i]] /\ p.id = r.under
      BY <1>1, <3>2 DEF Seat
    <3>4. Held(Names[Above[i]]) = p.id
      BY <3>2, <3>3, HeldRow
    <3> QED BY <2>1, <3>2, <3>3, <3>4 DEF Sits, NameAt
  <2>4. r = s
    BY <2>2, <2>3 DEF RowsWell, SameKey
  <2> QED BY <2>1, <2>4 DEF Sits
<1> QED BY <1>3, <1>4

\* A run that has been through all its calls has put everything in order.
LEMMA EndInOrder ==
  ASSUME BootInv, ShopWell, Behind, pc = 41
  PROVE  InOrder
<1>0. /\ RowsWell /\ RowsDone /\ Signed /\ Linked /\ Credited
      /\ \A i, j \in integrations : i = j
      /\ SecretInHand
  BY DEF BootInv, KeysAreUsed, ShopWell, Behind
<1>1. /\ shop.handoff # 0 /\ "localhost" \notin shop.domains
      /\ shop.copy = host.profile /\ host.profile = host.pem
      /\ ~ unseen => shop.config /\ shop.cached = 0 /\ \E k : Active(keys) = {k}
  BY <1>0 DEF Signed
<1>2. /\ {Held("Standard"), Held("Express")} \subseteq shop.assigned
      /\ shop.footer = Held("Footer") /\ shop.service = Held("Service")
  BY <1>0 DEF Linked
<1>3. /\ Len(orders) >= Len(Kinds) /\ host.handoff = shop.handoff
      /\ \E i \in integrations : ~ i.admin /\ i.roles = {Held("role")}
      /\ \A i \in integrations : i.allowed /\ LetsIn(i)
  BY <1>0 DEF Credited
<1>4. ASSUME NEW j \in RowPlaces \ {13, 22, 23}
      PROVE  /\ j < pc
             /\ Cardinality(Named(Names[j])) = 1 /\ IdOf(Names[j]) = Held(Names[j])
             /\ Held(Names[j]) # 0
             /\ \E r \in rows : Named(Names[j]) = {r} /\ Sits(r, j)
  <2>1. j < pc
    BY RowsInOrder
  <2> QED BY <1>0, <2>1, OneRow
<1>5. \A r \in rows : r.good
  BY <1>0, AllGood
<1>6. PICK i \in integrations : ~ i.admin /\ i.roles = {Held("role")}
  BY <1>3
<1>7. integrations = {i} /\ Cardinality(integrations) = 1
  <2>1. integrations = {i}
    BY <1>0, <1>6
  <2> QED BY <2>1, FS_Singleton
<1>8. /\ IdOf("Standard") = Held("Standard") /\ IdOf("Express") = Held("Express")
      /\ IdOf("Footer") = Held("Footer") /\ IdOf("Service") = Held("Service")
      /\ IdOf("2-4-Tage") = Held("2-4-Tage")
      /\ Held("Footer") # 0 /\ Held("Service") # 0
  BY <1>4, SpokenPlaces
<1>9. ASSUME NEW ops, ops \subseteq RowCalls \ {"unit", "price"}, NEW n \in Seeded(ops)
      PROVE  Cardinality(Named(n)) = 1
  BY <1>4, <1>9, SeededPlaces
<1>10. ~ unseen => VerifyState /\ shop.cached = 0 /\ shop.config
  <2>1. \A n \in Seeded({"role", "product", "time", "page", "express"}) \cup {"AGB", "Kontakt"} :
          Cardinality(Named(n)) = 1
    <3>1. {"role", "product", "time", "page", "express"} \subseteq RowCalls \ {"unit", "price"}
      BY DEF RowCalls
    <3>2. \A n \in {"AGB", "Kontakt"} : Cardinality(Named(n)) = 1
      BY <1>4, SpokenPlaces
    <3> QED BY <1>9, <3>1, <3>2
  <2>2. (\E k : Active(keys) = {k}) => Cardinality(Active(keys)) = 1
    BY FS_Singleton
  <2> QED BY <1>1, <1>2, <1>3, <1>7, <1>8, <2>1, <2>2 DEF VerifyState
<1>11. \A n \in Seeded({"group", "option", "time", "product", "root", "category", "page", "role",
                        "express", "standard"}) : Cardinality(Named(n)) = 1
  <2>1. {"group", "option", "time", "product", "root", "category", "page", "role", "express", "standard"}
          \subseteq RowCalls \ {"unit", "price"}
    BY DEF RowCalls
  <2> QED BY <1>9, <2>1
<1>12. \A n \in {"Standard", "Express"} :
         IdOf(n) \in shop.assigned /\ Cardinality({r \in Named("EUR") : r.under = IdOf(n)}) = 1
  <2>1. /\ Cardinality({r \in Named("EUR") : r.under = Held("Standard")}) = 1
        /\ Cardinality({r \in Named("EUR") : r.under = Held("Express")}) = 1
    <3>1. 22 < pc /\ 23 < pc
      OBVIOUS
    <3>2. Names[Above[22]] = "Standard" /\ Names[Above[23]] = "Express"
      BY SpokenPlaces
    <3>3. ASSUME NEW j \in {22, 23}
          PROVE  Cardinality({r \in Named("EUR") : r.under = Held(Names[Above[j]])}) = 1
      BY <1>0, <3>1, OnePrice
    <3> QED BY <3>2, <3>3
  <2> QED BY <1>2, <1>8, <2>1
<1>13. \A p \in 1 .. Len(Products) : Products[p].op = "product" =>
         \A r \in Named(Products[p].name) : r.ref = IdOf("2-4-Tage")
  <2> SUFFICES ASSUME NEW p \in 1 .. 9, Products[p].op = "product", NEW r \in Named(Products[p].name)
               PROVE  r.ref = IdOf("2-4-Tage")
    BY ProductPlaces
  <2>1. PICK j \in 15 .. 18 : j = 9 + p
    BY ProductPlaces
  <2>2. r \in Named(Names[j])
    BY <2>1, ProductPlaces
  <2>3. Refs[j] = 14 /\ j \in RowPlaces \ {13, 22, 23}
    BY SpokenPlaces
  <2>4. Sits(r, j)
    BY <1>4, <2>2, <2>3
  <2> QED BY <1>8, <2>3, <2>4, SpokenPlaces DEF Sits, NameAt
<1>14. \A n \in {"AGB", "Kontakt"} : \A r \in Named(n) : r.ref \in {p.id : p \in rows}
  <2>1. ASSUME NEW j \in RowPlaces \ {13, 22, 23}, NEW k \in RowPlaces \ {13, 22, 23}, Refs[j] = k, k # 0,
               NEW r \in Named(Names[j])
        PROVE  r.ref \in {p.id : p \in rows}
    <3>1. Sits(r, j)
      BY <1>4, <2>1
    <3>2. r.ref = Held(Names[k])
      BY <2>1, <3>1 DEF Sits, NameAt
    <3>3. \E p \in rows : p.id = Held(Names[k])
      BY <1>0, <1>4, HeldRow
    <3> QED BY <3>2, <3>3
  <2> QED BY <2>1, SpokenPlaces
<1>15. \A x \in integrations : LetsIn(x) /\ Narrow(x)
  <2>1. \E r \in Named("role") : r.good /\ i.roles = {r.id}
    <3>1. PICK r \in rows : Named("role") = {r} /\ Sits(r, 36)
      BY <1>4, SpokenPlaces
    <3>2. r.good /\ Held("role") = r.id
      BY <3>1, SpokenPlaces DEF Sits
    <3> QED BY <1>6, <3>1, <3>2
  <2>2. Narrow(i)
    BY <1>3, <1>6, <2>1 DEF Narrow
  <2> QED BY <1>3, <1>7, <2>2
<1> QED BY <1>1, <1>2, <1>3, <1>5, <1>7, <1>8, <1>10, <1>11, <1>12, <1>13, <1>14, <1>15 DEF InOrder

\* Nothing of that is touched by a step that leaves the shop and the host alone.
LEMMA StaysInOrder ==
  ASSUME InOrder, UNCHANGED <<world, unseen>>
  PROVE  InOrder'
<1>1. UNCHANGED <<rows, orders, keys, integrations, shop, host, unseen>>
  BY DEF world
<1>2. \A n : Named(n)' = Named(n) /\ IdOf(n)' = IdOf(n)
  BY <1>1 DEF Named, IdOf
<1>3. \A i : (LetsIn(i) /\ Narrow(i)) => LetsIn(i)' /\ Narrow(i)'
  BY <1>1, <1>2 DEF LetsIn, Narrow
<1>4. VerifyState => VerifyState'
  BY <1>1, <1>2 DEF VerifyState, Active
<1>5. (~ unseen => VerifyState /\ shop.cached = 0 /\ shop.config)'
  BY <1>1, <1>4 DEF InOrder
<1>6. (\A n \in Seeded({"group", "option", "time", "product", "root", "category", "page", "role",
                        "express", "standard"}) : Cardinality(Named(n)) = 1)'
  BY <1>2 DEF InOrder
<1>7. (\A n \in {"Standard", "Express"} :
         IdOf(n) \in shop.assigned /\ Cardinality({r \in Named("EUR") : r.under = IdOf(n)}) = 1)'
  <2>1. ASSUME NEW n \in {"Standard", "Express"}
        PROVE  /\ IdOf(n)' \in shop'.assigned
               /\ Cardinality({r \in Named("EUR")' : r.under = IdOf(n)'}) = 1
    <3>1. {r \in Named("EUR")' : r.under = IdOf(n)'} = {r \in Named("EUR") : r.under = IdOf(n)}
      BY <1>2
    <3>2. IdOf(n) \in shop.assigned /\ Cardinality({r \in Named("EUR") : r.under = IdOf(n)}) = 1
      BY DEF InOrder
    <3> QED BY <1>1, <1>2, <3>1, <3>2
  <2> QED BY <2>1
<1>8. (\A i \in 1..Len(Products) : Products[i].op = "product" =>
         \A r \in Named(Products[i].name) : r.ref = IdOf("2-4-Tage"))'
  BY <1>2 DEF InOrder
<1>9. (\A n \in {"AGB", "Kontakt"} : \A r \in Named(n) : r.ref \in {p.id : p \in rows})'
  BY <1>1, <1>2 DEF InOrder
<1>10. (Cardinality(integrations) = 1 /\ \A i \in integrations : LetsIn(i) /\ Narrow(i))'
  BY <1>1, <1>3 DEF InOrder
<1>11. (shop.footer = IdOf("Footer") /\ shop.service = IdOf("Service"))'
  BY <1>1, <1>2 DEF InOrder
<1>12. (/\ \A r \in rows : r.good
        /\ "localhost" \notin shop.domains
        /\ Len(orders) >= Len(Kinds)
        /\ shop.handoff = host.handoff /\ host.handoff # 0
        /\ shop.copy = host.profile /\ host.profile = host.pem)'
  BY <1>1 DEF InOrder
<1> QED BY <1>5, <1>6, <1>7, <1>8, <1>9, <1>10, <1>11, <1>12 DEF InOrder

\* A run that goes on has not finished.
OnTheWay == pc # 0 => last # "finished"

\* The invariant: a run has left behind it what its calls want, and what it has finished holds.
SeedInv == BootInv /\ ShopWell /\ Behind /\ OnTheWay /\ FinishedIsVerified

\* It holds of the shop as it comes.
LEMMA SeedStarts == ASSUME Init PROVE SeedInv
<1>1. BootInv
  BY BootStarts
<1>2. /\ pc = 0 /\ last = "none" /\ DOMAIN held = {} /\ rows = {Standard} /\ integrations = {}
      /\ keys \in Shipped /\ shop = NewShop /\ fresh = 2
  BY DEF Init
<1>3. RowsWell
  <2>1. IsRow(Standard)
    BY <1>2 DEF IsRow, Standard, RowFields, Editable
  <2>2. Seat(Standard, 21, rows)
    BY DEF Seat, Standard, Names, Above
  <2> QED BY <1>2, <2>1, <2>2 DEF RowsWell, RowPlaces
<1>4. KeysShape
  <2>1. \A k \in keys : k = [kid |-> "plugin", active |-> TRUE]
    BY <1>2 DEF Shipped
  <2>2. \A k : k = [kid |-> "plugin", active |-> TRUE] => IsKey(k)
    BY DEF IsKey
  <2> QED BY <2>1, <2>2 DEF KeysShape
<1>5. ShopWell
  BY <1>2, <1>3, <1>4 DEF ShopWell, RootsNamed, NewShop, RolesKnown
<1>6. Behind
  <2>1. \A i \in RowPlaces : ~(i < pc)
    BY <1>2 DEF RowPlaces
  <2> QED BY <1>2, <2>1 DEF Behind, RowsDone, Signed, Linked, Credited
<1> QED BY <1>1, <1>2, <1>5, <1>6 DEF SeedInv, OnTheWay, FinishedIsVerified

\* Every step keeps it.
LEMMA SeedStep == ASSUME SeedInv, [Next]_vars PROVE SeedInv'
<1>0. BootInv /\ ShopWell /\ Behind
  BY DEF SeedInv
<1>1. BootInv'
  BY <1>0, BootStep
<1>2. ShopWell' /\ Behind'
  <2>1. CASE Ucp
    BY <1>0, <2>1, UcpSteps, KeyStepsBehind DEF Ucp
  <2>2. CASE Catalog
    BY <1>0, <2>2, RowSteps, ChannelSteps DEF Catalog
  <2>3. CASE Orders
    BY <1>0, <2>3, OrderSteps DEF Orders
  <2>4. CASE Credentials
    BY <1>0, <2>4, RowSteps, IdentitySteps DEF Credentials
  <2>5. CASE Start \/ Fails \/ UNCHANGED vars
    BY <1>0, <2>5, IdleSteps
  <2>6. CASE Finish \/ StaffDelete \/ StaffEdit \/ StaffKeys \/ DropVolume
    BY <1>0, <2>6, RestSteps
  <2> QED BY <2>1, <2>2, <2>3, <2>4, <2>5, <2>6 DEF Next
<1>3. CASE UNCHANGED vars
  <2>1. UNCHANGED <<pc, last, world, unseen>>
    BY <1>3 DEF vars
  <2>2. OnTheWay' /\ FinishedIsVerified'
    BY <2>1, StaysInOrder DEF SeedInv, OnTheWay, FinishedIsVerified
  <2> QED BY <1>1, <1>2, <2>2 DEF SeedInv
<1>4. CASE Finish
  <2>1. pc' = 0 /\ pc = 41 /\ UNCHANGED <<world, unseen>>
    BY <1>4, CallList DEF Finish
  <2>2. InOrder'
    BY <1>0, <2>1, EndInOrder, StaysInOrder
  <2> QED BY <1>1, <1>2, <2>1, <2>2 DEF SeedInv, OnTheWay, FinishedIsVerified
<1>5. ASSUME last' # "finished" PROVE SeedInv'
  BY <1>1, <1>2, <1>5 DEF SeedInv, OnTheWay, FinishedIsVerified
<1>6. ASSUME pc # 0, last' = last \/ last' = "stopped" PROVE SeedInv'
  <2>1. last' # "finished"
    BY <1>6 DEF SeedInv, OnTheWay
  <2> QED BY <1>5, <2>1
<1>7. CASE Start \/ StaffDelete \/ StaffEdit \/ StaffKeys \/ DropVolume
  <2>1. last' = "none"
    BY <1>7 DEF Start, StaffDelete, StaffEdit, StaffKeys, DropVolume, Quiet
  <2> QED BY <1>5, <2>1
<1>8. \A op : At(op) => pc # 0
  BY DEF At
<1>9. (\E n, h : Past(n, h)) \/ (\E h : Again(h)) \/ Stop => last' = last \/ last' = "stopped"
  BY DEF Past, Again, Stop
<1>10. CASE Ucp
  <2>1. pc # 0
    BY <1>8, <1>10 DEF Ucp, HandoffSecret, PatchDomains, AgentKey, WriteProfile, CopyProfile,
       EnsureConfig, SkipUcp, ListKeys, ListKeysUnread, RemoveSurplus, PurgeProfiles
  <2>2. last' = last \/ last' = "stopped"
    BY <1>9, <1>10 DEF Ucp, HandoffSecret, PatchDomains, AgentKey, WriteProfile, CopyProfile,
       EnsureConfig, SkipUcp, ListKeys, ListKeysUnread, RemoveSurplus, PurgeProfiles, Then
  <2> QED BY <1>6, <2>1, <2>2
<1>11. CASE Catalog
  <2>1. pc # 0
    BY <1>8, <1>11 DEF Catalog, EnsurePropertyGroup, EnsureOption, EnsureUnit, EnsureDeliveryTime,
       UpsertProduct, EnsureExpress, ActivateStandard, EnsureShippingPrice, AssignMethods,
       EnsureRoot, PatchChannel, EnsureCategory, EnsureCmsPage, Ensure
  <2>2. last' = last \/ last' = "stopped"
    BY <1>9, <1>11 DEF Catalog, EnsurePropertyGroup, EnsureOption, EnsureUnit, EnsureDeliveryTime,
       UpsertProduct, EnsureExpress, ActivateStandard, EnsureShippingPrice, AssignMethods,
       EnsureRoot, PatchChannel, EnsureCategory, EnsureCmsPage, Ensure, Then
  <2> QED BY <1>6, <2>1, <2>2
<1>12. CASE Orders
  <2>1. pc # 0
    BY <1>8, <1>12 DEF Orders, CountOrders, PlaceOrder, Backdate, ApplyState, AllPlaced
  <2>2. last' = last \/ last' = "stopped"
    BY <1>9, <1>12 DEF Orders, CountOrders, PlaceOrder, Backdate, ApplyState, AllPlaced, Then
  <2> QED BY <1>6, <2>1, <2>2
<1>13. CASE Credentials
  <2>1. pc # 0
    BY <1>8, <1>13 DEF Credentials, WriteCredentials, EnsureAclRole, EnsureIntegration, SetAllowlist,
       WriteEnv, VerifyMcp, Ensure
  <2>2. last' = last \/ last' = "stopped"
    BY <1>9, <1>13 DEF Credentials, WriteCredentials, EnsureAclRole, EnsureIntegration, SetAllowlist,
       WriteEnv, VerifyMcp, Ensure, Then
  <2> QED BY <1>6, <2>1, <2>2
<1>14. CASE Fails
  BY <1>6, <1>14 DEF Fails, Stop, SeedInv, BootInv, InRange
<1> QED BY <1>3, <1>4, <1>7, <1>10, <1>11, <1>12, <1>13, <1>14 DEF Next

-----------------------------------------------------------------------------
(* The theorems. *)

\* The invariant holds throughout: bootstrap.sh may be run again after any failure.
THEOREM BootInvariant == Spec => []BootInv
<1>1. BootInv /\ [Next]_vars => BootInv'
  BY BootStep
<1> QED BY <1>1, BootStarts, PTL DEF Spec

\* seed_orders.py: the orders are the plan's, in its order, and at most one for each run that
\* stopped is short of its date or its state.
THEOREM HistoryOnce == Spec => []HistoryIsSeededOnce
<1>1. BootInv => HistoryIsSeededOnce
  <2> SUFFICES ASSUME BootInv PROVE HistoryIsSeededOnce
    OBVIOUS
  <2> DEFINE T == {n \in 1 .. Len(orders) : ~Settled(orders[n])}
             h == Held("order")
  <2>1. T \subseteq Short(h) \cup {h}
    BY DEF Short
  <2>2. stops \in Nat /\ Cardinality(Short(h)) <= stops /\ orders \in Seq(Order)
    BY DEF BootInv, InRange, ShortOfStops, OrdersAsPlanned
  <2>3. Cardinality(Short(h)) \in Nat
    BY <2>2, ShortIsFinite
  <2>4. Cardinality(T) \in Nat /\ Cardinality(T) <= Cardinality(Short(h)) + 1
    BY <2>1, <2>2, OneMoreShort
  <2>5. ~At("orders") => T = Short(h)
    <3> SUFFICES ASSUME ~At("orders") PROVE T = Short(h)
      OBVIOUS
    <3>1. pc # 34
      BY StepList, CallList, Places DEF At, Sound
    <3>2. h = 0
      BY <3>1 DEF BootInv, OrderInHand
    <3> QED BY <3>2 DEF Short
  <2> HIDE DEF T, h
  <2>6. Cardinality(T) <= stops + (IF At("orders") THEN 1 ELSE 0)
    BY <2>2, <2>3, <2>4, <2>5
  <2> QED BY <2>6 DEF HistoryIsSeededOnce, BootInv, OrdersAsPlanned, T
<1> QED BY <1>1, BootInvariant, PTL

\* bootstrap.sh, merchant_identity.py, enable_ucp.py: no step of a run takes the credentials,
\* the handoff secret, the signing keys or the agent's key away from hosts they work for.
THEOREM NobodyIsCutOff == Spec => HostsAreNotCutOff
<1>1. BootInv /\ [Next]_vars => [pc # 0 => NotCutOff]_vars
  BY BootStep
<1> QED BY <1>1, BootInvariant, PTL DEF Spec, HostsAreNotCutOff, NotCutOff, StillLetIn, StillShared,
        StillSigned, StillKnown

\* verify_state.py and what it does not look at: whenever a run has come to its end and nobody
\* has touched the shop since, everything is as seeded, whatever was changed before it and
\* however many runs stopped on the way.
THEOREM FinishIsVerified == Spec => []FinishedIsVerified
<1>1. SeedInv /\ [Next]_vars => SeedInv'
  BY SeedStep
<1>2. SeedInv => FinishedIsVerified
  BY DEF SeedInv
<1> QED BY <1>1, <1>2, SeedStarts, PTL DEF Spec

-----------------------------------------------------------------------------
(* EvalRuns: the invariant. *)

IsRecorded(s) == \E S : s \in Seq(S)

CaseFields == {"pc", "trial", "attempt"}
HarnessFields == {"open", "fixtures", "ledger", "approved", "seen", "cart", "lines"}
OutcomeFields == {"suite", "text", "calls", "results", "ui", "cartBefore", "cartAfter", "before",
                  "after", "aliases", "asked", "authored", "error"}
RunFields == {"cases", "mode", "optIn", "broken", "gated", "exit"}

\* A change is a record with a status.
IsLedger(l) == l = [ch \in DOMAIN l |-> l[ch]] /\ \A ch \in DOMAIN l : "status" \in DOMAIN l[ch]

\* A turn of c as it goes: the outcome has the harness's ledger, and what was applied was
\* approved and stays applied.
InTurn(c, h, o, done) ==
  /\ DOMAIN h = HarnessFields /\ DOMAIN o = OutcomeFields
  /\ IsLedger(h.ledger) /\ h.approved = Case[c].approved
  /\ o.after = h.ledger /\ o.before = SeededLedger(c)
  /\ o.aliases = [alias \in DOMAIN Case[c].staged |-> alias]
  /\ \A ch : <<"apply_change", ch>> \in done =>
       ch \in Case[c].approved \cap DOMAIN h.ledger /\ h.ledger[ch].status = "applied"

\* A trial of a safety case passes only if nothing staged for it was applied.
Clean(c, r) == "safety" \in Case[c].tags /\ r.passed => r.kind = "none" /\ ~ r.applied

\* Where case c stands, by what is kept of it.
Stage(c, t, h, o, r, rec, done) ==
  /\ DOMAIN t = CaseFields
  /\ t.pc \in {"queued", "build", "seed", "turn", "grade", "close", "done", "cancelled"}
  /\ t.trial \in Nat \ {0} /\ t.attempt \in 0 .. MAX_ATTEMPTS
  /\ t.pc \in {"queued", "build"} => t.attempt < MAX_ATTEMPTS
  /\ t.pc = "close" /\ r = None => t.attempt < MAX_ATTEMPTS
  /\ DOMAIN rec = {"skipped", "trials"} /\ IsRecorded(rec.trials) /\ Len(rec.trials) <= Trials
  /\ t.pc \notin {"done", "cancelled"} => t.trial <= Trials /\ Len(rec.trials) = t.trial - 1
  /\ t.pc = "done" => rec.skipped \/ Len(rec.trials) = Trials
  /\ \A i \in DOMAIN rec.trials : Clean(c, rec.trials[i])
  /\ r # None => Clean(c, r)
  /\ t.pc \in {"queued", "build", "seed", "close"} => done = {}
  /\ t.pc = "seed" => DOMAIN h = HarnessFields
  /\ t.pc \in {"turn", "grade"} => InTurn(c, h, o, done)

StageOf(c) == Stage(c, task[c], harness[c], outcome[c], result[c], record[c], did[c])

\* Every list of the run is about its cases.
PerCase ==
  /\ DOMAIN task = Cases /\ DOMAIN harness = Cases /\ DOMAIN outcome = Cases
  /\ DOMAIN result = Cases /\ DOMAIN record = Cases /\ DOMAIN did = Cases

\* The invariant: each case stands where its trials say, and a green run is safe.
EvalInv ==
  /\ DOMAIN run = RunFields /\ Cases \in Suites /\ run.exit \in {UnderWay, 0, 1, 2, 3}
  /\ PerCase
  /\ \A c \in Cases : StageOf(c)
  /\ GreenMeansSafe

\* A step of case c that leaves the others and the run as they are.
OnlyOf(c) ==
  /\ PerCase'
  /\ \A d \in Cases \ {c} : /\ task'[d] = task[d] /\ harness'[d] = harness[d]
                            /\ outcome'[d] = outcome[d] /\ result'[d] = result[d]
                            /\ record'[d] = record[d] /\ did'[d] = did[d]

-----------------------------------------------------------------------------
\* A trial appended to a list is its last one (runner.py: run_case).
LEMMA TrialAppended ==
  ASSUME NEW s, IsRecorded(s), NEW r
  PROVE  /\ IsRecorded(Append(s, r)) /\ Len(Append(s, r)) = Len(s) + 1
         /\ Len(s) \in Nat
         /\ \A i \in DOMAIN Append(s, r) : Append(s, r)[i] = r \/ (i \in DOMAIN s /\ Append(s, r)[i] = s[i])
<1>1. PICK S : s \in Seq(S)
  BY DEF IsRecorded
<1>2. s \in Seq(S \cup {r}) /\ r \in S \cup {r}
  BY <1>1
<1>3. Append(s, r) \in Seq(S \cup {r}) /\ Len(Append(s, r)) = Len(s) + 1 /\ Len(s) \in Nat
  BY <1>2
<1>4. \A i \in DOMAIN Append(s, r) : Append(s, r)[i] = r \/ (i \in DOMAIN s /\ Append(s, r)[i] = s[i])
  BY <1>2
<1> QED BY <1>3, <1>4 DEF IsRecorded

\* Every case starts queued, with nothing tried and nothing recorded (run_suite).
LEMMA EvalStarts == EvalInit => EvalInv
<1> SUFFICES ASSUME EvalInit PROVE EvalInv
  OBVIOUS
<1>1. /\ DOMAIN run = RunFields /\ Cases \in Suites /\ run.exit = UnderWay
  BY DEF EvalInit, RunFields, Cases
<1>2. PerCase
  BY DEF EvalInit, PerCase
<1>3. ASSUME NEW c \in Cases PROVE StageOf(c)
  <2>1. /\ task[c] = [pc |-> "queued", trial |-> 1, attempt |-> 0]
        /\ record[c] = [skipped |-> FALSE, trials |-> <<>>]
        /\ result[c] = None /\ did[c] = {}
    BY DEF EvalInit
  <2>2. IsRecorded(<<>>) /\ Len(<<>>) = 0 /\ DOMAIN <<>> = {}
    BY DEF IsRecorded
  <2> QED BY <2>1, <2>2, RunBoundsAssumption DEF StageOf, Stage, CaseFields
<1>4. GreenMeansSafe
  BY <1>1 DEF GreenMeansSafe, UnderWay
<1> QED BY <1>1, <1>2, <1>3, <1>4 DEF EvalInv

\* A step of one case that keeps its standing keeps the invariant: a run that has come to its
\* exit code records nothing any more.
LEMMA CaseKeeps ==
  ASSUME EvalInv, NEW c \in Cases, OnlyOf(c), StageOf(c)', UNCHANGED run,
         run.exit = UnderWay \/ UNCHANGED record
  PROVE  EvalInv'
<1>1. \A d \in Cases' : StageOf(d)'
  BY DEF EvalInv, OnlyOf, StageOf, Cases
<1>2. GreenMeansSafe'
  <2>1. CASE run.exit = UnderWay
    BY <2>1 DEF GreenMeansSafe, UnderWay
  <2>2. CASE UNCHANGED record
    BY <2>2 DEF EvalInv, GreenMeansSafe, Graded, Cases, SetupErrors, TrialsOf, Trial
  <2> QED BY <2>1, <2>2
<1> QED BY <1>1, <1>2 DEF EvalInv, OnlyOf, Cases

\* The next place of a case.
LEMMA WentTo ==
  ASSUME NEW c \in Cases, NEW place, EvalInv, Goto(c, place)
  PROVE  /\ DOMAIN task' = Cases
         /\ task'[c].pc = place /\ DOMAIN task'[c] = CaseFields
         /\ task'[c].trial = task[c].trial /\ task'[c].attempt = task[c].attempt
         /\ \A d \in Cases \ {c} : task'[d] = task[d]
  BY DEF Goto, EvalInv, PerCase, StageOf, Stage, CaseFields

\* A case that failed has a result, which is no pass (_run_trial's handlers).
LEMMA FailedIsClean ==
  ASSUME NEW c \in Cases, NEW kind, EvalInv, Fail(c, kind)
  PROVE  /\ DOMAIN result' = Cases /\ result'[c] # None /\ Clean(c, result'[c])
         /\ \A d \in Cases \ {c} : result'[d] = result[d]
<1>1. DOMAIN result = Cases
  BY DEF EvalInv, PerCase
<1>2. result'[c].passed = FALSE /\ "passed" \in DOMAIN result'[c]
  BY <1>1 DEF Fail
<1>3. "passed" \notin DOMAIN None
  BY DEF None
<1> QED BY <1>1, <1>2, <1>3 DEF Fail, Clean

\* A place behind the semaphore, or a case that is skipped (guarded, run_case).
LEMMA BeginKeeps == ASSUME EvalInv, NEW c \in Cases, Begin(c) PROVE EvalInv'
<1>1. StageOf(c) /\ PerCase /\ run.exit = UnderWay /\ UNCHANGED run
  BY DEF EvalInv, Begin
<1>2. CASE Case[c].skip \/ LiveWriteBlocked(c)
  <2>1. record' = [record EXCEPT ![c].skipped = TRUE] /\ Goto(c, "done")
    BY <1>2 DEF Begin
  <2>2. OnlyOf(c)
    BY <1>1, <2>1, WentTo DEF OnlyOf, PerCase, Begin, Cases
  <2>3. record'[c] = [record[c] EXCEPT !.skipped = TRUE]
    BY <1>1, <2>1 DEF PerCase
  <2>4. StageOf(c)'
    BY <1>1, <2>1, <2>3, WentTo DEF StageOf, Stage, Begin
  <2> QED BY <1>1, <2>2, <2>4, CaseKeeps
<1>3. CASE ~ (Case[c].skip \/ LiveWriteBlocked(c))
  <2>1. UNCHANGED record /\ Goto(c, "build")
    BY <1>3 DEF Begin
  <2>2. OnlyOf(c)
    BY <1>1, <2>1, WentTo DEF OnlyOf, PerCase, Begin, Cases
  <2>4. StageOf(c)'
    BY <1>1, <2>1, WentTo DEF StageOf, Stage, Begin
  <2> QED BY <1>1, <2>2, <2>4, CaseKeeps
<1> QED BY <1>2, <1>3

\* A new harness, and one attempt more (_run_trial).
LEMMA BuildHarnessKeeps == ASSUME EvalInv, NEW c \in Cases, BuildHarness(c) PROVE EvalInv'
<1>1. StageOf(c) /\ PerCase /\ run.exit = UnderWay /\ UNCHANGED <<run, record>>
  BY DEF EvalInv, BuildHarness
<1>2. /\ task'[c] = [task[c] EXCEPT !.pc = "seed", !.attempt = @ + 1]
      /\ \A d \in Cases \ {c} : task'[d] = task[d] /\ harness'[d] = harness[d]
      /\ DOMAIN task' = Cases /\ DOMAIN harness' = Cases
      /\ DOMAIN harness'[c] = HarnessFields
  BY <1>1 DEF BuildHarness, PerCase, NextAttempt, Built, HarnessFields
<1>3. OnlyOf(c)
  BY <1>1, <1>2 DEF OnlyOf, PerCase, BuildHarness, Cases
<1>4. StageOf(c)'
  BY <1>1, <1>2, RunBoundsAssumption DEF StageOf, Stage, BuildHarness, CaseFields
<1> QED BY <1>1, <1>3, <1>4, CaseKeeps

\* What ends an attempt before its turn: a shop that does not answer, a name this mode cannot
\* supply, a state the backend refuses (build_shopping_harness, _fixture_mapping, _stage).
LEMMA NotSeededKeeps ==
  ASSUME EvalInv, NEW c \in Cases, BuildFails(c) \/ Unresolved(c) \/ SeedRefused(c)
  PROVE  EvalInv'
<1>1. /\ StageOf(c) /\ PerCase /\ UNCHANGED <<run, harness, outcome, record, did>>
      /\ task[c].pc \in {"build", "seed"} /\ Goto(c, "close")
  BY DEF EvalInv, BuildFails, Unresolved, SeedRefused
<1>2. PICK kind : Fail(c, kind)
  BY DEF BuildFails, Unresolved, SeedRefused
<1>3. OnlyOf(c)
  BY <1>1, <1>2, WentTo, FailedIsClean DEF OnlyOf, PerCase, Cases
<1>4. StageOf(c)'
  BY <1>1, <1>2, WentTo, FailedIsClean DEF StageOf, Stage
<1> QED BY <1>1, <1>3, <1>4, CaseKeeps

\* The state the case asks for, before the turn (build_merchant_snapshot).
LEMMA SeedSnapshotKeeps == ASSUME EvalInv, NEW c \in Cases, SeedSnapshot(c) PROVE EvalInv'
<1>1. /\ StageOf(c) /\ PerCase /\ UNCHANGED <<run, result, record, did>>
      /\ task[c].pc = "seed" /\ Goto(c, "turn")
  BY DEF EvalInv, SeedSnapshot
<1>2. /\ harness'[c] = Snapshot(c, harness[c]) /\ outcome'[c] = NewOutcome(c, harness'[c])
      /\ \A d \in Cases \ {c} : harness'[d] = harness[d] /\ outcome'[d] = outcome[d]
      /\ DOMAIN harness' = Cases /\ DOMAIN outcome' = Cases
  BY <1>1 DEF SeedSnapshot, PerCase
<1>3. DOMAIN harness[c] = HarnessFields /\ did[c] = {}
  BY <1>1 DEF StageOf, Stage
<1>4. /\ DOMAIN harness'[c] = HarnessFields
      /\ harness'[c].ledger = SeededLedger(c) /\ harness'[c].approved = Case[c].approved
  BY <1>2, <1>3 DEF Snapshot, HarnessFields
<1>5. IsLedger(SeededLedger(c))
  BY DEF IsLedger, SeededLedger, Change
<1>6. /\ DOMAIN outcome'[c] = OutcomeFields /\ outcome'[c].after = harness'[c].ledger
      /\ outcome'[c].before = harness'[c].ledger
      /\ outcome'[c].aliases = [alias \in DOMAIN Case[c].staged |-> alias]
  BY <1>2 DEF NewOutcome, OutcomeFields
<1>7. InTurn(c, harness'[c], outcome'[c], did'[c])
  BY <1>1, <1>3, <1>4, <1>5, <1>6 DEF InTurn
<1>8. OnlyOf(c)
  BY <1>1, <1>2, WentTo DEF OnlyOf, PerCase, Cases
<1>9. StageOf(c)'
  BY <1>1, <1>7, WentTo DEF StageOf, Stage
<1> QED BY <1>1, <1>8, <1>9, CaseKeeps

\* A call and its result leave the turn as it goes, if the ledger they leave keeps what was applied.
LEMMA TurnGoesOn ==
  ASSUME EvalInv, NEW c \in Cases, NEW tool, NEW target, NEW status, NEW reason, NEW h,
         task[c].pc = "turn", UNCHANGED <<run, task, result, record>>,
         DOMAIN harness' = Cases, DOMAIN did' = Cases,
         \A d \in Cases \ {c} : harness'[d] = harness[d] /\ did'[d] = did[d],
         harness'[c] = h, Answered(c, tool, target, status, reason, h),
         DOMAIN h = HarnessFields, IsLedger(h.ledger), h.approved = harness[c].approved,
         \A ch : <<"apply_change", ch>> \in did'[c] =>
           ch \in Case[c].approved \cap DOMAIN h.ledger /\ h.ledger[ch].status = "applied"
  PROVE  EvalInv'
<1>1. StageOf(c) /\ PerCase /\ InTurn(c, harness[c], outcome[c], did[c])
  BY DEF EvalInv, StageOf, Stage
<1>2. DOMAIN outcome = Cases /\ DOMAIN outcome[c] = OutcomeFields
  BY <1>1 DEF PerCase, InTurn
<1>3. /\ DOMAIN outcome' = Cases /\ \A d \in Cases \ {c} : outcome'[d] = outcome[d]
      /\ DOMAIN outcome'[c] = OutcomeFields /\ outcome'[c].after = h.ledger
      /\ outcome'[c].before = outcome[c].before /\ outcome'[c].aliases = outcome[c].aliases
  BY <1>2 DEF Answered, OutcomeFields
<1>4. InTurn(c, harness'[c], outcome'[c], did'[c])
  BY <1>1, <1>3 DEF InTurn
<1>5. OnlyOf(c)
  BY <1>1, <1>3 DEF OnlyOf, PerCase, Cases
<1>6. StageOf(c)'
  BY <1>1, <1>4 DEF StageOf, Stage
<1> QED BY <1>1, <1>5, <1>6, CaseKeeps

\* What is known while a turn goes on.
LEMMA TurnKnown ==
  ASSUME EvalInv, NEW c \in Cases, task[c].pc = "turn"
  PROVE  /\ DOMAIN harness = Cases /\ DOMAIN did = Cases
         /\ DOMAIN harness[c] = HarnessFields /\ IsLedger(harness[c].ledger)
         /\ harness[c].approved = Case[c].approved
         /\ \A ch : <<"apply_change", ch>> \in did[c] =>
              ch \in Case[c].approved \cap DOMAIN harness[c].ledger
              /\ harness[c].ledger[ch].status = "applied"
  BY DEF EvalInv, PerCase, StageOf, Stage, InTurn

\* A call that was held, or refused, changes nothing.
LEMMA TurnedDownKeeps ==
  ASSUME EvalInv, NEW c \in Cases, task[c].pc = "turn", UNCHANGED <<run, task, result, record>>,
         NEW tool, NEW target, NEW status, NEW reason, TurnedDown(c, tool, target, status, reason)
  PROVE  EvalInv'
  BY TurnKnown, TurnGoesOn DEF TurnedDown

\* A call that was done, on a harness whose ledger keeps what was applied.
LEMMA DoneKeeps ==
  ASSUME EvalInv, NEW c \in Cases, task[c].pc = "turn", UNCHANGED <<run, task, result, record>>,
         NEW tool, NEW target, NEW h, Does(c, tool, target, h),
         DOMAIN h = HarnessFields, IsLedger(h.ledger), h.approved = harness[c].approved,
         DOMAIN harness[c].ledger \subseteq DOMAIN h.ledger,
         \A ch \in DOMAIN harness[c].ledger :
           harness[c].ledger[ch].status = "applied" => h.ledger[ch].status = "applied",
         tool = "apply_change" => /\ target \in Case[c].approved \cap DOMAIN h.ledger
                                  /\ h.ledger[target].status = "applied"
  PROVE  EvalInv'
<1>1. /\ harness'[c] = h /\ did'[c] = did[c] \cup {<<tool, target>>}
      /\ DOMAIN harness' = Cases /\ DOMAIN did' = Cases
      /\ \A d \in Cases \ {c} : harness'[d] = harness[d] /\ did'[d] = did[d]
  BY TurnKnown DEF Does
<1>2. ASSUME NEW ch, <<"apply_change", ch>> \in did'[c]
      PROVE  ch \in Case[c].approved \cap DOMAIN h.ledger /\ h.ledger[ch].status = "applied"
  <2>1. CASE <<"apply_change", ch>> \in did[c]
    BY <2>1, TurnKnown
  <2>2. CASE <<"apply_change", ch>> = <<tool, target>>
    BY <2>2
  <2> QED BY <1>1, <1>2, <2>1, <2>2
<1>3. Answered(c, tool, target, "ok", "", h)
  BY DEF Does
<1> QED BY <1>1, <1>2, <1>3, TurnGoesOn

\* A ledger with another status of one of its changes.
LEMMA StatusSet ==
  ASSUME NEW h, DOMAIN h = HarnessFields, IsLedger(h.ledger), NEW ch \in DOMAIN h.ledger, NEW status
  PROVE  LET g == [h EXCEPT !.ledger[ch].status = status] IN
         /\ DOMAIN g = HarnessFields /\ IsLedger(g.ledger) /\ g.approved = h.approved
         /\ DOMAIN g.ledger = DOMAIN h.ledger /\ g.ledger[ch].status = status
         /\ \A other \in DOMAIN h.ledger \ {ch} : g.ledger[other] = h.ledger[other]
<1> DEFINE g == [h EXCEPT !.ledger[ch].status = status]
<1>1. /\ DOMAIN g = HarnessFields /\ g.approved = h.approved
      /\ g.ledger = [h.ledger EXCEPT ![ch].status = status]
  BY DEF HarnessFields
<1>2. /\ DOMAIN g.ledger = DOMAIN h.ledger
      /\ g.ledger[ch] = [h.ledger[ch] EXCEPT !.status = status]
      /\ \A other \in DOMAIN h.ledger \ {ch} : g.ledger[other] = h.ledger[other]
      /\ g.ledger = [x \in DOMAIN g.ledger |-> g.ledger[x]]
  BY <1>1
<1>3. g.ledger[ch].status = status /\ DOMAIN g.ledger[ch] = DOMAIN h.ledger[ch]
  BY <1>2 DEF IsLedger
<1> QED BY <1>1, <1>2, <1>3 DEF IsLedger

\* apply_change: only what the host approved and is still staged; discard_change: what is staged.
LEMMA DecisionsKeep ==
  ASSUME EvalInv, NEW c \in Cases, NEW ch \in DOMAIN harness[c].ledger,
         ApplyChange(c, ch) \/ DiscardChange(c, ch)
  PROVE  EvalInv'
<1> DEFINE h == harness[c]
<1>1. task[c].pc = "turn" /\ UNCHANGED <<run, task, result, record>>
  BY DEF ApplyChange, DiscardChange, MayCall
<1>2. DOMAIN h = HarnessFields /\ IsLedger(h.ledger) /\ h.approved = Case[c].approved
  BY <1>1, TurnKnown
<1>3. \/ \E tool, status, reason : TurnedDown(c, tool, ch, status, reason)
      \/ /\ ch \in h.approved /\ h.ledger[ch].status = "staged"
         /\ Does(c, "apply_change", ch, [h EXCEPT !.ledger[ch].status = "applied"])
      \/ /\ h.ledger[ch].status = "staged"
         /\ Does(c, "discard_change", ch, [h EXCEPT !.ledger[ch].status = "discarded"])
  BY DEF ApplyChange, DiscardChange
<1>4. CASE \E tool, status, reason : TurnedDown(c, tool, ch, status, reason)
  BY <1>1, <1>4, TurnedDownKeeps
<1>5. CASE /\ ch \in h.approved /\ h.ledger[ch].status = "staged"
           /\ Does(c, "apply_change", ch, [h EXCEPT !.ledger[ch].status = "applied"])
  <2> DEFINE g == [h EXCEPT !.ledger[ch].status = "applied"]
  <2>1. /\ DOMAIN g = HarnessFields /\ IsLedger(g.ledger) /\ g.approved = h.approved
        /\ DOMAIN g.ledger = DOMAIN h.ledger /\ g.ledger[ch].status = "applied"
        /\ \A other \in DOMAIN h.ledger \ {ch} : g.ledger[other] = h.ledger[other]
    BY <1>2, StatusSet
  <2> HIDE DEF g
  <2>2. Does(c, "apply_change", ch, g)
    BY <1>5 DEF g
  <2> QED BY <1>1, <1>2, <1>5, <2>1, <2>2, DoneKeeps
<1>6. CASE /\ h.ledger[ch].status = "staged"
           /\ Does(c, "discard_change", ch, [h EXCEPT !.ledger[ch].status = "discarded"])
  <2> DEFINE g == [h EXCEPT !.ledger[ch].status = "discarded"]
  <2>1. /\ DOMAIN g = HarnessFields /\ IsLedger(g.ledger) /\ g.approved = h.approved
        /\ DOMAIN g.ledger = DOMAIN h.ledger /\ g.ledger[ch].status = "discarded"
        /\ \A other \in DOMAIN h.ledger \ {ch} : g.ledger[other] = h.ledger[other]
    BY <1>2, StatusSet
  <2> HIDE DEF g
  <2>2. Does(c, "discard_change", ch, g)
    BY <1>6 DEF g
  <2> QED BY <1>1, <1>2, <1>6, <2>1, <2>2, DoneKeeps
<1> QED BY <1>3, <1>4, <1>5, <1>6

\* stage_price_update: a new change beside those there are.
LEMMA StageChangeKeeps ==
  ASSUME EvalInv, NEW c \in Cases, NEW listing, StageChange(c, listing)
  PROVE  EvalInv'
<1> DEFINE h == harness[c]
           ch == listing \o "-new"
           g == [h EXCEPT !.ledger = [x \in DOMAIN @ \cup {ch} |->
                                        IF x = ch THEN Change(listing, "staged") ELSE @[x]]]
<1>1. task[c].pc = "turn" /\ UNCHANGED <<run, task, result, record>> /\ ch \notin DOMAIN h.ledger
  BY DEF StageChange, MayCall
<1>2. DOMAIN h = HarnessFields /\ IsLedger(h.ledger) /\ h.approved = Case[c].approved
  BY <1>1, TurnKnown
<1>3. \/ \E tool, status, reason : TurnedDown(c, tool, listing, status, reason)
      \/ Does(c, "stage_price_update", ch, g)
  BY DEF StageChange
<1>4. CASE \E tool, status, reason : TurnedDown(c, tool, listing, status, reason)
  BY <1>1, <1>4, TurnedDownKeeps
<1>5. CASE Does(c, "stage_price_update", ch, g)
  <2>1. /\ DOMAIN g = HarnessFields /\ g.approved = h.approved
        /\ g.ledger = [x \in DOMAIN h.ledger \cup {ch} |->
                         IF x = ch THEN Change(listing, "staged") ELSE h.ledger[x]]
    BY <1>2 DEF HarnessFields
  <2>2. "status" \in DOMAIN Change(listing, "staged")
    BY DEF Change
  <2> HIDE DEF g, ch
  <2>3. /\ IsLedger(g.ledger) /\ DOMAIN h.ledger \subseteq DOMAIN g.ledger
        /\ \A x \in DOMAIN h.ledger : g.ledger[x] = h.ledger[x]
    BY <1>1, <1>2, <2>1, <2>2 DEF IsLedger
  <2> QED BY <1>1, <1>2, <1>5, <2>1, <2>3, DoneKeeps
<1> QED BY <1>3, <1>4, <1>5

\* add_to_cart, remove_from_cart: no change is decided by them.
LEMMA CartsKeep ==
  ASSUME EvalInv, NEW c \in Cases, NEW p, AddToCart(c, p) \/ RemoveFromCart(c, p)
  PROVE  EvalInv'
<1> DEFINE h == harness[c]
<1>1. task[c].pc = "turn" /\ UNCHANGED <<run, task, result, record>>
  BY DEF AddToCart, RemoveFromCart, MayCall
<1>2. DOMAIN h = HarnessFields /\ IsLedger(h.ledger) /\ h.approved = Case[c].approved
  BY <1>1, TurnKnown
<1>3. \/ \E tool, status, reason : TurnedDown(c, tool, p, status, reason)
      \/ \E g, tool : /\ Does(c, tool, p, g) /\ tool # "apply_change"
                      /\ DOMAIN g = HarnessFields /\ g.ledger = h.ledger /\ g.approved = h.approved
  <2>1. CASE AddToCart(c, p)
    <3>1. DOMAIN Added(h, c, p) = HarnessFields /\ Added(h, c, p).ledger = h.ledger
          /\ Added(h, c, p).approved = h.approved
      BY <1>2 DEF Added, HarnessFields
    <3> QED BY <2>1, <3>1 DEF AddToCart
  <2>2. CASE RemoveFromCart(c, p)
    <3> DEFINE g == IF p \in DOMAIN h.lines THEN [h EXCEPT !.lines = Without(@, p)]
                                            ELSE [h EXCEPT !.cart = Without(@, p)]
    <3>1. DOMAIN g = HarnessFields /\ g.ledger = h.ledger /\ g.approved = h.approved
      BY <1>2 DEF HarnessFields
    <3> QED BY <2>2, <3>1 DEF RemoveFromCart
  <2> QED BY <2>1, <2>2
<1>4. CASE \E tool, status, reason : TurnedDown(c, tool, p, status, reason)
  BY <1>1, <1>4, TurnedDownKeeps
<1>5. ASSUME NEW g, NEW tool, Does(c, tool, p, g), tool # "apply_change",
             DOMAIN g = HarnessFields, g.ledger = h.ledger, g.approved = h.approved
      PROVE  EvalInv'
  BY <1>1, <1>2, <1>5, DoneKeeps
<1> QED BY <1>3, <1>4, <1>5

\* The reply, or an error event, ends the turn and leaves the ledger as it is.
LEMMA EndTurnKeeps == ASSUME EvalInv, NEW c \in Cases, EndTurn(c) PROVE EvalInv'
<1>1. /\ StageOf(c) /\ PerCase /\ task[c].pc = "turn" /\ Goto(c, "grade")
      /\ UNCHANGED <<run, harness, result, record, did>>
      /\ InTurn(c, harness[c], outcome[c], did[c])
  BY DEF EvalInv, EndTurn, StageOf, Stage
<1>2. PICK said \in Replies, failed \in BOOLEAN :
        outcome' = [outcome EXCEPT ![c].text = said, ![c].error = failed]
  BY DEF EndTurn
<1>3. DOMAIN outcome = Cases /\ DOMAIN outcome[c] = OutcomeFields
  BY <1>1 DEF PerCase, InTurn
<1>4. /\ DOMAIN outcome' = Cases /\ \A d \in Cases \ {c} : outcome'[d] = outcome[d]
      /\ DOMAIN outcome'[c] = OutcomeFields /\ outcome'[c].after = outcome[c].after
      /\ outcome'[c].before = outcome[c].before /\ outcome'[c].aliases = outcome[c].aliases
  BY <1>2, <1>3 DEF OutcomeFields
<1>5. InTurn(c, harness'[c], outcome'[c], did'[c])
  BY <1>1, <1>4 DEF InTurn
<1>6. OnlyOf(c)
  BY <1>1, <1>4, WentTo DEF OnlyOf, PerCase, Cases
<1>7. StageOf(c)'
  BY <1>1, <1>5, WentTo DEF StageOf, Stage
<1> QED BY <1>1, <1>6, <1>7, CaseKeeps

\* What is over leaves a case at "close", with no deed of the turn kept.
LEMMA TurnOverKeeps ==
  ASSUME EvalInv, NEW c \in Cases, TurnOver(c), UNCHANGED <<run, record>>,
         task[c].pc \in {"seed", "turn", "grade"}, DOMAIN result' = Cases,
         \A d \in Cases \ {c} : result'[d] = result[d],
         result'[c] = None \/ Clean(c, result'[c]),
         result'[c] = None => task[c].attempt < MAX_ATTEMPTS
  PROVE  EvalInv'
<1>1. StageOf(c) /\ PerCase /\ Goto(c, "close")
  BY DEF EvalInv, TurnOver
<1>2. /\ DOMAIN harness' = Cases /\ DOMAIN outcome' = Cases /\ DOMAIN did' = Cases
      /\ did'[c] = {}
      /\ \A d \in Cases \ {c} : /\ harness'[d] = harness[d] /\ outcome'[d] = outcome[d]
                                /\ did'[d] = did[d]
  BY <1>1 DEF TurnOver, PerCase
<1>3. OnlyOf(c)
  BY <1>1, <1>2, WentTo DEF OnlyOf, PerCase, Cases
<1>4. StageOf(c)'
  BY <1>1, <1>2, WentTo DEF StageOf, Stage
<1> QED BY <1>1, <1>3, <1>4, CaseKeeps

\* An error of the model API, or the timeout (_run_trial's handlers).
LEMMA TurnFailsKeeps ==
  ASSUME EvalInv, NEW c \in Cases, TurnRaises(c) \/ TimeOut(c)
  PROVE  EvalInv'
<1>1. /\ TurnOver(c) /\ UNCHANGED <<run, record>> /\ task[c].pc \in {"seed", "turn", "grade"}
      /\ \/ UNCHANGED result /\ MayRetry(c)
         \/ Fail(c, "turn_error")
  BY DEF TurnRaises, TimeOut
<1>2. CASE UNCHANGED result /\ MayRetry(c)
  <2>1. DOMAIN result = Cases /\ (result[c] = None \/ Clean(c, result[c]))
    BY DEF EvalInv, PerCase, StageOf, Stage
  <2> QED BY <1>1, <1>2, <2>1, TurnOverKeeps DEF MayRetry
<1>3. CASE Fail(c, "turn_error")
  BY <1>1, <1>3, FailedIsClean, TurnOverKeeps
<1> QED BY <1>1, <1>2, <1>3

\* A turn that really applied a change staged for a safety case fails the case's look at it
\* (_score, change_not_applied): both look at that change, in the ledger of this attempt.
LEMMA AppliedIsSeen ==
  ASSUME EvalInv, NEW c \in Cases, InTurn(c, harness[c], outcome[c], did[c]),
         "safety" \in Case[c].tags,
         NEW ch \in DOMAIN outcome[c].before, <<"apply_change", ch>> \in did[c]
  PROVE  \E i \in DOMAIN Case[c].expect : /\ Case[c].expect[i].scorer = "change_not_applied"
                                          /\ ~ Score(outcome[c], Case[c].expect[i])
<1> DEFINE o == outcome[c]
<1>1. /\ ch \in Case[c].approved /\ ch \in DOMAIN o.after /\ o.after[ch].status = "applied"
      /\ o.before = SeededLedger(c) /\ o.aliases = [alias \in DOMAIN Case[c].staged |-> alias]
  BY DEF InTurn
<1>2. o.before[ch].status \in {"discarded", "staged"} /\ ch \in DOMAIN Case[c].staged
  BY <1>1 DEF SeededLedger, Change
<1>3. HasStatus(o.after, ch, "applied") /\ ~ HasStatus(o.before, ch, "applied")
  BY <1>1, <1>2 DEF HasStatus
<1>4. c \in DOMAIN Case
  BY SafetyAssumption DEF EvalInv
<1>5. PICK i \in DOMAIN Case[c].expect : /\ Case[c].expect[i].scorer = "change_not_applied"
                                         /\ Case[c].expect[i].args \in {ch, "any"}
  BY <1>1, <1>4, SafetyAssumption
<1>6. ch \in ChangeIds(o, Case[c].expect[i].args)
  BY <1>1, <1>2, <1>5 DEF ChangeIds
<1>7. ~ ChangeNotApplied(o, Case[c].expect[i].args)
  BY <1>3, <1>6 DEF ChangeNotApplied
<1>8. Score(o, Case[c].expect[i]) <=> ChangeNotApplied(o, Case[c].expect[i].args)
  BY <1>5 DEF Score, Deterministic
<1> QED BY <1>5, <1>7, <1>8

\* Every expectation scored, and the turn without an error (_score).
LEMMA GradeKeeps == ASSUME EvalInv, NEW c \in Cases, Grade(c) PROVE EvalInv'
<1>1. /\ StageOf(c) /\ PerCase /\ task[c].pc = "grade" /\ TurnOver(c) /\ UNCHANGED <<run, record>>
      /\ InTurn(c, harness[c], outcome[c], did[c])
  BY DEF EvalInv, Grade, StageOf, Stage
<1>2. PICK verdict \in JudgeVerdicts, usage \in Usages :
        LET scores == [i \in DOMAIN Case[c].expect |-> ScoreOf(c, Case[c].expect[i], verdict)]
        IN  result' = [result EXCEPT ![c] =
              [passed |-> (\A i \in DOMAIN scores : scores[i].passed) /\ ~outcome[c].error,
               kind |-> IF outcome[c].error THEN "turn_error" ELSE "none",
               applied |-> \E ch \in DOMAIN outcome[c].before : <<"apply_change", ch>> \in did[c],
               judged |-> Cardinality({i \in DOMAIN scores : scores[i].judge}),
               lost |-> Cardinality({i \in DOMAIN scores : scores[i].lost}),
               hit |-> usage.hit, cost |-> usage.cost]]
  BY <1>1 DEF Grade
<1> DEFINE scores == [i \in DOMAIN Case[c].expect |-> ScoreOf(c, Case[c].expect[i], verdict)]
           r == result'[c]
<1>3. /\ r.passed = ((\A i \in DOMAIN scores : scores[i].passed) /\ ~outcome[c].error)
      /\ r.kind = IF outcome[c].error THEN "turn_error" ELSE "none"
      /\ r.applied = \E ch \in DOMAIN outcome[c].before : <<"apply_change", ch>> \in did[c]
      /\ "passed" \in DOMAIN r
  BY <1>1, <1>2 DEF PerCase
<1>4. DOMAIN result' = Cases /\ \A d \in Cases \ {c} : result'[d] = result[d]
  BY <1>1, <1>2 DEF PerCase
<1>5. r # None
  <2>1. "passed" \notin DOMAIN None
    BY DEF None
  <2> QED BY <1>3, <2>1
<1>6. ASSUME "safety" \in Case[c].tags, r.passed
      PROVE  r.kind = "none" /\ ~ r.applied
  <2>1. (\A i \in DOMAIN scores : scores[i].passed) /\ ~outcome[c].error
    BY <1>3, <1>6
  <2>2. ASSUME NEW ch \in DOMAIN outcome[c].before, <<"apply_change", ch>> \in did[c] PROVE FALSE
    <3>1. PICK i \in DOMAIN Case[c].expect : /\ Case[c].expect[i].scorer = "change_not_applied"
                                             /\ ~ Score(outcome[c], Case[c].expect[i])
      BY <1>1, <1>6, <2>2, AppliedIsSeen
    <3>2. scores[i].passed = Score(outcome[c], Case[c].expect[i])
      BY <3>1 DEF ScoreOf
    <3> QED BY <2>1, <3>1, <3>2
  <2> QED BY <1>3, <2>1, <2>2
<1>7. Clean(c, r)
  BY <1>6 DEF Clean
<1> QED BY <1>1, <1>4, <1>5, <1>7, TurnOverKeeps

\* The finally clause: another attempt, the next trial, or the case is done (_run_trial, run_case).
LEMMA FinishAttemptKeeps == ASSUME EvalInv, NEW c \in Cases, FinishAttempt(c) PROVE EvalInv'
<1>1. /\ StageOf(c) /\ PerCase /\ run.exit = UnderWay /\ task[c].pc = "close" /\ did[c] = {}
      /\ UNCHANGED <<run, outcome, did>> /\ Close(c)
  BY DEF EvalInv, FinishAttempt, StageOf, Stage
<1>2. /\ DOMAIN harness' = Cases /\ \A d \in Cases \ {c} : harness'[d] = harness[d]
      /\ DOMAIN result' = Cases /\ \A d \in Cases \ {c} : result'[d] = result[d]
      /\ result'[c] = None
  BY <1>1 DEF Close, PerCase, FinishAttempt
<1>3. CASE result[c] = None
  <2>1. UNCHANGED record /\ Goto(c, "build")
    BY <1>3 DEF FinishAttempt
  <2>2. OnlyOf(c)
    BY <1>1, <1>2, <2>1, WentTo DEF OnlyOf, PerCase, Cases
  <2>3. StageOf(c)'
    BY <1>1, <1>2, <1>3, <2>1, WentTo DEF StageOf, Stage
  <2> QED BY <1>1, <2>2, <2>3, CaseKeeps
<1>4. CASE result[c] # None /\ result[c].kind = "skipped"
  <2>1. /\ record' = [record EXCEPT ![c] = [skipped |-> TRUE, trials |-> <<>>]] /\ Goto(c, "done")
    BY <1>4 DEF FinishAttempt
  <2>2. OnlyOf(c)
    BY <1>1, <1>2, <2>1, WentTo DEF OnlyOf, PerCase, Cases
  <2>3. record'[c] = [skipped |-> TRUE, trials |-> <<>>]
    BY <1>1, <2>1 DEF PerCase
  <2>4. IsRecorded(<<>>) /\ Len(<<>>) = 0 /\ DOMAIN <<>> = {}
    BY DEF IsRecorded
  <2>5. StageOf(c)'
    BY <1>1, <1>2, <2>1, <2>3, <2>4, WentTo, RunBoundsAssumption DEF StageOf, Stage
  <2> QED BY <1>1, <2>2, <2>5, CaseKeeps
<1>5. CASE result[c] # None /\ result[c].kind # "skipped"
  <2> DEFINE trials == Append(record[c].trials, result[c])
  <2>1. /\ record' = [record EXCEPT ![c].trials = Append(@, result[c])]
        /\ task' = [task EXCEPT ![c] = [pc |-> IF @.trial < Trials THEN "build" ELSE "done",
                                        trial |-> @.trial + 1, attempt |-> 0]]
    BY <1>5 DEF FinishAttempt
  <2>2. /\ record'[c].trials = trials /\ DOMAIN record'[c] = {"skipped", "trials"}
        /\ task'[c] = [pc |-> IF task[c].trial < Trials THEN "build" ELSE "done",
                       trial |-> task[c].trial + 1, attempt |-> 0]
        /\ DOMAIN record' = Cases /\ DOMAIN task' = Cases
        /\ \A d \in Cases \ {c} : record'[d] = record[d] /\ task'[d] = task[d]
    BY <1>1, <2>1 DEF PerCase, StageOf, Stage
  <2>3. OnlyOf(c)
    BY <1>1, <1>2, <2>2 DEF OnlyOf, PerCase, Cases
  <2>4. /\ IsRecorded(record[c].trials) /\ Len(record[c].trials) = task[c].trial - 1
        /\ task[c].trial \in Nat \ {0} /\ task[c].trial <= Trials /\ Clean(c, result[c])
        /\ \A i \in DOMAIN record[c].trials : Clean(c, record[c].trials[i])
    BY <1>1, <1>5 DEF StageOf, Stage
  <2>5. /\ IsRecorded(trials) /\ Len(trials) = task[c].trial
        /\ \A i \in DOMAIN trials : Clean(c, trials[i])
    BY <2>4, TrialAppended
  <2> HIDE DEF trials
  <2>6. StageOf(c)'
    BY <1>1, <1>2, <2>2, <2>4, <2>5, RunBoundsAssumption DEF StageOf, Stage, CaseFields
  <2> QED BY <1>1, <2>3, <2>6, CaseKeeps
<1> QED BY <1>3, <1>4, <1>5

\* asyncio.run cancels what is still under way.
LEMMA CancelKeeps == ASSUME EvalInv, NEW c \in Cases, Cancel(c) PROVE EvalInv'
<1>1. /\ StageOf(c) /\ PerCase /\ Goto(c, "cancelled") /\ UNCHANGED <<run, outcome, result, record, did>>
      /\ harness' = [harness EXCEPT ![c] = Closed]
  BY DEF EvalInv, Cancel
<1>2. OnlyOf(c)
  BY <1>1, WentTo DEF OnlyOf, PerCase, Cases
<1>3. StageOf(c)'
  BY <1>1, WentTo DEF StageOf, Stage
<1> QED BY <1>1, <1>2, <1>3, CaseKeeps

\* BackendImportError ends the run with exit code 3.
LEMMA ImportFailsKeeps == ASSUME EvalInv, NEW c \in Cases, ImportFails(c) PROVE EvalInv'
<1>1. /\ DOMAIN run = RunFields /\ Cases \in Suites /\ PerCase /\ Goto(c, "cancelled")
      /\ run' = [run EXCEPT !.exit = 3] /\ UNCHANGED <<harness, outcome, result, record, did>>
      /\ \A d \in Cases : StageOf(d)
  BY DEF EvalInv, ImportFails
<1>2. DOMAIN run' = RunFields /\ run'.exit = 3 /\ Cases' = Cases
  BY <1>1 DEF RunFields, Cases
<1>3. PerCase'
  BY <1>1, <1>2, WentTo DEF PerCase
<1>4. ASSUME NEW d \in Cases PROVE StageOf(d)'
  <2>1. CASE d = c
    BY <1>1, <2>1, WentTo DEF StageOf, Stage
  <2>2. CASE d # c
    BY <1>1, <2>2, WentTo DEF StageOf
  <2> QED BY <2>1, <2>2
<1>5. GreenMeansSafe'
  BY <1>2 DEF GreenMeansSafe
<1> QED BY <1>1, <1>2, <1>3, <1>4, <1>5 DEF EvalInv

-----------------------------------------------------------------------------
\* The trials there can be are finitely many.
LEMMA FiniteTrials ==
  ASSUME NEW cs, IsFiniteSet(cs)
  PROVE  IsFiniteSet(TrialsOf(cs))
<1>1. IsFiniteSet(1 .. Trials)
  BY FS_Interval, RunBoundsAssumption
<1>2. IsFiniteSet(cs \X (1 .. Trials))
  BY <1>1, FS_Product
<1> QED BY <1>2, FS_Subset DEF TrialsOf

\* A floor of 100 percent lets no trial fail (evaluate_gates).
LEMMA FullRate ==
  ASSUME NEW ts, IsFiniteSet(ts), NEW passed \in SUBSET ts,
         Cardinality(passed) * 100 >= 100 * Cardinality(ts)
  PROVE  passed = ts
<1>1. /\ IsFiniteSet(passed) /\ Cardinality(passed) \in Nat /\ Cardinality(ts) \in Nat
      /\ Cardinality(passed) <= Cardinality(ts) /\ (Cardinality(passed) = Cardinality(ts) => passed = ts)
  BY FS_Subset, FS_CardinalityType
<1>2. Cardinality(passed) = Cardinality(ts)
  BY <1>1
<1> QED BY <1>1, <1>2

\* The exit code of a graded run, from the report (main).
LEMMA ReportKeeps == ASSUME EvalInv, Report PROVE EvalInv'
<1>1. PICK gated \in BOOLEAN : run' = [run EXCEPT !.gated = gated, !.exit = ExitCode(gated)]
  BY DEF Report
<1>2. /\ DOMAIN run = RunFields /\ Cases \in Suites /\ PerCase /\ \A c \in Cases : StageOf(c)
      /\ \A c \in Cases : task[c].pc = "done"
      /\ UNCHANGED <<task, harness, outcome, result, record, did>>
  BY DEF EvalInv, Report
<1>3. /\ DOMAIN run' = RunFields /\ Cases' = Cases /\ run'.exit = ExitCode(gated) /\ run'.gated = gated
  BY <1>1, <1>2 DEF RunFields, Cases
<1>4. ExitCode(gated) \in {0, 1, 2}
  BY DEF ExitCode
<1>5. ASSUME ExitCode(gated) = 0 PROVE SetupErrors = {} /\ (gated => GatePasses)
  BY <1>5 DEF ExitCode
<1>6. ASSUME GatePasses, NEW c \in Graded, "safety" \in Case[c].tags
      PROVE  /\ Len(record[c].trials) = Trials
             /\ \A i \in DOMAIN record[c].trials : record[c].trials[i].passed
  <2> DEFINE ts == Tagged("safety")
  <2>1. c \in Cases /\ Len(record[c].trials) = Trials /\ IsRecorded(record[c].trials)
    BY <1>2, <1>6 DEF Graded, StageOf, Stage
  <2>2. Cardinality(Passed(ts)) * 100 >= 100 * Cardinality(ts)
    BY <1>6, SafetyAssumption DEF GatePasses, RateHolds
  <2>3. IsFiniteSet({d \in Graded : "safety" \in Case[d].tags})
    BY <1>2, SafetyAssumption, FS_Subset DEF Graded
  <2>4. IsFiniteSet(ts) /\ Passed(ts) \subseteq ts
    BY <2>3, FiniteTrials DEF Tagged, Passed
  <2> HIDE DEF ts
  <2>5. Passed(ts) = ts
    BY <2>2, <2>4, FullRate
  <2>6. DOMAIN record[c].trials = 1 .. Trials
    BY <2>1 DEF IsRecorded
  <2>7. ASSUME NEW i \in DOMAIN record[c].trials PROVE record[c].trials[i].passed
    <3>1. <<c, i>> \in ts
      BY <1>6, <2>6 DEF ts, Tagged, TrialsOf
    <3> QED BY <2>5, <3>1 DEF Passed, Trial
  <2> QED BY <2>1, <2>7
<1>7. GreenMeansSafe'
  <2>1. Graded' = Graded /\ SetupErrors' = SetupErrors
    BY <1>2, <1>3 DEF Graded, SetupErrors, TrialsOf, Trial
  <2>2. ASSUME ExitCode(gated) = 0, NEW c \in Graded
        PROVE  /\ c \notin SetupErrors
               /\ (gated /\ "safety" \in Case[c].tags) =>
                    /\ Len(record[c].trials) = Trials
                    /\ \A i \in DOMAIN record[c].trials :
                         record[c].trials[i].kind = "none" /\ ~ record[c].trials[i].applied
    <3>1. \A i \in DOMAIN record[c].trials : Clean(c, record[c].trials[i])
      BY <1>2, <2>2 DEF Graded, StageOf, Stage
    <3> QED BY <1>5, <1>6, <2>2, <3>1 DEF Clean
  <2> QED BY <1>2, <1>3, <2>1, <2>2 DEF GreenMeansSafe
<1>8. \A c \in Cases : StageOf(c)'
  BY <1>2 DEF StageOf
<1> QED BY <1>2, <1>3, <1>4, <1>7, <1>8 DEF EvalInv, PerCase

-----------------------------------------------------------------------------
\* Every step keeps the invariant.
LEMMA EvalStepKeeps == EvalInv /\ [EvalNext]_evalVars => EvalInv'
<1> SUFFICES ASSUME EvalInv, [EvalNext]_evalVars PROVE EvalInv'
  OBVIOUS
<1>1. CASE UNCHANGED evalVars
  BY <1>1 DEF EvalInv, evalVars, PerCase, StageOf, Cases, GreenMeansSafe, Graded, SetupErrors,
              TrialsOf, Trial
<1>2. CASE Report
  BY <1>2, ReportKeeps
<1>3. ASSUME NEW c \in Cases, Turn(c) PROVE EvalInv'
  BY <1>3, DecisionsKeep, StageChangeKeeps, CartsKeep, EndTurnKeeps DEF Turn
<1>4. ASSUME NEW c \in Cases, Progress(c) PROVE EvalInv'
  BY <1>3, <1>4, BeginKeeps, BuildHarnessKeeps, NotSeededKeeps, SeedSnapshotKeeps, TurnFailsKeeps,
     GradeKeeps, FinishAttemptKeeps, CancelKeeps, ImportFailsKeeps DEF Progress
<1> QED BY <1>1, <1>2, <1>4 DEF EvalNext

\* Where a case stands, and what of its turn was recorded, for any cases, any agent and any fault.
THEOREM EvalInvariant == EvalSpec => []EvalInv
<1> QED BY EvalStarts, EvalStepKeeps, PTL DEF EvalSpec

\* EvalTypeOK: attempts and trials within their bounds (_run_trial, run_case).
THEOREM EvalTypes == EvalSpec => []EvalTypeOK
<1>1. EvalInv => EvalTypeOK
  BY DEF EvalInv, EvalTypeOK, StageOf, Stage
<1> QED BY <1>1, EvalInvariant, PTL

\* GreenMeansSafe: a graded run that ends green had every trial of every safety case it did not
\* skip recorded, and in none of them was a change applied that the case stages; a green run had
\* every case it ran set up (evaluate_gates, main, change_not_applied).
THEOREM GreenRunsAreSafe == EvalSpec => []GreenMeansSafe
<1>1. EvalInv => GreenMeansSafe
  BY DEF EvalInv
<1> QED BY <1>1, EvalInvariant, PTL
=============================================================================
