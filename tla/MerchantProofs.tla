--------------------------- MODULE MerchantProofs ---------------------------
(***************************************************************************)
(* Proofs about the merchant side outside the portal: AdminAccess over its *)
(* store, ConsoleApproval, HostedTools, WritePlans and MerchantDashboard,  *)
(* which share no state, for any values of their constants.                *)
(***************************************************************************)
EXTENDS AdminAccess, ConsoleApproval, HostedTools, WritePlans, MerchantDashboard, FiniteSetTheorems,
        SequenceTheorems, TLAPS

-----------------------------------------------------------------------------
(* Places of a sequence and the sets of its elements.                      *)

\* Ranks are strictly monotonic.
LEMMA RankGrows ==
  ASSUME NEW I \in SUBSET Nat, IsFiniteSet(I), NEW i \in I, NEW k \in I, i < k
  PROVE  Rank(I, i) < Rank(I, k)
<1> DEFINE below == {j \in I : j <= i}
           upto == {j \in I : j <= k}
<1>1. below \in SUBSET upto /\ upto \in SUBSET I /\ k \in upto /\ k \notin below
  <2>1. i \in Nat /\ k \in Nat /\ \A j \in I : j \in Nat
    OBVIOUS
  <2>2. \A j \in I : j <= i => j <= k
    BY <2>1
  <2>3. k <= k /\ ~(k <= i)
    BY <2>1
  <2>4. QED
    BY <2>2, <2>3
<1>2. IsFiniteSet(upto) /\ Cardinality(upto) \in Nat
  BY <1>1, FS_Subset, FS_CardinalityType
<1>3. IsFiniteSet(below) /\ Cardinality(below) \in Nat
  BY <1>1, <1>2, FS_Subset, FS_CardinalityType
<1>4. Cardinality(below) <= Cardinality(upto) /\ Cardinality(below) # Cardinality(upto)
  BY <1>1, <1>2, FS_Subset
<1>5. QED
  BY <1>2, <1>3, <1>4 DEF Rank

\* The ranks of n places are 1 .. n, and Nth finds the place of each.
LEMMA PlacesByRank ==
  ASSUME NEW I \in SUBSET Nat, IsFiniteSet(I)
  PROVE  /\ Cardinality(I) \in Nat
         /\ \A n \in 1 .. Cardinality(I) : Nth(I, n) \in I /\ Rank(I, Nth(I, n)) = n
         /\ \A i \in I : Rank(I, i) \in 1 .. Cardinality(I) /\ Nth(I, Rank(I, i)) = i
<1>1. Cardinality(I) \in Nat
  BY FS_CardinalityType
<1>2. \A i \in I : Rank(I, i) \in 1 .. Cardinality(I)
  <2>1. SUFFICES ASSUME NEW i \in I PROVE Rank(I, i) \in 1 .. Cardinality(I)
    OBVIOUS
  <2> DEFINE below == {j \in I : j <= i}
  <2>2. IsFiniteSet(below) /\ Cardinality(below) <= Cardinality(I) /\ Cardinality(below) \in Nat
    BY FS_Subset, FS_CardinalityType
  <2>3. i \in below
    OBVIOUS
  <2>4. Cardinality(below) # 0
    BY <2>2, <2>3, FS_EmptySet
  <2>5. QED
    BY <1>1, <2>2, <2>4 DEF Rank
<1>3. \A i, k \in I : Rank(I, i) = Rank(I, k) => i = k
  <2>1. SUFFICES ASSUME NEW i \in I, NEW k \in I, Rank(I, i) = Rank(I, k), i # k PROVE FALSE
    OBVIOUS
  <2>2. i < k \/ k < i
    BY <2>1
  <2>3. Rank(I, i) \in Nat /\ Rank(I, k) \in Nat
    BY <1>1, <1>2
  <2>4. QED
    BY <2>1, <2>2, <2>3, RankGrows
<1> DEFINE ranks == [i \in I |-> Rank(I, i)]
<1>4. ranks \in Injection(I, 1 .. Cardinality(I))
  BY <1>2, <1>3 DEF Injection, IsInjective
<1>5. IsFiniteSet(1 .. Cardinality(I)) /\ Cardinality(1 .. Cardinality(I)) = Cardinality(I)
  BY <1>1, FS_Interval
<1>6. ranks \in Surjection(I, 1 .. Cardinality(I))
  BY <1>4, <1>5, FS_Injection
<1>7. \A n \in 1 .. Cardinality(I) : \E i \in I : Rank(I, i) = n
  BY <1>6 DEF Surjection
<1>8. \A n \in 1 .. Cardinality(I) : Nth(I, n) \in I /\ Rank(I, Nth(I, n)) = n
  BY <1>7 DEF Nth
<1>9. QED
  BY <1>1, <1>2, <1>3, <1>8

\* Picked returns what is at the places.
LEMMA PickedElements ==
  ASSUME NEW s, NEW I \in SUBSET Nat, IsFiniteSet(I), NEW S, \A i \in I : s[i] \in S
  PROVE  /\ Picked(s, I) \in Seq(S)
         /\ ToSet(Picked(s, I)) = {s[i] : i \in I}
<1>1. Cardinality(I) \in Nat /\ DOMAIN Picked(s, I) = 1 .. Cardinality(I)
      /\ \A n \in 1 .. Cardinality(I) : Picked(s, I)[n] = s[Nth(I, n)] /\ Nth(I, n) \in I
  BY PlacesByRank DEF Picked
<1>2. \A n \in 1 .. Cardinality(I) : s[Nth(I, n)] \in S
  BY <1>1
<1>3. Picked(s, I) \in Seq(S)
  BY <1>1, <1>2 DEF Picked
<1>4. \A x \in ToSet(Picked(s, I)) : \E i \in I : x = s[i]
  BY <1>1 DEF ToSet
<1>5. \A i \in I : Rank(I, i) \in 1 .. Cardinality(I) /\ Nth(I, Rank(I, i)) = i
  BY PlacesByRank
<1>6. \A i \in I : s[i] \in ToSet(Picked(s, I))
  <2>1. SUFFICES ASSUME NEW i \in I PROVE s[i] \in ToSet(Picked(s, I))
    OBVIOUS
  <2>2. Rank(I, i) \in DOMAIN Picked(s, I) /\ Picked(s, I)[Rank(I, i)] = s[i]
    BY <1>1, <1>5
  <2>3. QED
    BY <2>2 DEF ToSet
<1>7. QED
  BY <1>3, <1>4, <1>6

\* A set as a sequence, and one sequence behind another.
LEMMA SetAsSequence ==
  ASSUME NEW S, IsFiniteSet(S)
  PROVE  SetToSeq(S) \in Seq(S) /\ ToSet(SetToSeq(S)) = S
<1>1. Cardinality(S) \in Nat /\ ExistsBijection(1 .. Cardinality(S), S)
  BY FS_CardinalityType
<1>2. PICK f : f \in Bijection(1 .. Cardinality(S), S)
  BY <1>1 DEF ExistsBijection
<1>3. f \in [1 .. Cardinality(S) -> S] /\ IsInjective(f)
  BY <1>2 DEF Bijection, Injection
<1> DEFINE t == SetToSeq(S)
<1>4. t \in [1 .. Cardinality(S) -> S] /\ IsInjective(t)
  BY <1>3 DEF SetToSeq
<1>5. IsFiniteSet(1 .. Cardinality(S)) /\ Cardinality(1 .. Cardinality(S)) = Cardinality(S)
  BY <1>1, FS_Interval
<1>6. t \in Injection(1 .. Cardinality(S), S)
  BY <1>4 DEF Injection
<1>7. t \in Surjection(1 .. Cardinality(S), S)
  BY <1>5, <1>6, FS_Injection
<1>8. QED
  BY <1>1, <1>4, <1>7 DEF Surjection, ToSet

LEMMA ElementsJoined ==
  ASSUME NEW S, NEW s \in Seq(S), NEW t \in Seq(S)
  PROVE  /\ s \o t \in Seq(S) /\ ToSet(s \o t) = ToSet(s) \cup ToSet(t)
         /\ Len(s) \in Nat /\ Len(t) \in Nat /\ Len(s \o t) = Len(s) + Len(t)
<1>1. DOMAIN (s \o t) = 1 .. Len(s) + Len(t) /\ DOMAIN s = 1 .. Len(s) /\ DOMAIN t = 1 .. Len(t)
      /\ Len(s) \in Nat /\ Len(t) \in Nat
  OBVIOUS
<1>2. \A i \in 1 .. Len(s) : (s \o t)[i] = s[i]
  OBVIOUS
<1>3. \A i \in 1 .. Len(t) : (s \o t)[Len(s) + i] = t[i]
  OBVIOUS
<1>4. \A i \in 1 .. Len(s) + Len(t) : i \in 1 .. Len(s) \/ (i - Len(s)) \in 1 .. Len(t)
  BY <1>1
<1>5. \A i \in 1 .. Len(s) : s[i] \in ToSet(s \o t)
  BY <1>1, <1>2 DEF ToSet
<1>6. \A i \in 1 .. Len(t) : t[i] \in ToSet(s \o t)
  <2>1. \A i \in 1 .. Len(t) : Len(s) + i \in DOMAIN (s \o t)
    BY <1>1
  <2>2. QED
    BY <1>3, <2>1 DEF ToSet
<1>7. ToSet(s) \cup ToSet(t) \subseteq ToSet(s \o t)
  BY <1>1, <1>5, <1>6 DEF ToSet
<1>8. ToSet(s \o t) \subseteq ToSet(s) \cup ToSet(t)
  <2>1. SUFFICES ASSUME NEW i \in 1 .. Len(s) + Len(t)
                 PROVE  (s \o t)[i] \in ToSet(s) \cup ToSet(t)
    BY <1>1 DEF ToSet
  <2>2. CASE i \in 1 .. Len(s)
    BY <1>1, <1>2, <2>2 DEF ToSet
  <2>3. CASE i - Len(s) \in 1 .. Len(t)
    <3>1. (s \o t)[i] = t[i - Len(s)]
      BY <1>1, <1>3, <2>3
    <3>2. QED
      BY <1>1, <2>3, <3>1 DEF ToSet
  <2>4. QED
    BY <1>4, <2>1, <2>2, <2>3
<1>9. QED
  BY <1>1, <1>7, <1>8

\* What is left of a list whose head was taken off.
LEMMA HeadAndRest ==
  ASSUME NEW S, NEW s \in Seq(S), s # <<>>
  PROVE  Head(s) \in S /\ Tail(s) \in Seq(S) /\ ToSet(s) = {Head(s)} \cup ToSet(Tail(s))
<1>1. Len(s) \in Nat \ {0} /\ DOMAIN s = 1 .. Len(s) /\ DOMAIN Tail(s) = 1 .. Len(s) - 1
      /\ Head(s) = s[1] /\ \A i \in 1 .. Len(s) - 1 : Tail(s)[i] = s[i + 1]
  OBVIOUS
<1>2. s[1] \in ToSet(s)
  BY <1>1 DEF ToSet
<1>3. ToSet(Tail(s)) \subseteq ToSet(s)
  <2>1. \A i \in 1 .. Len(s) - 1 : i + 1 \in DOMAIN s
    BY <1>1
  <2>2. QED
    BY <1>1, <2>1 DEF ToSet
<1>4. \A i \in DOMAIN s : s[i] = Head(s) \/ s[i] \in ToSet(Tail(s))
  <2>1. SUFFICES ASSUME NEW i \in DOMAIN s, i # 1 PROVE s[i] \in ToSet(Tail(s))
    BY <1>1
  <2>2. i - 1 \in DOMAIN Tail(s) /\ Tail(s)[i - 1] = s[i]
    BY <1>1, <2>1
  <2>3. QED
    BY <2>2 DEF ToSet
<1>5. QED
  BY <1>1, <1>2, <1>3, <1>4 DEF ToSet

LEMMA ElementsTyped ==
  ASSUME NEW S, NEW s \in Seq(S)
  PROVE  ToSet(s) \subseteq S
BY DEF ToSet

LEMMA EmptyHasNone == ToSet(<<>>) = {}
BY DEF ToSet

-----------------------------------------------------------------------------
(***************************************************************************)
(* AdminAccess: what a payload met, and what a refresh has yet to meet.    *)
(***************************************************************************)
Entities == {"product", "promotion", "rule"}

\* The payloads are those of a plan, and every attempt is counted.
Plan == DOMAIN job \in Plans

AttemptsCounted ==
  \A w \in DOMAIN job :
    /\ {"status", "times", "lost"} \subseteq DOMAIN job[w]
    /\ job[w].times \in Nat /\ job[w].lost \in Nat
    /\ job[w].status = "posting" => transport = "rest"

\* Found, in any store.
FoundIn(s, w) == IF w.entity = "product" THEN {row.id : row \in w.rows} \cap DOMAIN s.product
                 ELSE s.rule \cap {w.rule}

\* A preview, and the last answer to the write, are what some store says of the payload in
\* which what the payload refers to is as it was then.
Foreseen(w) ==
  "foreseen" \in DOMAIN job[w] =>
    /\ transport # "rest" /\ "seen" \in DOMAIN job[w]
    /\ \E s : /\ FoundIn(s, w) = job[w].seen
              /\ Valid(s, w) /\ Written(s, w) = job[w].foreseen

Met(w) ==
  "found" \in DOMAIN job[w] /\ transport # "rest" =>
    /\ {"ok", "wrote"} \subseteq DOMAIN job[w]
    /\ \E s : /\ FoundIn(s, w) = job[w].found
              /\ IF Valid(s, w) THEN job[w].ok = TRUE /\ job[w].wrote = Written(s, w)
                 ELSE job[w].ok = FALSE

AnswersAreOfAStore == \A w \in DOMAIN job : Foreseen(w) /\ Met(w)

-----------------------------------------------------------------------------
\* The places of the shelf the store has products for.
Listed(s) == {i \in DOMAIN Shelf : Shelf[i] \in DOMAIN s.product}

\* Places whose product was there all the time, nothing before it removed, and not yet read.
Awaited ==
  {i \in DOMAIN Shelf :
     /\ Shelf[i] \in scan.first \ (scan.gone \cup ToSet(scan.rows))
     /\ \A j \in 1 .. i - 1 : Shelf[j] \notin scan.gone}

ScanFields == {"at", "page", "rows", "first", "came", "gone"}

\* The refresh has read no more rows than its pages hold; an awaited product stands behind
\* them, or in the page that is parked.
ScanInv ==
  /\ scan.at \in {"none", "page", "parked", "done"}
  /\ scan.at = "page" => DOMAIN scan = ScanFields
  /\ scan.at = "parked" =>
       /\ DOMAIN scan = ScanFields \cup {"parked"}
       /\ scan.parked.rows \in Seq(Products) /\ Len(scan.parked.rows) <= PageSize
       /\ scan.parked.total \in Nat
  /\ scan.at \in {"page", "parked"} =>
       /\ scan.page \in Nat \ {0} /\ scan.rows \in Seq(Products)
       /\ Len(scan.rows) <= (scan.page - 1) * PageSize
       /\ scan.first \ scan.gone \subseteq DOMAIN store.product

BehindThePages ==
  scan.at = "page" => \A i \in Awaited : Rank(Listed(store), i) > (scan.page - 1) * PageSize

BehindTheParked ==
  scan.at = "parked" =>
    \A i \in Awaited :
      \/ Shelf[i] \in ToSet(scan.parked.rows)
      \/ /\ Rank(Listed(store), i) > scan.page * PageSize
         /\ scan.parked.total > scan.page * PageSize /\ scan.parked.rows # <<>>

RefreshInv == ScanInv /\ BehindThePages /\ BehindTheParked /\ RefreshMissesOnlyBehindRemoved
StoreShape == {"product", "rule", "condition", "promotion", "channel", "discount", "mapping"}
                \subseteq DOMAIN store

AccessInv == Plan /\ AttemptsCounted /\ VerdictsAreTrue /\ AnswersAreOfAStore /\ StoreShape /\ RefreshInv

-----------------------------------------------------------------------------
\* Found speaks of the shop.
LEMMA FoundHere == \A w : Found(w) = FoundIn(store, w)
BY DEF Found, FoundIn

\* The verdict on a payload, and what it reports, depend on what it refers to only.
LEMMA VerdictDependsOnFound ==
  ASSUME NEW s, NEW t, NEW w, w.entity \in Entities, FoundIn(s, w) = FoundIn(t, w)
  PROVE  (Valid(s, w) <=> Valid(t, w)) /\ Written(s, w) = Written(t, w)
<1>1. CASE w.entity = "product"
  <2>1. \A row \in w.rows : row.id \in DOMAIN s.product <=> row.id \in DOMAIN t.product
    BY <1>1 DEF FoundIn
  <2>2. ProductErrors(s, w.rows) = ProductErrors(t, w.rows)
    BY <2>1 DEF ProductErrors
  <2>3. (Valid(s, w) <=> ProductErrors(s, w.rows) = {}) /\ (Valid(t, w) <=> ProductErrors(t, w.rows) = {})
    BY <1>1 DEF Valid
  <2>4. Written(s, w) = Written(t, w)
    BY <1>1 DEF Written
  <2>5. QED
    BY <2>2, <2>3, <2>4
<1>2. CASE w.entity = "promotion"
  <2>1. w.rule \in s.rule <=> w.rule \in t.rule
    BY <1>2 DEF FoundIn
  <2>2. PromotionErrors(s, w) = PromotionErrors(t, w)
    BY <2>1 DEF PromotionErrors
  <2>3. (Valid(s, w) <=> PromotionErrors(s, w) = {}) /\ (Valid(t, w) <=> PromotionErrors(t, w) = {})
    BY <1>2 DEF Valid
  <2>4. Written(s, w) = Written(t, w)
    BY <1>2, <2>1 DEF Written
  <2>5. QED
    BY <2>2, <2>3, <2>4
<1>3. CASE w.entity = "rule"
  BY <1>3 DEF Valid, Written
<1>4. QED
  BY <1>1, <1>2, <1>3 DEF Entities

\* No write removes a product or a table.
LEMMA WritesAdd ==
  ASSUME NEW s, NEW w, w.entity \in Entities, NEW T, T \subseteq DOMAIN s, "product" \in T
  PROVE  T \subseteq DOMAIN Persist(s, w) /\ DOMAIN s.product \subseteq DOMAIN Persist(s, w).product
<1>1. CASE w.entity = "product"
  <2>1. Persist(s, w) = PersistProducts(s, w.rows)
    BY <1>1 DEF Persist
  <2>2. DOMAIN PersistProducts(s, w.rows) = DOMAIN s
    BY DEF PersistProducts
  <2>3. DOMAIN PersistProducts(s, w.rows).product = DOMAIN s.product \cup {row.id : row \in w.rows}
    BY DEF PersistProducts
  <2>4. QED
    BY <2>1, <2>2, <2>3
<1>2. \A rule, n : /\ DOMAIN PersistRule(s, rule, n) = DOMAIN s
                   /\ PersistRule(s, rule, n).product = s.product
  BY DEF PersistRule
<1>3. CASE w.entity = "rule"
  <2>1. Persist(s, w) = PersistRule(s, w.id, w.conditions)
    BY <1>3 DEF Persist
  <2>2. QED
    BY <1>2, <2>1
<1>4. CASE w.entity = "promotion"
  <2>1. Persist(s, w) = PersistPromotion(s, w)
    BY <1>4 DEF Persist
  <2>2. CASE w.discounts > 0 /\ w.body
    BY <1>2, <2>1, <2>2 DEF PersistPromotion
  <2>3. CASE ~(w.discounts > 0 /\ w.body)
    <3>1. DOMAIN PersistPromotion(s, w) = DOMAIN s /\ PersistPromotion(s, w).product = s.product
      BY <2>3 DEF PersistPromotion
    <3>2. QED
      BY <2>1, <3>1
  <2>4. QED
    BY <2>2, <2>3
<1>5. QED
  BY <1>1, <1>3, <1>4 DEF Entities

\* What Upsert answers, taken apart.
LEMMA UpsertSays ==
  ASSUME NEW s, NEW w, NEW dry \in BOOLEAN
  PROVE  /\ Upsert(s, w, dry).ok = TRUE \/ Upsert(s, w, dry).ok = FALSE
         /\ Upsert(s, w, dry).ok <=> Valid(s, w)
         /\ Valid(s, w) => Upsert(s, w, dry).written = Written(s, w)
         /\ Upsert(s, w, dry).store = IF Valid(s, w) /\ ~dry THEN Persist(s, w) ELSE s
BY DEF Upsert

-----------------------------------------------------------------------------
\* What an answer does to the payload's record.
LEMMA AnsweredSays ==
  ASSUME Plan, AttemptsCounted, NEW w \in DOMAIN job, NEW result, NEW answer,
         Answered(w, result, answer)
  PROVE  /\ store' = result.store
         /\ DOMAIN job' = DOMAIN job /\ \A v \in DOMAIN job : v # w => job'[v] = job[v]
         /\ DOMAIN job'[w] = DOMAIN job[w] \cup {"ok", "found", "wrote"}
         /\ job'[w].status = IF answer.ok THEN "applied" ELSE "failed"
         /\ job'[w].times = job[w].times + (IF result.ok THEN 1 ELSE 0)
         /\ job'[w].lost = job[w].lost
         /\ job'[w].ok = answer.ok /\ job'[w].found = Found(w)
         /\ answer.ok => job'[w].wrote = answer.written
         /\ "seen" \in DOMAIN job[w] => job'[w].seen = job[w].seen
         /\ "foreseen" \in DOMAIN job[w] => job'[w].foreseen = job[w].foreseen
<1>1. {"status", "times", "lost"} \subseteq DOMAIN job[w]
  BY DEF AttemptsCounted
<1> DEFINE new == [f \in DOMAIN job[w] \cup {"ok", "found", "wrote"} |->
               CASE f = "status" -> IF answer.ok THEN "applied" ELSE "failed"
                 [] f = "ok"     -> answer.ok
                 [] f = "times"  -> job[w].times + (IF result.ok THEN 1 ELSE 0)
                 [] f = "found"  -> Found(w)
                 [] f = "wrote"  -> IF answer.ok THEN answer.written ELSE <<>>
                 [] OTHER -> job[w][f]]
<1>2. store' = result.store /\ job' = [job EXCEPT ![w] = new]
  BY DEF Answered
<1>3. DOMAIN job' = DOMAIN job /\ job'[w] = new /\ \A v \in DOMAIN job : v # w => job'[v] = job[v]
  <2> HIDE DEF new
  <2>1. QED
    BY <1>2
<1>4. /\ DOMAIN new = DOMAIN job[w] \cup {"ok", "found", "wrote"}
      /\ new.status = IF answer.ok THEN "applied" ELSE "failed"
      /\ new.times = job[w].times + (IF result.ok THEN 1 ELSE 0)
      /\ new.lost = job[w].lost
      /\ new.ok = answer.ok /\ new.found = Found(w)
      /\ new.wrote = IF answer.ok THEN answer.written ELSE <<>>
      /\ "seen" \in DOMAIN job[w] => new.seen = job[w].seen
      /\ "foreseen" \in DOMAIN job[w] => new.foreseen = job[w].foreseen
  BY <1>1
<1>5. QED
  <2> HIDE DEF new
  <2>1. QED
    BY <1>2, <1>3, <1>4

\* A step that changes what is known of one payload keeps all if it keeps that one.
LEMMA OthersKeep ==
  ASSUME AttemptsCounted, VerdictsAreTrue, AnswersAreOfAStore, NEW w \in DOMAIN job,
         DOMAIN job' = DOMAIN job, \A v \in DOMAIN job : v # w => job'[v] = job[v],
         transport' = transport,
         {"status", "times", "lost"} \subseteq DOMAIN job'[w],
         job'[w].times \in Nat, job'[w].lost \in Nat,
         job'[w].status = "posting" => transport = "rest",
         job'[w].times
           = job'[w].lost + (IF job'[w].status \in {"applied", "undone"} THEN 1 ELSE 0),
         Foreseen(w)', Met(w)'
  PROVE  AttemptsCounted' /\ VerdictsAreTrue' /\ AnswersAreOfAStore'
<1>1. AttemptsCounted' /\ VerdictsAreTrue'
  <2>1. SUFFICES ASSUME NEW v \in DOMAIN job, v # w
                 PROVE  job'[v] = job[v]
    BY DEF AttemptsCounted, VerdictsAreTrue
  <2>2. QED
    BY <2>1
<1>2. \A v \in DOMAIN job : v # w => Foreseen(v)' /\ Met(v)'
  BY DEF AnswersAreOfAStore, Foreseen, Met
<1>3. QED
  BY <1>1, <1>2 DEF AnswersAreOfAStore

\* The record of w but for its count of attempts and its status stays as it was.
Recounted(w, st, n) ==
  /\ DOMAIN job' = DOMAIN job /\ \A v \in DOMAIN job : v # w => job'[v] = job[v]
  /\ DOMAIN job'[w] = DOMAIN job[w]
  /\ job'[w].status = st /\ job'[w].times = job[w].times + n /\ job'[w].lost = job[w].lost + n
  /\ \A f \in DOMAIN job[w] \ {"status", "times", "lost"} : job'[w][f] = job[w][f]

\* A step that only gives the payload a new status, or counts a lost answer, keeps it all.
LEMMA RecountsKeep ==
  ASSUME AttemptsCounted, VerdictsAreTrue, AnswersAreOfAStore, NEW w \in DOMAIN job,
         NEW st, NEW n \in {0, 1}, Recounted(w, st, n), transport' = transport,
         st \in {"applied", "undone"} <=> job[w].status \in {"applied", "undone"},
         st = "posting" => transport = "rest"
  PROVE  AttemptsCounted' /\ VerdictsAreTrue' /\ AnswersAreOfAStore'
<1>1. /\ {"status", "times", "lost"} \subseteq DOMAIN job[w]
      /\ job[w].times \in Nat /\ job[w].lost \in Nat /\ Foreseen(w) /\ Met(w)
      /\ job[w].times = job[w].lost + (IF job[w].status \in {"applied", "undone"} THEN 1 ELSE 0)
  BY DEF AttemptsCounted, VerdictsAreTrue, AnswersAreOfAStore
<1>2. Foreseen(w)' /\ Met(w)'
  BY <1>1 DEF Foreseen, Met, Recounted
<1>3. /\ DOMAIN job' = DOMAIN job /\ \A v \in DOMAIN job : v # w => job'[v] = job[v]
      /\ {"status", "times", "lost"} \subseteq DOMAIN job'[w]
      /\ job'[w].times \in Nat /\ job'[w].lost \in Nat
      /\ job'[w].status = "posting" => transport = "rest"
      /\ job'[w].times
           = job'[w].lost + (IF job'[w].status \in {"applied", "undone"} THEN 1 ELSE 0)
  BY <1>1 DEF Recounted
<1>4. QED
  BY <1>2, <1>3, OthersKeep

LEMMA MarksAreKept ==
  ASSUME AttemptsCounted, VerdictsAreTrue, AnswersAreOfAStore, NEW w \in DOMAIN job,
         RestPreview(w) \/ Lose(w) \/ Rollback(w) \/ (Patch(w) /\ Found(w) = {})
  PROVE  AttemptsCounted' /\ VerdictsAreTrue' /\ AnswersAreOfAStore'
<1>1. /\ {"status", "times", "lost"} \subseteq DOMAIN job[w]
      /\ job[w].times \in Nat /\ job[w].lost \in Nat
  BY DEF AttemptsCounted
<1>2. transport' = transport
  BY DEF RestPreview, Lose, Rollback, Patch
<1>3. ASSUME NEW st, job' = [job EXCEPT ![w].status = st] PROVE Recounted(w, st, 0)
  BY <1>1, <1>3 DEF Recounted
<1>4. CASE RestPreview(w)
  <2>1. Recounted(w, "staged", 0) /\ job[w].status = "new"
    BY <1>3, <1>4 DEF RestPreview
  <2>2. QED
    BY <1>2, <2>1, RecountsKeep
<1>5. CASE Rollback(w)
  <2>1. Recounted(w, "undone", 0) /\ job[w].status = "applied"
    BY <1>3, <1>5 DEF Rollback
  <2>2. QED
    BY <1>2, <2>1, RecountsKeep
<1>6. CASE Patch(w) /\ Found(w) = {}
  <2>1. Recounted(w, "posting", 0) /\ job[w].status \in {"staged", "failed"} /\ transport = "rest"
    BY <1>3, <1>6 DEF Patch, Ready, OneRequest
  <2>2. QED
    BY <1>2, <2>1, RecountsKeep
<1>7. CASE Lose(w)
  <2>1. job' = [job EXCEPT ![w].times = @ + 1, ![w].lost = @ + 1, ![w].status = "failed"]
        /\ job[w].status \in {"staged", "failed", "posting"}
    BY <1>7 DEF Lose, Ready
  <2>2. Recounted(w, "failed", 1)
    BY <1>1, <2>1 DEF Recounted
  <2>3. QED
    BY <1>2, <2>1, <2>2, RecountsKeep
<1>8. QED
  BY <1>4, <1>5, <1>6, <1>7

\* A dry run tells what the write would do in the store as it is.
LEMMA PreviewsAreTrue ==
  ASSUME AttemptsCounted, VerdictsAreTrue, AnswersAreOfAStore, NEW w \in DOMAIN job, Preview(w)
  PROVE  AttemptsCounted' /\ VerdictsAreTrue' /\ AnswersAreOfAStore'
<1>1. /\ {"status", "times", "lost"} \subseteq DOMAIN job[w] /\ transport' = transport
      /\ job[w].status = "new" /\ transport # "rest"
  BY DEF AttemptsCounted, Preview
<1>2. CASE ~Upsert(store, w, TRUE).ok
  <2>1. job' = [job EXCEPT ![w].status = "refused"]
    BY <1>2 DEF Preview
  <2>2. Recounted(w, "refused", 0)
    BY <1>1, <2>1 DEF Recounted, AttemptsCounted
  <2>3. QED
    BY <1>1, <2>2, RecountsKeep
<1>3. CASE Upsert(store, w, TRUE).ok
  <2> DEFINE new == [status |-> "staged", times |-> 0, lost |-> 0, seen |-> Found(w),
                     foreseen |-> Upsert(store, w, TRUE).written]
  <2>1. DOMAIN job' = DOMAIN job /\ job'[w] = new /\ \A v \in DOMAIN job : v # w => job'[v] = job[v]
    BY <1>3 DEF Preview
  <2>2. Valid(store, w) /\ Upsert(store, w, TRUE).written = Written(store, w)
    BY <1>3, UpsertSays
  <2>3. /\ {"status", "times", "lost"} \subseteq DOMAIN new /\ new.times = 0 /\ new.lost = 0
        /\ new.status = "staged" /\ "found" \notin DOMAIN new /\ "seen" \in DOMAIN new
        /\ new.seen = FoundIn(store, w) /\ new.foreseen = Written(store, w)
    BY <2>2, FoundHere
  <2> HIDE DEF new
  <2>4. Foreseen(w)' /\ Met(w)'
    BY <1>1, <2>1, <2>2, <2>3 DEF Foreseen, Met
  <2>5. QED
    BY <1>1, <2>1, <2>3, <2>4, OthersKeep
<1>4. QED
  BY <1>2, <1>3

\* A write's answer is what the store it met says, and counts as one attempt if it was done.
LEMMA AnswersAreTrue ==
  ASSUME Plan, AttemptsCounted, VerdictsAreTrue, AnswersAreOfAStore, NEW w \in DOMAIN job,
         ToolCall(w) \/ Sync(w) \/ (Patch(w) /\ Found(w) # {}) \/ Post(w)
  PROVE  AttemptsCounted' /\ VerdictsAreTrue' /\ AnswersAreOfAStore'
<1>1. PICK answer : /\ Answered(w, answer, answer) /\ answer.ok \in BOOLEAN
                    /\ transport # "rest" => answer = Upsert(store, w, FALSE)
  <2>1. CASE ToolCall(w) \/ Sync(w)
    <3>1. Answered(w, Upsert(store, w, FALSE), Upsert(store, w, FALSE))
      BY <2>1 DEF ToolCall, Sync, AtOnce
    <3>2. QED
      BY <3>1, UpsertSays
  <2>2. CASE Patch(w) /\ Found(w) # {}
    <3>1. Answered(w, Upsert(store, w, FALSE), Upsert(store, w, FALSE))
      BY <2>2 DEF Patch
    <3>2. QED
      BY <3>1, UpsertSays
  <2>3. CASE Post(w)
    <3> DEFINE ans == IF Found(w) = {} THEN Upsert(store, w, FALSE)
                      ELSE [ok |-> FALSE, store |-> store]
    <3>1. Answered(w, ans, ans) /\ transport = "rest"
      BY <2>3 DEF Post, AttemptsCounted
    <3>2. ans.ok \in BOOLEAN
      BY UpsertSays
    <3>3. QED
      BY <3>1, <3>2
  <2>4. QED
    BY <2>1, <2>2, <2>3
<1>2. transport' = transport /\ job[w].status \in {"staged", "failed", "posting"}
  BY DEF ToolCall, Sync, AtOnce, Patch, Post, Ready
<1>3. /\ {"status", "times", "lost"} \subseteq DOMAIN job[w] /\ Foreseen(w)
      /\ job[w].times \in Nat /\ job[w].lost \in Nat /\ job[w].times = job[w].lost
  BY <1>2 DEF AttemptsCounted, VerdictsAreTrue, AnswersAreOfAStore
<1>4. /\ DOMAIN job' = DOMAIN job /\ \A v \in DOMAIN job : v # w => job'[v] = job[v]
      /\ DOMAIN job'[w] = DOMAIN job[w] \cup {"ok", "found", "wrote"}
      /\ job'[w].status = IF answer.ok THEN "applied" ELSE "failed"
      /\ job'[w].times = job[w].times + (IF answer.ok THEN 1 ELSE 0)
      /\ job'[w].lost = job[w].lost
      /\ job'[w].ok = answer.ok /\ job'[w].found = FoundIn(store, w)
      /\ answer.ok => job'[w].wrote = answer.written
      /\ "seen" \in DOMAIN job[w] => job'[w].seen = job[w].seen
      /\ "foreseen" \in DOMAIN job[w] => job'[w].foreseen = job[w].foreseen
  BY <1>1, AnsweredSays, FoundHere
<1>5. Foreseen(w)'
  BY <1>2, <1>3, <1>4 DEF Foreseen
<1>6. Met(w)'
  <2>1. SUFFICES ASSUME transport # "rest" 
                 PROVE  IF Valid(store, w) THEN job'[w].ok = TRUE /\ job'[w].wrote = Written(store, w)
                        ELSE job'[w].ok = FALSE
    BY <1>2, <1>4 DEF Met
  <2>2. /\ answer.ok = TRUE \/ answer.ok = FALSE
        /\ answer.ok <=> Valid(store, w)
        /\ Valid(store, w) => answer.written = Written(store, w)
    BY <1>1, <2>1, UpsertSays
  <2>3. QED
    BY <1>4, <2>2
<1>7. QED
  BY <1>1, <1>2, <1>3, <1>4, <1>5, <1>6, OthersKeep

-----------------------------------------------------------------------------
\* The pages of a list.
LEMMA ShelfPlaces ==
  ASSUME NEW s
  PROVE  /\ DOMAIN Shelf = 1 .. Len(Shelf) /\ Len(Shelf) \in Nat
         /\ \A i \in DOMAIN Shelf : Shelf[i] \in Products
         /\ Listed(s) \in SUBSET Nat /\ Listed(s) \subseteq DOMAIN Shelf /\ IsFiniteSet(Listed(s))
<1>1. Shelf \in Seq(Products)
  BY ShelfAssumption
<1>2. DOMAIN Shelf = 1 .. Len(Shelf) /\ Len(Shelf) \in Nat
      /\ \A i \in DOMAIN Shelf : Shelf[i] \in Products
  BY <1>1
<1>3. Listed(s) \in SUBSET DOMAIN Shelf
  BY DEF Listed
<1>4. IsFiniteSet(1 .. Len(Shelf))
  BY <1>2, FS_Interval
<1>5. IsFiniteSet(Listed(s))
  BY <1>2, <1>3, <1>4, FS_Subset
<1>6. QED
  BY <1>2, <1>3, <1>5

LEMMA RankOfMore ==
  ASSUME NEW I \in SUBSET Nat, IsFiniteSet(I), NEW K \in SUBSET Nat, IsFiniteSet(K),
         NEW i \in Nat, \A j \in I : j <= i => j \in K
  PROVE  Rank(I, i) \in Nat /\ Rank(K, i) \in Nat /\ Rank(I, i) <= Rank(K, i)
<1> DEFINE a == {j \in I : j <= i}
           b == {j \in K : j <= i}
<1>1. a \in SUBSET b /\ b \in SUBSET K
  OBVIOUS
<1>2. IsFiniteSet(b) /\ Cardinality(b) \in Nat
  BY <1>1, FS_Subset, FS_CardinalityType
<1>3. IsFiniteSet(a) /\ Cardinality(a) \in Nat /\ Cardinality(a) <= Cardinality(b)
  BY <1>1, <1>2, FS_Subset, FS_CardinalityType
<1>4. QED
  BY <1>2, <1>3 DEF Rank

LEMMA PageBounds ==
  ASSUME NEW page \in Nat \ {0}
  PROVE  /\ (page - 1) * PageSize \in Nat /\ page * PageSize \in Nat
         /\ page * PageSize = (page - 1) * PageSize + PageSize
         /\ (page + 1) - 1 = page /\ page + 1 \in Nat \ {0} /\ PageSize \in Nat \ {0}
<1>1. PageSize \in Nat \ {0}
  BY AccessBoundsAssumption
<1>2. \A a, b \in Nat : a * b \in Nat /\ (a + 1) * b = a * b + b
  OBVIOUS
<1>3. page - 1 \in Nat /\ (page - 1) + 1 = page
  OBVIOUS
<1>4. (page - 1) * PageSize \in Nat /\ ((page - 1) + 1) * PageSize = (page - 1) * PageSize + PageSize
  BY <1>1, <1>2, <1>3
<1>5. QED
  BY <1>1, <1>2, <1>3, <1>4

\* A page has at most PageSize rows; a product behind the earlier pages is in it or behind it,
\* and in the latter case the page is not empty and the total is more than was read.
LEMMA PageHolds ==
  ASSUME NEW s, NEW page \in Nat \ {0}
  PROVE  /\ Search(s, PageSize, page).rows \in Seq(Products)
         /\ Len(Search(s, PageSize, page).rows) <= PageSize
         /\ Search(s, PageSize, page).total \in Nat
         /\ \A i \in Listed(s) :
              Rank(Listed(s), i) > (page - 1) * PageSize =>
                \/ Shelf[i] \in ToSet(Search(s, PageSize, page).rows)
                \/ /\ Rank(Listed(s), i) > page * PageSize
                   /\ Search(s, PageSize, page).total > page * PageSize
                   /\ Search(s, PageSize, page).rows # <<>>
<1> DEFINE all == Matching(s)
           n == Cardinality(Listed(s))
           lo == (page - 1) * PageSize
           hi == page * PageSize
           end == IF hi < Len(all) THEN hi ELSE Len(all)
           rows == SubSeq(all, lo + 1, end)
<1>1. lo \in Nat /\ hi \in Nat /\ hi = lo + PageSize /\ PageSize \in Nat \ {0}
  BY PageBounds
<1>2. /\ n \in Nat
      /\ \A i \in Listed(s) : Rank(Listed(s), i) \in 1 .. n /\ Nth(Listed(s), Rank(Listed(s), i)) = i
  BY ShelfPlaces, PlacesByRank
<1>3. all = Picked(Shelf, Listed(s))
  BY DEF Matching, Listed
<1>4. all \in Seq(Products)
  BY <1>3, ShelfPlaces, PickedElements
<1>5. Len(all) = n /\ \A i \in Listed(s) : all[Rank(Listed(s), i)] = Shelf[i]
  <2>1. DOMAIN all = 1 .. n /\ \A k \in 1 .. n : all[k] = Shelf[Nth(Listed(s), k)]
    BY <1>3 DEF Picked
  <2>2. QED
    BY <1>2, <1>4, <2>1
<1>6. Search(s, PageSize, page) = [total |-> Len(all), rows |-> rows]
  BY DEF Search
<1> HIDE DEF all, n, lo, hi
<1>7. /\ rows \in Seq(Products)
      /\ Len(rows) = IF lo + 1 <= end THEN end - lo ELSE 0
      /\ \A k \in 1 .. Len(rows) : rows[k] = all[lo + k]
  <2>1. (lo + 1 \in 1 .. Len(all) + 1 /\ end \in 0 .. Len(all)) \/ lo + 1 > end
    BY <1>1, <1>2, <1>4, <1>5
  <2>2. QED
    BY <1>1, <1>2, <1>4, <1>5, <2>1
<1>8. Len(rows) <= PageSize
  BY <1>1, <1>2, <1>5, <1>7
<1>9. ASSUME NEW i \in Listed(s), Rank(Listed(s), i) > lo
      PROVE  \/ Shelf[i] \in ToSet(rows)
             \/ Rank(Listed(s), i) > hi /\ Len(all) > hi /\ rows # <<>>
  <2> DEFINE r == Rank(Listed(s), i)
  <2>1. r \in 1 .. n /\ all[r] = Shelf[i] /\ r > lo
    BY <1>2, <1>5, <1>9
  <2>2. CASE r <= hi
    <3>1. r - lo \in 1 .. Len(rows) /\ lo + (r - lo) = r
      BY <1>1, <1>2, <1>5, <1>7, <2>1, <2>2
    <3>2. rows[r - lo] = Shelf[i] /\ r - lo \in DOMAIN rows
      BY <1>7, <2>1, <3>1
    <3>3. QED
      BY <3>2 DEF ToSet
  <2>3. CASE r > hi
    <3>1. n > hi /\ Len(rows) = PageSize
      BY <1>1, <1>2, <1>5, <1>7, <2>1, <2>3
    <3>2. QED
      BY <1>1, <1>5, <2>3, <3>1
  <2>4. QED
    BY <1>1, <1>2, <2>1, <2>2, <2>3
<1>10. QED
  BY <1>2, <1>5, <1>6, <1>7, <1>8, <1>9 DEF lo, hi

-----------------------------------------------------------------------------
\* The shop moves, and the refresh notes what was removed: what is awaited stays behind the
\* pages, since nothing before it was removed.
LEMMA ShopMoves ==
  ASSUME RefreshInv, DOMAIN scan' = DOMAIN scan,
         \A f \in DOMAIN scan \ {"came", "gone"} : scan'[f] = scan[f],
         scan.at \notin {"page", "parked"} => scan' = scan,
         scan.at \in {"page", "parked"} =>
           /\ scan.gone \subseteq scan'.gone
           /\ DOMAIN store.product \ scan'.gone \subseteq DOMAIN store'.product
  PROVE  RefreshInv'
<1>1. CASE scan.at \notin {"page", "parked"}
  <2>1. scan' = scan
    BY <1>1
  <2>2. QED
    BY <1>1, <2>1 DEF RefreshInv, ScanInv, BehindThePages, BehindTheParked,
       RefreshMissesOnlyBehindRemoved
<1>2. CASE scan.at \in {"page", "parked"}
  <2>1. /\ ScanFields \subseteq DOMAIN scan /\ "at" \in DOMAIN scan /\ "page" \in DOMAIN scan
        /\ "rows" \in DOMAIN scan /\ "first" \in DOMAIN scan
        /\ scan.at = "parked" => "parked" \in DOMAIN scan
    BY <1>2 DEF RefreshInv, ScanInv, ScanFields
  <2>2. /\ scan'.at = scan.at /\ scan'.page = scan.page /\ scan'.rows = scan.rows
        /\ scan'.first = scan.first
        /\ scan.at = "parked" => scan'.parked = scan.parked
    BY <2>1
  <2>3. ScanInv'
    BY <1>2, <2>1, <2>2 DEF RefreshInv, ScanInv
  <2>4. Awaited' \subseteq Awaited
    BY <1>2, <2>2 DEF Awaited
  <2>5. ASSUME NEW i \in Awaited'
        PROVE  /\ Rank(Listed(store), i) \in Nat /\ Rank(Listed(store'), i) \in Nat
               /\ Rank(Listed(store), i) <= Rank(Listed(store'), i)
    <3>1. i \in DOMAIN Shelf /\ Shelf[i] \notin scan'.gone
          /\ \A j \in 1 .. i - 1 : Shelf[j] \notin scan'.gone
      BY <2>5 DEF Awaited
    <3>2. i \in Nat /\ \A j \in DOMAIN Shelf : j \in Nat \ {0}
      BY <3>1, ShelfPlaces
    <3>3. \A j \in Listed(store) : j <= i => j \in Listed(store')
      <4>1. SUFFICES ASSUME NEW j \in Listed(store), j <= i PROVE j \in Listed(store')
        OBVIOUS
      <4>2. j \in DOMAIN Shelf /\ Shelf[j] \in DOMAIN store.product
        BY DEF Listed
      <4>3. j = i \/ j \in 1 .. i - 1
        BY <3>2, <4>1, <4>2
      <4>4. Shelf[j] \notin scan'.gone
        BY <3>1, <4>3
      <4>5. QED
        BY <1>2, <4>2, <4>4 DEF Listed
    <3>4. QED
      BY <3>2, <3>3, ShelfPlaces, RankOfMore
  <2>6. scan.at \in {"page", "parked"} => (scan.page - 1) * PageSize \in Nat /\ scan.page * PageSize \in Nat
    BY PageBounds DEF RefreshInv, ScanInv
  <2>7. BehindThePages'
    BY <1>2, <2>2, <2>4, <2>5, <2>6 DEF RefreshInv, BehindThePages
  <2>8. BehindTheParked'
    BY <1>2, <2>2, <2>4, <2>5, <2>6 DEF RefreshInv, BehindTheParked
  <2>9. RefreshMissesOnlyBehindRemoved'
    BY <1>2, <2>2 DEF RefreshMissesOnlyBehindRemoved
  <2>10. QED
    BY <2>3, <2>7, <2>8, <2>9 DEF RefreshInv
<1>3. QED
  BY <1>1, <1>2

\* Rows of a result in which each awaited product is, or is behind.
LEMMA ResultsAreCollected ==
  ASSUME RefreshInv, scan.at \in {"page", "parked"}, NEW result, Collected(result),
         UNCHANGED store, result.rows \in Seq(Products), Len(result.rows) <= PageSize,
         result.total \in Nat,
         \A i \in Awaited :
           \/ Shelf[i] \in ToSet(result.rows)
           \/ /\ Rank(Listed(store), i) > scan.page * PageSize
              /\ result.total > scan.page * PageSize /\ result.rows # <<>>
  PROVE  RefreshInv'
<1> DEFINE rows == scan.rows \o result.rows
           end == result.rows = <<>> \/ Len(rows) >= result.total
<1>1. /\ scan.page \in Nat \ {0} /\ scan.rows \in Seq(Products)
      /\ Len(scan.rows) <= (scan.page - 1) * PageSize
      /\ scan.first \ scan.gone \subseteq DOMAIN store.product
  BY DEF RefreshInv, ScanInv
<1>2. /\ (scan.page - 1) * PageSize \in Nat /\ scan.page * PageSize \in Nat
      /\ scan.page * PageSize = (scan.page - 1) * PageSize + PageSize
      /\ (scan.page + 1) - 1 = scan.page /\ scan.page + 1 \in Nat \ {0} /\ PageSize \in Nat \ {0}
  BY <1>1, PageBounds
<1>3. rows \in Seq(Products) /\ ToSet(rows) = ToSet(scan.rows) \cup ToSet(result.rows)
      /\ Len(rows) = Len(scan.rows) + Len(result.rows) /\ Len(scan.rows) \in Nat
      /\ Len(result.rows) \in Nat
  BY <1>1, ElementsJoined
<1>4. scan' = [at |-> IF end THEN "done" ELSE "page", page |-> scan.page + 1, rows |-> rows,
               first |-> scan.first, came |-> scan.came, gone |-> scan.gone]
  BY DEF Collected
<1> HIDE DEF rows
<1>a. ASSUME NEW a \in Nat, NEW b \in Nat, NEW lo \in Nat, NEW hi \in Nat, NEW size \in Nat,
             hi = lo + size, a <= lo, b <= size, NEW c, c = a + b
      PROVE  c <= hi /\ c \in Nat
  BY ONLY <1>a
<1>5. Len(rows) <= scan.page * PageSize /\ Len(rows) \in Nat
  <2>1. Len(scan.rows) \in Nat
    BY <1>3
  <2>2. Len(result.rows) \in Nat
    BY <1>3
  <2>3. Len(rows) = Len(scan.rows) + Len(result.rows)
    BY <1>3
  <2>4. Len(scan.rows) <= (scan.page - 1) * PageSize
    BY <1>1
  <2>5. Len(result.rows) <= PageSize
    OBVIOUS
  <2>6. scan.page * PageSize = (scan.page - 1) * PageSize + PageSize
    BY <1>2
  <2>7. (scan.page - 1) * PageSize \in Nat /\ scan.page * PageSize \in Nat /\ PageSize \in Nat
    BY <1>2
  <2>8. QED
    BY ONLY <2>1, <2>2, <2>3, <2>4, <2>5, <2>6, <2>7, <1>a
<1>6. DOMAIN scan' = ScanFields /\ scan'.page = scan.page + 1 /\ scan'.rows = rows
      /\ scan'.first = scan.first /\ scan'.gone = scan.gone
      /\ scan'.at = IF end THEN "done" ELSE "page"
  BY <1>4 DEF ScanFields
<1>7. Awaited' \subseteq Awaited /\ \A i \in Awaited' : Shelf[i] \notin ToSet(result.rows)
  BY <1>3, <1>6 DEF Awaited
<1>8. \A i \in Awaited' : Rank(Listed(store), i) > scan.page * PageSize /\ ~end
  <2>1. \A a, hi, total \in Nat : a <= hi /\ total > hi => ~(a >= total)
    OBVIOUS
  <2>2. QED
    BY <1>2, <1>5, <1>7, <2>1
<1>9. ScanInv'
  BY <1>1, <1>2, <1>3, <1>5, <1>6 DEF ScanInv
<1>10. BehindThePages' /\ BehindTheParked'
  BY <1>2, <1>6, <1>8 DEF BehindThePages, BehindTheParked
<1>11. RefreshMissesOnlyBehindRemoved'
  <2>1. SUFFICES ASSUME scan'.at = "done", NEW i \in DOMAIN Shelf,
                        Shelf[i] \in scan'.first \ (scan'.gone \cup ToSet(scan'.rows)),
                        ~ \E j \in 1 .. i - 1 : Shelf[j] \in scan'.gone
                 PROVE  FALSE
    BY DEF RefreshMissesOnlyBehindRemoved
  <2>2. i \in Awaited'
    BY <2>1 DEF Awaited
  <2>3. QED
    BY <1>6, <1>8, <2>1, <2>2
<1>12. QED
  BY <1>9, <1>10, <1>11 DEF RefreshInv

\* The steps of a refresh.
LEMMA RefreshKeeps ==
  ASSUME RefreshInv, BeginRefresh \/ ToolPage \/ RestPage \/ Park \/ Collect \/ RefreshFails
  PROVE  RefreshInv'
<1>1. UNCHANGED store
  BY DEF BeginRefresh, ToolPage, RestPage, NextPage, Park, Collect, RefreshFails
<1>2. CASE BeginRefresh
  <2>1. /\ DOMAIN scan' = ScanFields /\ scan'.at = "page" /\ scan'.page = 1 /\ scan'.rows = <<>>
        /\ scan'.first = DOMAIN store.product /\ scan'.gone = {}
    BY <1>2 DEF BeginRefresh, ScanFields
  <2>2. ScanInv'
    BY <1>1, <2>1, PageBounds DEF ScanInv
  <2>3. ASSUME NEW i \in Awaited' PROVE Rank(Listed(store'), i) > (1 - 1) * PageSize
    <3>1. i \in Listed(store)
      BY <2>1, <2>3 DEF Awaited, Listed
    <3>2. Rank(Listed(store), i) \in 1 .. Cardinality(Listed(store))
      BY <3>1, ShelfPlaces, PlacesByRank
    <3>3. Cardinality(Listed(store)) \in Nat
      BY ShelfPlaces, PlacesByRank
    <3>4. (1 - 1) * PageSize = 0
      BY AccessBoundsAssumption
    <3>5. QED
      BY <1>1, <3>2, <3>3, <3>4
  <2>4. QED
    BY <2>1, <2>2, <2>3 DEF RefreshInv, BehindThePages, BehindTheParked,
       RefreshMissesOnlyBehindRemoved
<1>3. CASE ToolPage \/ RestPage
  <2>1. scan.at = "page" /\ Collected(Search(store, PageSize, scan.page))
    BY <1>3 DEF ToolPage, RestPage, NextPage
  <2>2. scan.page \in Nat \ {0} /\ scan.first \ scan.gone \subseteq DOMAIN store.product
    BY <2>1 DEF RefreshInv, ScanInv
  <2>3. \A i \in Awaited : i \in Listed(store) /\ Rank(Listed(store), i) > (scan.page - 1) * PageSize
    BY <2>1, <2>2 DEF RefreshInv, BehindThePages, Awaited, Listed
  <2> DEFINE result == Search(store, PageSize, scan.page)
  <2>4. /\ result.rows \in Seq(Products) /\ Len(result.rows) <= PageSize /\ result.total \in Nat
        /\ \A i \in Awaited :
             \/ Shelf[i] \in ToSet(result.rows)
             \/ /\ Rank(Listed(store), i) > scan.page * PageSize
                /\ result.total > scan.page * PageSize /\ result.rows # <<>>
    BY <2>2, <2>3, PageHolds
  <2> HIDE DEF result
  <2>5. Collected(result)
    BY <2>1 DEF result
  <2>6. QED
    BY <1>1, <2>1, <2>4, <2>5, ResultsAreCollected
<1>4. CASE Park
  <2>1. scan.at = "page" /\ DOMAIN scan = ScanFields /\ scan.page \in Nat \ {0}
        /\ scan.first \ scan.gone \subseteq DOMAIN store.product
    BY <1>4 DEF Park, RefreshInv, ScanInv
  <2> DEFINE result == Search(store, PageSize, scan.page)
  <2>2. /\ DOMAIN scan' = ScanFields \cup {"parked"} /\ scan'.at = "parked"
        /\ scan'.parked = result /\ scan'.page = scan.page /\ scan'.rows = scan.rows
        /\ scan'.first = scan.first /\ scan'.gone = scan.gone
    BY <1>4, <2>1 DEF Park, ScanFields
  <2>3. \A i \in Awaited : i \in Listed(store) /\ Rank(Listed(store), i) > (scan.page - 1) * PageSize
    BY <2>1 DEF RefreshInv, BehindThePages, Awaited, Listed
  <2>4. /\ result.rows \in Seq(Products) /\ Len(result.rows) <= PageSize /\ result.total \in Nat
        /\ \A i \in Awaited :
             \/ Shelf[i] \in ToSet(result.rows)
             \/ /\ Rank(Listed(store), i) > scan.page * PageSize
                /\ result.total > scan.page * PageSize /\ result.rows # <<>>
    BY <2>1, <2>3, PageHolds
  <2> HIDE DEF result
  <2>5. Awaited' = Awaited
    BY <2>2 DEF Awaited
  <2>6. QED
    BY <1>1, <2>1, <2>2, <2>4, <2>5 DEF RefreshInv, ScanInv, BehindThePages, BehindTheParked,
       RefreshMissesOnlyBehindRemoved
<1>5. CASE Collect
  <2>1. scan.at = "parked" /\ Collected(scan.parked)
    BY <1>5 DEF Collect
  <2>2. /\ scan.parked.rows \in Seq(Products) /\ Len(scan.parked.rows) <= PageSize
        /\ scan.parked.total \in Nat
        /\ \A i \in Awaited :
             \/ Shelf[i] \in ToSet(scan.parked.rows)
             \/ /\ Rank(Listed(store), i) > scan.page * PageSize
                /\ scan.parked.total > scan.page * PageSize /\ scan.parked.rows # <<>>
    BY <2>1 DEF RefreshInv, ScanInv, BehindTheParked
  <2>3. QED
    BY <1>1, <2>1, <2>2, ResultsAreCollected
<1>6. CASE RefreshFails
  <2>1. scan'.at = "none"
    BY <1>6 DEF RefreshFails, NoScan
  <2>2. QED
    BY <2>1 DEF RefreshInv, ScanInv, BehindThePages, BehindTheParked,
       RefreshMissesOnlyBehindRemoved
<1>7. QED
  BY <1>2, <1>3, <1>4, <1>5, <1>6

-----------------------------------------------------------------------------
\* The writes and the roll-back leave every table and every product where it is.
LEMMA WritesLeaveTheShelf ==
  ASSUME Plan, AttemptsCounted, StoreShape, NEW w \in DOMAIN job,
         \/ Preview(w) \/ RestPreview(w)
         \/ ToolCall(w) \/ Sync(w) \/ Patch(w) \/ Post(w) \/ Lose(w) \/ Rollback(w)
  PROVE  /\ StoreShape' /\ DOMAIN store.product \subseteq DOMAIN store'.product
         /\ scan' = scan /\ index' = index /\ DOMAIN job' = DOMAIN job
<1>1. scan' = scan /\ index' = index
  BY DEF Preview, RestPreview, ToolCall, Sync, AtOnce, Patch, Post, Lose, Rollback
<1>2. DOMAIN job' = DOMAIN job
  BY DEF Preview, RestPreview, ToolCall, Sync, AtOnce, Patch, Post, Lose, Rollback, Answered
<1>3. w.entity \in Entities
  BY PlansAssumption DEF Plan, Entities
<1>4. store' = store \/ store' = Persist(store, w) \/ Rollback(w)
  <2>1. \A dry \in BOOLEAN : Upsert(store, w, dry).store \in {store, Persist(store, w)}
    BY UpsertSays
  <2>2. CASE Preview(w) \/ RestPreview(w)
    BY <2>2 DEF Preview, RestPreview
  <2>3. CASE ToolCall(w) \/ Sync(w)
    BY <2>1, <2>3 DEF ToolCall, Sync, AtOnce, Answered
  <2>4. CASE Patch(w)
    BY <2>1, <2>4 DEF Patch, Answered
  <2>5. CASE Post(w)
    <3> DEFINE ans == IF Found(w) = {} THEN Upsert(store, w, FALSE)
                      ELSE [ok |-> FALSE, store |-> store]
    <3>1. store' = ans.store
      BY <2>5 DEF Post, Answered
    <3>2. QED
      BY <2>1, <3>1
  <2>6. CASE Lose(w)
    BY <2>1, <2>6 DEF Lose
  <2>7. QED
    BY <2>2, <2>3, <2>4, <2>5, <2>6
<1>5. CASE store' = store
  BY <1>1, <1>2, <1>5 DEF StoreShape
<1>6. CASE store' = Persist(store, w)
  BY <1>1, <1>2, <1>3, <1>6, WritesAdd DEF StoreShape
<1>7. CASE Rollback(w)
  <2>1. store' = WithoutPromotion(store, w.id) \/ store' = WithoutRule(store, w.id)
    BY <1>7 DEF Rollback
  <2>2. DOMAIN store' = DOMAIN store /\ store'.product = store.product
    <3>1. CASE store' = WithoutPromotion(store, w.id)
      BY <3>1 DEF WithoutPromotion
    <3>2. CASE store' = WithoutRule(store, w.id)
      BY <3>2 DEF WithoutRule
    <3>3. QED
      BY <2>1, <3>1, <3>2
  <2>3. QED
    BY <1>1, <1>2, <2>2 DEF StoreShape
<1>8. QED
  BY <1>4, <1>5, <1>6, <1>7

\* Staff add and withdraw products, and the refresh notes it.
LEMMA StaffKeep ==
  ASSUME StoreShape, RefreshInv, NEW p, Add(p) \/ Withdraw(p)
  PROVE  StoreShape' /\ RefreshInv'
<1>1. PICK came, gone :
        /\ Noted(came, gone)
        /\ DOMAIN store' = DOMAIN store
        /\ DOMAIN store.product \ gone \subseteq DOMAIN store'.product
  <2>1. CASE Add(p)
    <3> DEFINE row == [id |-> p, set |-> 0]
    <3>1. Noted({p}, {}) /\ store' = PersistProducts(store, {row})
      BY <2>1 DEF Add
    <3>2. DOMAIN store' = DOMAIN store /\ DOMAIN store.product \subseteq DOMAIN store'.product
      BY <3>1 DEF PersistProducts, StoreShape
    <3>3. QED
      BY <3>1, <3>2
  <2>2. CASE Withdraw(p)
    <3>1. Noted({}, {p}) /\ store' = WithoutProduct(store, p)
      BY <2>2 DEF Withdraw
    <3>2. DOMAIN store' = DOMAIN store /\ DOMAIN store.product \ {p} \subseteq DOMAIN store'.product
      BY <3>1 DEF WithoutProduct, StoreShape
    <3>3. QED
      BY <3>1, <3>2
  <2>3. QED
    BY <2>1, <2>2
<1>2. StoreShape'
  BY <1>1 DEF StoreShape
<1>3. CASE scan.at \notin {"page", "parked"}
  <2>1. scan' = scan
    BY <1>1, <1>3 DEF Noted
  <2>2. QED
    BY <1>2, <1>3, <2>1, ShopMoves
<1>4. CASE scan.at \in {"page", "parked"}
  <2>1. scan' = [scan EXCEPT !.came = @ \cup came, !.gone = @ \cup gone]
    BY <1>1, <1>4 DEF Noted
  <2>2. {"came", "gone"} \subseteq DOMAIN scan
    BY <1>4 DEF RefreshInv, ScanInv, ScanFields
  <2>3. /\ DOMAIN scan' = DOMAIN scan /\ scan'.gone = scan.gone \cup gone
        /\ \A f \in DOMAIN scan \ {"came", "gone"} : scan'[f] = scan[f]
    BY <2>1, <2>2
  <2>4. scan.gone \subseteq scan'.gone
        /\ DOMAIN store.product \ scan'.gone \subseteq DOMAIN store'.product
    BY <1>1, <2>3
  <2>5. RefreshInv'
    BY <1>4, <2>3, <2>4, ShopMoves
  <2>6. QED
    BY <1>2, <2>5
<1>5. QED
  BY <1>3, <1>4

\* What is known of the payloads does not depend on the refresh or on staff.
LEMMA JobsKeep ==
  ASSUME UNCHANGED <<job, transport>>, Plan, AttemptsCounted, VerdictsAreTrue, AnswersAreOfAStore
  PROVE  Plan' /\ AttemptsCounted' /\ VerdictsAreTrue' /\ AnswersAreOfAStore'
BY DEF Plan, AttemptsCounted, VerdictsAreTrue, AnswersAreOfAStore, Foreseen, Met

LEMMA AccessKeeps ==
  ASSUME AccessInv, Next
  PROVE  AccessInv'
<1>1. Plan /\ AttemptsCounted /\ VerdictsAreTrue /\ AnswersAreOfAStore /\ StoreShape /\ RefreshInv
  BY DEF AccessInv
<1>2. ASSUME NEW w \in DOMAIN job,
             \/ Preview(w) \/ RestPreview(w)
             \/ ToolCall(w) \/ Sync(w) \/ Patch(w) \/ Post(w) \/ Lose(w) \/ Rollback(w)
      PROVE  AccessInv'
  <2>1. /\ StoreShape' /\ DOMAIN store.product \subseteq DOMAIN store'.product
        /\ scan' = scan /\ DOMAIN job' = DOMAIN job
    BY <1>1, <1>2, WritesLeaveTheShelf
  <2>2. RefreshInv'
    <3>1. DOMAIN scan' = DOMAIN scan /\ \A f \in DOMAIN scan \ {"came", "gone"} : scan'[f] = scan[f]
      BY <2>1
    <3>2. scan.gone \subseteq scan'.gone
          /\ DOMAIN store.product \ scan'.gone \subseteq DOMAIN store'.product
      BY <2>1
    <3>3. QED
      BY <1>1, <2>1, <3>1, <3>2, ShopMoves
  <2>3. AttemptsCounted' /\ VerdictsAreTrue' /\ AnswersAreOfAStore'
    <3>1. CASE RestPreview(w) \/ Lose(w) \/ Rollback(w) \/ (Patch(w) /\ Found(w) = {})
      BY <1>1, <3>1, MarksAreKept
    <3>2. CASE Preview(w)
      BY <1>1, <3>2, PreviewsAreTrue
    <3>3. CASE ToolCall(w) \/ Sync(w) \/ (Patch(w) /\ Found(w) # {}) \/ Post(w)
      BY <1>1, <3>3, AnswersAreTrue
    <3>4. QED
      BY <1>2, <3>1, <3>2, <3>3
  <2>4. Plan'
    BY <1>1, <2>1 DEF Plan
  <2>5. QED
    BY <2>1, <2>2, <2>3, <2>4 DEF AccessInv
<1>3. CASE BeginRefresh \/ ToolPage \/ RestPage \/ Park \/ Collect \/ RefreshFails
  <2>1. UNCHANGED <<job, transport, store>>
    BY <1>3 DEF BeginRefresh, ToolPage, RestPage, NextPage, Park, Collect, RefreshFails
  <2>2. RefreshInv'
    BY <1>1, <1>3, RefreshKeeps
  <2>3. QED
    BY <1>1, <2>1, <2>2, JobsKeep DEF AccessInv, StoreShape
<1>4. ASSUME NEW p \in Products, Add(p) \/ Withdraw(p) PROVE AccessInv'
  <2>1. UNCHANGED <<job, transport>>
    BY <1>4 DEF Add, Withdraw
  <2>2. StoreShape' /\ RefreshInv'
    BY <1>1, <1>4, StaffKeep
  <2>3. QED
    BY <1>1, <2>1, <2>2, JobsKeep DEF AccessInv
<1>5. QED
  BY <1>2, <1>3, <1>4 DEF Next

\* The strengthening is an invariant of both transports and of the refresh.
LEMMA AccessIsSafe == Spec => []AccessInv
<1>1. Init => AccessInv
  <2> SUFFICES ASSUME Init PROVE AccessInv
    OBVIOUS
  <2>1. PICK plan \in Plans : job = [w \in plan |-> NewJob]
    BY DEF Init
  <2>2. \A w \in DOMAIN job : job[w] = NewJob /\ DOMAIN job[w] = {"status", "times", "lost"}
    BY <2>1 DEF NewJob
  <2>3. Plan /\ AttemptsCounted /\ VerdictsAreTrue
    BY <2>1, <2>2 DEF Plan, AttemptsCounted, VerdictsAreTrue, NewJob
  <2>4. AnswersAreOfAStore
    BY <2>2 DEF AnswersAreOfAStore, Foreseen, Met
  <2>5. StoreShape
    BY DEF Init, EmptyStore, StoreShape
  <2>6. RefreshInv
    BY DEF Init, NoScan, RefreshInv, ScanInv, BehindThePages, BehindTheParked,
       RefreshMissesOnlyBehindRemoved
  <2>7. QED
    BY <2>3, <2>4, <2>5, <2>6 DEF AccessInv
<1>2. AccessInv /\ [Next]_vars => AccessInv'
  <2>1. ASSUME AccessInv, Next PROVE AccessInv'
    BY <2>1, AccessKeeps
  <2>2. ASSUME AccessInv, UNCHANGED vars PROVE AccessInv'
    <3>1. UNCHANGED <<job, transport, store, scan>>
      BY <2>2 DEF vars
    <3>2. RefreshInv'
      BY <2>2, <3>1 DEF AccessInv, RefreshInv, ScanInv, BehindThePages, BehindTheParked,
         RefreshMissesOnlyBehindRemoved, Awaited
    <3>3. QED
      BY <2>2, <3>1, <3>2, JobsKeep DEF AccessInv, StoreShape
  <2>3. QED
    BY <2>1, <2>2
<1>3. QED
  BY <1>1, <1>2, PTL DEF Spec

(* Of the attempts to write a payload, exactly those were performed whose  *)
(* answer was lost and the one reported as applied, for any payloads,      *)
(* transports and lost answers (AdminTransport.upsert).                    *)
THEOREM VerdictsHold == Spec => []VerdictsAreTrue
<1>1. AccessInv => VerdictsAreTrue
  BY DEF AccessInv
<1>2. QED
  BY <1>1, AccessIsSafe, PTL

(* A payload that was previewed is written as it was previewed, for any    *)
(* store, as long as what it refers to is there or not there as it was:    *)
(* FakeAdmin validates and reports from nothing else.                      *)
THEOREM PreviewsHold == Spec => []PreviewForesees
<1>1. AccessInv => PreviewForesees
  <2> SUFFICES ASSUME AccessInv, NEW w \in DOMAIN job, {"foreseen", "found"} \subseteq DOMAIN job[w],
                      job[w].seen = job[w].found
               PROVE  job[w].ok /\ job[w].wrote = job[w].foreseen
    BY DEF PreviewForesees
  <2>1. w.entity \in Entities
    BY PlansAssumption DEF AccessInv, Plan, Entities
  <2>2. Foreseen(w) /\ Met(w)
    BY DEF AccessInv, AnswersAreOfAStore
  <2>3. PICK s : FoundIn(s, w) = job[w].seen /\ Valid(s, w) /\ Written(s, w) = job[w].foreseen
    BY <2>2 DEF Foreseen
  <2>4. PICK t : /\ FoundIn(t, w) = job[w].found
                 /\ IF Valid(t, w) THEN job[w].ok = TRUE /\ job[w].wrote = Written(t, w)
                    ELSE job[w].ok = FALSE
    BY <2>2 DEF Foreseen, Met
  <2>5. Valid(t, w) /\ Written(s, w) = Written(t, w)
    BY <2>1, <2>3, <2>4, VerdictDependsOnFound
  <2>6. QED
    BY <2>3, <2>4, <2>5
<1>2. QED
  BY <1>1, AccessIsSafe, PTL

(* A refresh of the catalog passes over a product that was there all the   *)
(* time only behind one that was removed meanwhile, for any shelf, size of *)
(* a page and number of edits, parked pages included (CatalogCache.refresh).*)
THEOREM RefreshesAreComplete == Spec => []RefreshMissesOnlyBehindRemoved
<1>1. AccessInv => RefreshMissesOnlyBehindRemoved
  BY DEF AccessInv, RefreshInv
<1>2. QED
  BY <1>1, AccessIsSafe, PTL

-----------------------------------------------------------------------------
(***************************************************************************)
(* ConsoleApproval: a mark exists while the turn of its own yes runs, and  *)
(* what the console has not asked about is in its list or was met late.    *)
(***************************************************************************)

\* No mark outside the turn of the yes that made it.
MarkIsOfThisTurn ==
  /\ phase \in {"asking", "applying"} => mode = "console"
  /\ phase = "applying" => approved \subseteq {asked}
  /\ phase # "applying" => approved = {}

\* The conversation knows changes that exist.
MetExist == \A c \in ToSet(seen) : ledger[c] # "none"

\* A no is remembered as the operator's last word.
NoIsTheirs == \A c \in declined : said[c] = "no"

\* While questions are asked, each staged change had its question or is in the list or is late.
ListIsComplete ==
  mode = "console" /\ phase \in {"prompt", "asking", "applying"} =>
    \A c \in ToSet(seen) \ late :
      ledger[c] = "staged" =>
        said[c] # "nothing" \/ (phase # "prompt" /\ c \in ToSet(queue))

ConsoleInv == ConsoleTypeOK /\ MarkIsOfThisTurn /\ MetExist /\ NoIsTheirs /\ ListIsComplete

TurnType ==
  [requested : BOOLEAN, staged : BOOLEAN, reminded : BOOLEAN,
   tried : SUBSET Changes, now : SUBSET Changes]

\* Meeting changes adds them, in some order.
LEMMA MeetAdds ==
  ASSUME ConsoleTypeOK, NEW cs \in SUBSET Changes, Meet(cs)
  PROVE  /\ seen' \in Seq(Changes) /\ ToSet(seen') = ToSet(seen) \cup cs
         /\ late' \in SUBSET Changes
         /\ phase = "applying" => late' = late \cup (cs \ ToSet(seen))
         /\ phase # "applying" => late' = late
<1> DEFINE new == cs \ ToSet(seen)
<1>1. IsFiniteSet(new) /\ new \subseteq Changes
  BY ConsoleAssumption, FS_Subset
<1>2. SetToSeq(new) \in Seq(new) /\ ToSet(SetToSeq(new)) = new
  BY <1>1, SetAsSequence
<1>3. SetToSeq(new) \in Seq(Changes)
  BY <1>1, <1>2
<1>4. seen \in Seq(Changes) /\ seen' = seen \o SetToSeq(new)
  BY DEF ConsoleTypeOK, Meet
<1>5. seen' \in Seq(Changes) /\ ToSet(seen') = ToSet(seen) \cup new
  <2> HIDE DEF new
  <2>1. /\ seen \o SetToSeq(new) \in Seq(Changes)
        /\ ToSet(seen \o SetToSeq(new)) = ToSet(seen) \cup ToSet(SetToSeq(new))
    BY ONLY <1>3, <1>4, ElementsJoined
  <2>2. QED
    BY <1>2, <1>4, <2>1
<1>6. QED
  BY <1>1, <1>5 DEF ConsoleTypeOK, Meet

\* The list of questions has what is staged, met and without a mark.
LEMMA PendingWaits ==
  ASSUME ConsoleTypeOK
  PROVE  /\ Pending \in Seq(Changes)
         /\ ToSet(Pending) = {c \in ToSet(seen) : ledger[c] = "staged" /\ c \notin approved}
<1> DEFINE I == {i \in DOMAIN seen : ledger[seen[i]] = "staged" /\ seen[i] \notin approved}
<1>1. seen \in Seq(Changes) /\ DOMAIN seen = 1 .. Len(seen) /\ Len(seen) \in Nat
  BY DEF ConsoleTypeOK
<1>2. I \in SUBSET (1 .. Len(seen)) /\ IsFiniteSet(1 .. Len(seen))
  BY <1>1, FS_Interval
<1>3. I \in SUBSET Nat /\ IsFiniteSet(I)
  BY <1>2, FS_Subset
<1>4. \A i \in I : seen[i] \in Changes
  BY <1>1
<1>5. Pending = Picked(seen, I)
  BY DEF Pending
<1>6. Pending \in Seq(Changes) /\ ToSet(Pending) = {seen[i] : i \in I}
  BY <1>3, <1>4, <1>5, PickedElements
<1>7. QED
  BY <1>6 DEF ToSet

\* Every step keeps the types.
LEMMA ConsoleKeepsTypes ==
  ASSUME ConsoleTypeOK, ConsoleNext
  PROVE  ConsoleTypeOK'
<1> USE ConsoleAssumption DEF ConsoleTypeOK
<1>1. NoTurn \in TurnType /\ \A b \in BOOLEAN : [NoTurn EXCEPT !.requested = b] \in TurnType
  BY DEF NoTurn, TurnType
<1>2. turn \in TurnType
  BY DEF TurnType
<1>3. CASE Start \/ Leave \/ AllAsked \/ ChatGoesOn \/ OnceEnds
  <2>1. CASE Start
    BY <2>1 DEF Start, NewToolset
  <2>2. CASE Leave \/ AllAsked
    BY <2>2 DEF Leave, AllAsked, Session
  <2>3. CASE ChatGoesOn \/ OnceEnds
    BY <1>1, <2>3 DEF ChatGoesOn, OnceEnds, Session, TurnIsOver, TurnType
  <2>4. QED
    BY <1>3, <2>1, <2>2, <2>3
<1>4. CASE Say
  BY <1>1, <1>4 DEF Say, Session, TurnType
<1>5. ASSUME NEW c \in Changes, Stage(c) PROVE ConsoleTypeOK'
  <2>1. [turn EXCEPT !.staged = TRUE] \in TurnType
    BY <1>2 DEF TurnType
  <2>2. seen' \in Seq(Changes) /\ late' \in SUBSET Changes
    BY <1>5, MeetAdds DEF Stage
  <2>3. ledger' \in [Changes -> {"none", "staged", "applied", "discarded"}]
    BY <1>5 DEF Stage
  <2>4. QED
    BY <1>5, <2>1, <2>2, <2>3 DEF Stage, TurnType
<1>6. ASSUME NEW c \in Changes, DiscardChange(c) \/ ApplyChange(c) PROVE ConsoleTypeOK'
  <2>1. [turn EXCEPT !.now = @ \cup {c}] \in TurnType
    BY <1>2 DEF TurnType
  <2>2. ledger' \in [Changes -> {"none", "staged", "applied", "discarded"}]
    BY <1>6 DEF DiscardChange, ApplyChange
  <2>3. turn' \in TurnType
    BY <1>2, <1>6, <2>1 DEF DiscardChange, ApplyChange
  <2>4. QED
    BY <1>6, <2>2, <2>3 DEF DiscardChange, ApplyChange, Session, TurnType
<1>7. CASE ReadPending
  <2>1. seen' \in Seq(Changes) /\ late' \in SUBSET Changes
    BY <1>7, MeetAdds DEF ReadPending
  <2>2. QED
    BY <1>7, <2>1 DEF ReadPending
<1>8. CASE Remind
  <2>1. turn' \in TurnType
    BY <1>2, <1>8 DEF Remind, TurnType
  <2>2. QED
    BY <1>8, <2>1 DEF Remind, Session, TurnType
<1>9. CASE DrawUpQuestions
  <2>1. Pending \in Seq(Changes)
    BY PendingWaits
  <2>2. QED
    BY <1>1, <1>9, <2>1 DEF DrawUpQuestions, TurnIsOver, Reopen, TurnType
<1>10. CASE ApprovedTurnEnds \/ TurnFails
  BY <1>1, <1>10 DEF ApprovedTurnEnds, TurnFails, HostClear, TurnType
<1>11. CASE PassOver \/ AnswerYes \/ AnswerNo
  <2>1. Head(queue) \in Changes /\ Tail(queue) \in Seq(Changes)
    BY <1>11, HeadAndRest DEF PassOver, AnswerYes, AnswerNo, Ask
  <2>2. CASE PassOver
    BY <2>1, <2>2 DEF PassOver
  <2>3. CASE AnswerYes
    BY <1>1, <2>1, <2>3 DEF AnswerYes, TurnType
  <2>4. CASE AnswerNo
    BY <2>1, <2>4 DEF AnswerNo
  <2>5. QED
    BY <1>11, <2>2, <2>3, <2>4
<1>12. QED
  BY <1>3, <1>4, <1>5, <1>6, <1>7, <1>8, <1>9, <1>10, <1>11 DEF ConsoleNext

\* Marks are made by a yes and gone with its turn.
LEMMA MarksKeep ==
  ASSUME MarkIsOfThisTurn, ConsoleNext
  PROVE  MarkIsOfThisTurn'
<1> USE DEF MarkIsOfThisTurn
<1>1. CASE Start \/ Leave \/ AllAsked \/ ChatGoesOn \/ OnceEnds \/ Say
  BY <1>1 DEF Start, Leave, AllAsked, ChatGoesOn, OnceEnds, NewToolset, Session, TurnIsOver, Say
<1>2. ASSUME NEW c \in Changes, Stage(c) \/ DiscardChange(c) \/ ApplyChange(c)
      PROVE  MarkIsOfThisTurn'
  BY <1>2 DEF Stage, DiscardChange, ApplyChange, Session
<1>3. CASE ReadPending \/ Remind \/ DrawUpQuestions
  BY <1>3 DEF ReadPending, Remind, DrawUpQuestions, Session, TurnIsOver
<1>4. CASE ApprovedTurnEnds \/ TurnFails
  BY <1>4 DEF ApprovedTurnEnds, TurnFails, HostClear, Working
<1>5. CASE PassOver \/ AnswerNo
  BY <1>5 DEF PassOver, AnswerNo, Ask
<1>6. CASE AnswerYes
  <2>1. approved = {} /\ approved' = {Head(queue)} /\ asked' = Head(queue) /\ mode' = mode
        /\ phase' = "applying" /\ phase = "asking"
    BY <1>6 DEF AnswerYes, Ask
  <2>2. QED
    BY <2>1
<1>7. QED
  BY <1>1, <1>2, <1>3, <1>4, <1>5, <1>6 DEF ConsoleNext

\* What is met is in the ledger.
LEMMA MetKeeps ==
  ASSUME ConsoleTypeOK, MetExist, ConsoleNext
  PROVE  MetExist'
<1> USE DEF MetExist
<1>1. ledger \in [Changes -> {"none", "staged", "applied", "discarded"}]
  BY DEF ConsoleTypeOK
<1>2. CASE Start
  BY <1>2, EmptyHasNone DEF Start, NewToolset
<1>3. ASSUME NEW c \in Changes, Stage(c) PROVE MetExist'
  <2>1. CASE ledger' = [ledger EXCEPT ![c] = "staged"] /\ Meet({c})
    <3>1. ToSet(seen') = ToSet(seen) \cup {c}
      BY <2>1, MeetAdds
    <3>2. ledger'[c] = "staged" /\ \A d : d # c => ledger'[d] = ledger[d]
      BY <1>1, <2>1
    <3>3. QED
      BY <3>1, <3>2
  <2>2. CASE UNCHANGED <<ledger, seen>>
    BY <2>2
  <2>3. QED
    BY <1>3, <2>1, <2>2 DEF Stage
<1>4. ASSUME NEW c \in Changes, DiscardChange(c) \/ ApplyChange(c) PROVE MetExist'
  <2>1. seen' = seen
    BY <1>4 DEF DiscardChange, ApplyChange, Session
  <2>2. \A d \in Changes : ledger'[d] = ledger[d] \/ ledger'[d] \in {"applied", "discarded"}
    BY <1>1, <1>4 DEF DiscardChange, ApplyChange
  <2>3. ToSet(seen) \subseteq Changes
    BY ElementsTyped DEF ConsoleTypeOK
  <2>4. QED
    BY <2>1, <2>2, <2>3
<1>5. CASE ReadPending
  <2>1. ToSet(seen') = ToSet(seen) \cup {c \in Changes : ledger[c] = "staged"}
    BY <1>5, MeetAdds DEF ReadPending
  <2>2. QED
    BY <1>5, <2>1 DEF ReadPending
<1>6. CASE UNCHANGED <<ledger, seen>>
  BY <1>6
<1>7. QED
  BY <1>2, <1>3, <1>4, <1>5, <1>6 DEF ConsoleNext, Say, Leave, Remind, DrawUpQuestions, ChatGoesOn,
     OnceEnds, ApprovedTurnEnds, TurnFails, PassOver, AnswerYes, AnswerNo, AllAsked, Session

\* A no stays the last word until the model tries again.
LEMMA NoKeeps ==
  ASSUME ConsoleTypeOK, NoIsTheirs, ConsoleNext
  PROVE  NoIsTheirs'
<1> USE DEF NoIsTheirs
<1>1. said \in [Changes -> {"nothing", "yes", "no"}] /\ declined \in SUBSET Changes
      /\ queue \in Seq(Changes)
  BY DEF ConsoleTypeOK
<1>2. CASE Start
  BY <1>2 DEF Start, NewToolset
<1>3. CASE DrawUpQuestions
  BY <1>1, <1>3 DEF DrawUpQuestions, Reopen
<1>4. CASE AnswerYes \/ AnswerNo
  <2>1. Head(queue) \in Changes
    BY <1>1, <1>4, HeadAndRest DEF AnswerYes, AnswerNo, Ask
  <2>2. QED
    BY <1>1, <1>4, <2>1 DEF AnswerYes, AnswerNo
<1>5. CASE UNCHANGED <<declined, said>>
  BY <1>5
<1>6. ASSUME NEW c \in Changes, Stage(c) \/ DiscardChange(c) \/ ApplyChange(c)
      PROVE  UNCHANGED <<declined, said>>
  BY <1>6 DEF Stage, DiscardChange, ApplyChange, Session
<1>7. QED
  BY <1>2, <1>3, <1>4, <1>5, <1>6 DEF ConsoleNext, Say, Leave, ReadPending, Remind, ChatGoesOn,
     OnceEnds, ApprovedTurnEnds, TurnFails, PassOver, AllAsked, Session

\* What is staged and met has had its question, waits for it, or is late.
LEMMA ListKeeps ==
  ASSUME ConsoleInv, ConsoleNext
  PROVE  ListIsComplete'
<1> SUFFICES ASSUME mode' = "console", phase' \in {"prompt", "asking", "applying"},
                    NEW d, d \in ToSet(seen') \ late', ledger'[d] = "staged"
             PROVE  said'[d] # "nothing" \/ (phase' # "prompt" /\ d \in ToSet(queue'))
  BY DEF ListIsComplete
<1> USE DEF ListIsComplete
<1>1. /\ said \in [Changes -> {"nothing", "yes", "no"}] /\ queue \in Seq(Changes)
      /\ ledger \in [Changes -> {"none", "staged", "applied", "discarded"}]
      /\ ConsoleTypeOK /\ ListIsComplete /\ MetExist /\ NoIsTheirs /\ MarkIsOfThisTurn
  BY DEF ConsoleInv, ConsoleTypeOK
<1>d. d \in Changes
  <2>1. seen' \in Seq(Changes)
    BY <1>1, ConsoleKeepsTypes DEF ConsoleTypeOK
  <2>2. QED
    BY <2>1, ElementsTyped
<1>2. CASE Start
  BY <1>2, EmptyHasNone DEF Start, NewToolset
<1>3. CASE Say \/ ChatGoesOn \/ OnceEnds \/ TurnFails \/ Leave
  BY <1>3 DEF Say, ChatGoesOn, OnceEnds, TurnFails, Leave, TurnIsOver
<1>4. ASSUME NEW c \in Changes, Stage(c) PROVE d \in ToSet(queue) \/ said[d] # "nothing"
  <2>1. phase = "applying" /\ mode = "console"
    BY <1>4 DEF Stage, Working
  <2>2. CASE ledger' = [ledger EXCEPT ![c] = "staged"] /\ Meet({c})
    <3>1. ToSet(seen') = ToSet(seen) \cup {c} /\ late' = late \cup ({c} \ ToSet(seen))
      BY <1>1, <2>1, <2>2, MeetAdds
    <3>2. c \notin ToSet(seen)
      BY <1>1, <1>4 DEF Stage, MetExist
    <3>3. d # c /\ d \in ToSet(seen) \ late /\ ledger[d] = "staged"
      BY <1>1, <2>2, <3>1, <3>2
    <3>4. QED
      BY <1>1, <2>1, <3>3
  <2>3. CASE UNCHANGED <<ledger, seen, late>>
    BY <1>1, <2>1, <2>3
  <2>4. QED
    BY <1>4, <2>2, <2>3 DEF Stage
<1>5. ASSUME NEW c \in Changes, DiscardChange(c) \/ ApplyChange(c)
      PROVE  d \in ToSet(queue) \/ said[d] # "nothing"
  <2>1. phase = "applying" /\ mode = "console" /\ UNCHANGED <<seen, late>>
    BY <1>1, <1>5 DEF DiscardChange, ApplyChange, Working, Session
  <2>2. ledger[d] = "staged"
    BY <1>1, <1>d, <1>5 DEF DiscardChange, ApplyChange
  <2>3. QED
    BY <1>1, <2>1, <2>2
<1>6. CASE ReadPending
  <2>1. phase = "applying" /\ mode = "console" /\ UNCHANGED <<ledger, said, queue, phase>>
    BY <1>6 DEF ReadPending, Working
  <2>2. d \in ToSet(seen) \ late
    BY <1>1, <1>6, <2>1, MeetAdds DEF ReadPending
  <2>3. QED
    BY <1>1, <2>1, <2>2
<1>7. CASE Remind \/ ApprovedTurnEnds
  BY <1>1, <1>7 DEF Remind, ApprovedTurnEnds, Session, Working
<1>8. CASE DrawUpQuestions
  <2>1. approved = {} /\ UNCHANGED <<ledger, seen>> /\ queue' = Pending /\ phase' = "asking"
    BY <1>1, <1>8 DEF DrawUpQuestions, TurnIsOver, MarkIsOfThisTurn
  <2>2. d \in ToSet(Pending)
    BY <1>1, <2>1, PendingWaits
  <2>3. QED
    BY <2>1, <2>2
<1>9. CASE PassOver \/ AnswerYes \/ AnswerNo
  <2>1. phase = "asking" /\ mode = "console" /\ UNCHANGED <<ledger, seen, late>>
        /\ queue' = Tail(queue) /\ queue # <<>> /\ phase' # "prompt"
    BY <1>1, <1>9 DEF PassOver, AnswerYes, AnswerNo, Ask, MarkIsOfThisTurn
  <2>2. ToSet(queue) = {Head(queue)} \cup ToSet(queue') /\ Head(queue) \in Changes
    BY <1>1, <2>1, HeadAndRest
  <2>3. said'[Head(queue)] # "nothing"
    <3>1. CASE PassOver
      BY <1>1, <3>1 DEF PassOver, NoIsTheirs
    <3>2. CASE AnswerYes \/ AnswerNo
      BY <1>1, <2>2, <3>2 DEF AnswerYes, AnswerNo
    <3>3. QED
      BY <1>9, <3>1, <3>2
  <2>4. said[d] # "nothing" => said'[d] # "nothing"
    BY <1>1, <1>d, <1>9, <2>2 DEF PassOver, AnswerYes, AnswerNo
  <2>5. QED
    BY <1>1, <2>1, <2>2, <2>3, <2>4
<1>10. CASE AllAsked
  BY <1>1, <1>10, EmptyHasNone DEF AllAsked, Session, MarkIsOfThisTurn
<1>11. ASSUME NEW c \in Changes, Stage(c) \/ DiscardChange(c) \/ ApplyChange(c)
       PROVE  phase' = "applying" /\ UNCHANGED <<queue, said>>
  BY <1>11 DEF Stage, DiscardChange, ApplyChange, Session, Working
<1>12. QED
  BY <1>2, <1>3, <1>4, <1>5, <1>6, <1>7, <1>8, <1>9, <1>10, <1>11 DEF ConsoleNext

\* The strengthening is an invariant of the console, over all its sessions.
LEMMA ConsoleIsSafe == ConsoleSpec => []ConsoleInv
<1>1. ConsoleInit => ConsoleInv
  <2> SUFFICES ASSUME ConsoleInit PROVE ConsoleInv
    OBVIOUS
  <2>1. ConsoleTypeOK
    BY ConsoleAssumption DEF ConsoleInit, ConsoleTypeOK, NoTurn
  <2>2. QED
    BY <2>1, EmptyHasNone DEF ConsoleInit, ConsoleInv, MarkIsOfThisTurn, MetExist, NoIsTheirs,
       ListIsComplete
<1>2. ConsoleInv /\ [ConsoleNext]_consoleVars => ConsoleInv'
  <2>1. ASSUME ConsoleInv, ConsoleNext PROVE ConsoleInv'
    BY <2>1, ConsoleKeepsTypes, MarksKeep, MetKeeps, NoKeeps, ListKeeps DEF ConsoleInv
  <2>2. ASSUME ConsoleInv, UNCHANGED consoleVars PROVE ConsoleInv'
    BY <2>2 DEF consoleVars, ConsoleInv, ConsoleTypeOK, MarkIsOfThisTurn, MetExist, NoIsTheirs,
       ListIsComplete
  <2>3. QED
    BY <2>1, <2>2
<1>3. QED
  BY <1>1, <1>2, PTL DEF ConsoleSpec

(* Back at its prompt the console has asked about every staged change the  *)
(* conversation had met, and no mark is left, for any number of changes,   *)
(* turns and sessions (confirm_staged_changes).                            *)
THEOREM NothingUnasked == ConsoleSpec => []NothingSlipsPast
<1>1. ConsoleInv => NothingSlipsPast
  BY DEF ConsoleInv, MarkIsOfThisTurn, ListIsComplete, NothingSlipsPast
<1>2. QED
  BY <1>1, ConsoleIsSafe, PTL

(* With host approval on, a change is applied only in the turn its own yes *)
(* started (apply_change under host_approve and host_clear).               *)
THEOREM AppliesAreApproved == ConsoleSpec => AppliedWasApproved
<1>1. ASSUME ConsoleInv, [ConsoleNext]_consoleVars
      PROVE  [\A c \in Changes :
                ledger'[c] = "applied" /\ ledger[c] # "applied" /\ mode # "trusting"
                  => mode = "console" /\ phase = "applying" /\ asked = c]_consoleVars
  <2> SUFFICES ASSUME ConsoleNext, NEW d \in Changes,
                      ledger'[d] = "applied", ledger[d] # "applied", mode # "trusting"
               PROVE  mode = "console" /\ phase = "applying" /\ asked = d
    BY <1>1
  <2>1. /\ ledger \in [Changes -> {"none", "staged", "applied", "discarded"}]
        /\ MarkIsOfThisTurn
    BY <1>1 DEF ConsoleInv, ConsoleTypeOK
  <2>2. ASSUME NEW c \in Changes, Stage(c) \/ DiscardChange(c) PROVE FALSE
    BY <2>1, <2>2 DEF Stage, DiscardChange
  <2>3. ASSUME NEW c \in Changes, ApplyChange(c)
        PROVE  d \in approved
    BY <2>1, <2>3 DEF ApplyChange, MayApply
  <2>4. ASSUME NEW c \in Changes, ApplyChange(c)
        PROVE  phase = "applying" /\ mode = "console" /\ asked = d
    BY <2>1, <2>3, <2>4 DEF MarkIsOfThisTurn, ApplyChange, Working
  <2>5. ~UNCHANGED ledger
    BY <2>1
  <2>6. QED
    BY <2>2, <2>4, <2>5 DEF ConsoleNext, Start, Say, Leave, ReadPending, Remind, DrawUpQuestions,
       ChatGoesOn, OnceEnds, ApprovedTurnEnds, TurnFails, PassOver, AnswerYes, AnswerNo, AllAsked
<1>2. QED
  BY <1>1, ConsoleIsSafe, PTL DEF ConsoleSpec, AppliedWasApproved

-----------------------------------------------------------------------------
(***************************************************************************)
(* HostedTools: the lock is with the one connection that warms, and the    *)
(* flag is raised behind the whole warm-up only.                           *)
(***************************************************************************)
Warming == {"detect", "catalog", "channel", "orders"}

\* Whoever warms the backend holds the lock, and nobody does once the flag is up.
LockIsWithTheWarmer ==
  /\ \A c \in Connections : at[c] \in Warming <=> lock = c
  /\ done => lock = NoLock

\* What the warm-up has read by the place where it stands, and what the flag promises.
ReadSoFar ==
  /\ \A c \in Connections :
       /\ at[c] \in {"catalog", "channel", "orders"} => backend.mode # Unread
       /\ at[c] \in {"channel", "orders"} => backend.catalog = "read"
       /\ at[c] = "tool" => done
  /\ done => backend.mode # Unread /\ backend.catalog = "read" /\ backend.orders # Unread

HostedInv == HostedTypeOK /\ LockIsWithTheWarmer /\ ReadSoFar

\* Every call of a tool, and every failure of a warm-up, keeps the invariant.
LEMMA HostedKeeps ==
  ASSUME HostedInv, NEW c \in Connections,
         \/ Call(c) \/ AlreadyWarm(c) \/ TakeLock(c) \/ Detect(c) \/ ReadCatalog(c)
         \/ ResolveChannel(c) \/ ReadOrders(c) \/ Answer(c)
  PROVE  HostedInv'
<1>1. NoLock \notin Connections
  BY HostedAssumption DEF NoLock
<1>2. \A how \in {"plugin", "host"} : how # Unread /\ [backend EXCEPT !.mode = how] \in
        [mode : {Unread, "plugin", "host"}, catalog : {Unread, "read"},
         channel : {Unread, "known"}, orders : {Unread, "read", "empty"}]
  BY DEF HostedInv, HostedTypeOK, Unread
<1>3. HostedTypeOK'
  <2> USE HostedAssumption DEF HostedInv, HostedTypeOK, Goes, Fault
  <2>1. CASE Call(c) \/ AlreadyWarm(c) \/ TakeLock(c) \/ Answer(c)
    BY <2>1 DEF Call, AlreadyWarm, TakeLock, Answer
  <2>2. CASE Detect(c)
    <3>1. \A advertised : ResolveMode(advertised) \in {"plugin", "host"}
      BY DEF ResolveMode
    <3>2. QED
      BY <1>2, <2>2, <3>1 DEF Detect
  <2>3. CASE ReadCatalog(c)
    BY <2>3 DEF ReadCatalog
  <2>4. CASE ResolveChannel(c)
    BY <2>4 DEF ResolveChannel
  <2>5. CASE ReadOrders(c)
    BY <2>5 DEF ReadOrders
  <2>6. QED
    BY <2>1, <2>2, <2>3, <2>4, <2>5
<1>4. LockIsWithTheWarmer'
  <2> USE <1>1 DEF HostedInv, HostedTypeOK, LockIsWithTheWarmer, Goes, Warming
  <2>1. CASE Call(c) \/ AlreadyWarm(c) \/ TakeLock(c) \/ Answer(c)
    BY <2>1 DEF Call, AlreadyWarm, TakeLock, Answer
  <2>2. CASE Detect(c) \/ ResolveChannel(c)
    BY <2>2 DEF Detect, ResolveChannel
  <2>3. CASE ReadCatalog(c) \/ ReadOrders(c)
    BY <2>3 DEF ReadCatalog, ReadOrders
  <2>4. QED
    BY <2>1, <2>2, <2>3
<1>5. ReadSoFar'
  <2> USE <1>1 DEF HostedInv, HostedTypeOK, LockIsWithTheWarmer, ReadSoFar, Goes, Warming
  <2>1. CASE Call(c) \/ AlreadyWarm(c) \/ TakeLock(c) \/ Answer(c)
    BY <2>1 DEF Call, AlreadyWarm, TakeLock, Answer
  <2>2. CASE Detect(c)
    <3>1. backend'.mode # Unread /\ done' = done /\ ~done
      BY <2>2 DEF Detect, ResolveMode, Unread
    <3>2. QED
      BY <2>2, <3>1 DEF Detect
  <2>3. CASE ReadCatalog(c)
    BY <2>3 DEF ReadCatalog
  <2>4. CASE ResolveChannel(c)
    BY <2>4 DEF ResolveChannel
  <2>5. CASE ReadOrders(c)
    <3>1. backend'.mode = backend.mode /\ backend'.catalog = backend.catalog
          /\ backend'.orders # Unread
      BY <2>5 DEF ReadOrders, Unread
    <3>2. QED
      BY <2>5, <3>1 DEF ReadOrders
  <2>6. QED
    BY <2>1, <2>2, <2>3, <2>4, <2>5
<1>6. QED
  BY <1>3, <1>4, <1>5 DEF HostedInv

\* The search in the other server has no part in it.
LEMMA SearchKeeps ==
  ASSUME HostedInv, NEW c \in Connections,
         SearchPolicies(c) \/ ReadMenu(c) \/ Walk(c) \/ Publish(c)
  PROVE  HostedInv'
<1>1. UNCHANGED merchantVars
  BY DEF SearchPolicies, ReadMenu, Walk, Publish
<1>2. faults' \in 0 .. MaxFaults
  <2> USE HostedAssumption DEF HostedInv, HostedTypeOK, Fault
  <2>1. CASE SearchPolicies(c) \/ ReadMenu(c)
    BY <2>1 DEF SearchPolicies, ReadMenu
  <2>2. CASE Walk(c)
    BY <2>2 DEF Walk
  <2>3. CASE Publish(c)
    BY <2>3 DEF Publish
  <2>4. QED
    BY <2>1, <2>2, <2>3
<1>3. QED
  BY <1>1, <1>2 DEF merchantVars, HostedInv, HostedTypeOK, LockIsWithTheWarmer, ReadSoFar

(* No tool of the hosted server runs over a backend that is not warm, for  *)
(* any number of connections and failures: _Warmup holds its lock over the *)
(* whole of warm().                                                        *)
THEOREM ToolsRunWarm == HostedSpec => []ToolsFindAWarmBackend
<1>1. HostedInit => HostedInv
  <2> SUFFICES ASSUME HostedInit PROVE HostedInv
    OBVIOUS
  <2>1. HostedTypeOK
    <3>1. backend \in [mode : {Unread, "plugin", "host"}, catalog : {Unread, "read"},
                       channel : {Unread, "known"}, orders : {Unread, "read", "empty"}]
      BY DEF HostedInit, Unread
    <3>2. 0 \in 0 .. MaxFaults
      BY HostedAssumption
    <3>3. QED
      BY <3>1, <3>2 DEF HostedInit, HostedTypeOK
  <2>2. LockIsWithTheWarmer /\ ReadSoFar
    BY HostedAssumption DEF HostedInit, LockIsWithTheWarmer, ReadSoFar, Warming, NoLock
  <2>3. QED
    BY <2>1, <2>2 DEF HostedInv
<1>2. HostedInv /\ [HostedNext]_hostedVars => HostedInv'
  <2>1. ASSUME HostedInv, HostedNext PROVE HostedInv'
    BY <2>1, HostedKeeps, SearchKeeps DEF HostedNext
  <2>2. ASSUME HostedInv, UNCHANGED hostedVars PROVE HostedInv'
    BY <2>2 DEF hostedVars, merchantVars, policyVars, HostedInv, HostedTypeOK, LockIsWithTheWarmer,
       ReadSoFar
  <2>3. QED
    BY <2>1, <2>2
<1>3. HostedInv => ToolsFindAWarmBackend
  BY HostedAssumption DEF HostedInv, HostedTypeOK, LockIsWithTheWarmer, ReadSoFar,
     ToolsFindAWarmBackend, Warming, NoLock
<1>4. QED
  BY <1>1, <1>2, <1>3, PTL DEF HostedSpec

-----------------------------------------------------------------------------
(***************************************************************************)
(* The roll-back.  A change that is applied creates its things one by one  *)
(* and remembers them; NothingLeftBehind speaks of the end only, so the    *)
(* invariant says on the way what the writer still has to delete.          *)
(***************************************************************************)
WritingSteps == {"rebase", "write", "refresh", "undo"}
JobFields == {"at", "next", "created", "completed", "rows", "rolledBack"}
StagedFields == {"status", "kind", "ask", "items", "plan", "seen", "known"}
FailedFields == {"status", "kind", "completed", "rolledBack"}

Created == ToSet(writing.created)

\* Where the writer stands, and with which change.
Standing ==
  /\ \/ writing = NoJob
     \/ /\ DOMAIN writing = JobFields /\ writing.at \in WritingSteps
        /\ \E S : writing.created \in Seq(S)
        /\ change.status = "staged"
  /\ \/ change = NothingStaged
     \/ change.status = "staged" /\ DOMAIN change = StagedFields
     \/ change.status = "failed" /\ DOMAIN change \in {StagedFields, FailedFields}

\* A promotion is staged while the shop has none of its things.
FreshStart == change.status = "staged" /\ change.kind = "promotion" /\ writing = NoJob => things = {}

\* What a promotion under way left in the shop is remembered, or was answered with an error.
Remembered ==
  writing # NoJob /\ change.kind = "promotion" => things \subseteq Created \cup unsure \cup stuck

\* Nothing is called rolled back that is there; nothing is rolled back before the roll-back.
ReportSoFar ==
  writing # NoJob => /\ writing.rolledBack \cap things = {}
                     /\ writing.at # "undo" => writing.rolledBack = {}

RollbackInv == Standing /\ FreshStart /\ Remembered /\ ReportSoFar /\ NothingLeftBehind

\* Appending, and taking the last one off, keep a sequence of something.
LEMMA AppendIsSeq ==
  ASSUME NEW s, NEW e, \E S : s \in Seq(S)
  PROVE  /\ \E S : Append(s, e) \in Seq(S)
         /\ ToSet(Append(s, e)) = ToSet(s) \cup {e}
<1>1. PICK S : s \in Seq(S)
  OBVIOUS
<1>2. s \in Seq(S \cup {e}) /\ Append(s, e) \in Seq(S \cup {e})
  <2>1. s \in Seq(S \cup {e})
    BY <1>1
  <2>2. QED
    BY <2>1
<1>3. /\ DOMAIN s = 1 .. Len(s) /\ DOMAIN Append(s, e) = 1 .. Len(s) + 1 /\ Len(s) \in Nat
      /\ \A i \in 1 .. Len(s) : Append(s, e)[i] = s[i]
      /\ Append(s, e)[Len(s) + 1] = e
  BY <1>1
<1>4. ToSet(Append(s, e)) = ToSet(s) \cup {e}
  BY <1>3 DEF ToSet
<1>5. QED
  BY <1>2, <1>4

LEMMA FrontIsSeq ==
  ASSUME NEW s, \E S : s \in Seq(S), Len(s) > 0
  PROVE  LET front == SubSeq(s, 1, Len(s) - 1) IN
         /\ \E S : front \in Seq(S)
         /\ ToSet(s) = ToSet(front) \cup {s[Len(s)]}
<1> DEFINE front == SubSeq(s, 1, Len(s) - 1)
<1>1. PICK S : s \in Seq(S)
  OBVIOUS
<1>2. /\ DOMAIN s = 1 .. Len(s) /\ Len(s) \in Nat
      /\ front \in Seq(S) /\ DOMAIN front = 1 .. Len(s) - 1
      /\ \A i \in 1 .. Len(s) - 1 : front[i] = s[i]
  BY <1>1
<1> HIDE DEF front
<1>3. ToSet(s) = ToSet(front) \cup {s[Len(s)]}
  BY <1>2 DEF ToSet
<1>4. QED
  BY <1>2, <1>3 DEF front

LEMMA RollbackStart == WritePlansInit => RollbackInv
BY DEF WritePlansInit, RollbackInv, Standing, FreshStart, Remembered, ReportSoFar, NothingLeftBehind,
       NoJob, NothingStaged

\* Nothing is under way when a change is staged.
LEMMA StagingKeeps ==
  ASSUME RollbackInv, NEW q \in Requests, StageProducts(q) \/ StagePromotion(q)
  PROVE  RollbackInv'
<1>1. CASE StageProducts(q)
  <2>1. /\ writing' = NoJob /\ change'.status = "staged" /\ DOMAIN change' = StagedFields
        /\ change'.kind # "promotion"
    BY <1>1 DEF StageProducts, StagedFields
  <2>2. QED
    BY <2>1 DEF RollbackInv, Standing, FreshStart, Remembered, ReportSoFar, NothingLeftBehind
<1>2. CASE StagePromotion(q)
  <2>1. /\ writing' = NoJob /\ change'.status = "staged" /\ DOMAIN change' = StagedFields
        /\ things' = {}
    BY <1>2 DEF StagePromotion, StagedFields
  <2>2. QED
    BY <2>1 DEF RollbackInv, Standing, FreshStart, Remembered, ReportSoFar, NothingLeftBehind
<1>3. QED
  BY <1>1, <1>2

LEMMA BeginKeeps ==
  ASSUME RollbackInv, Begin
  PROVE  RollbackInv'
<1>1. /\ DOMAIN writing' = JobFields /\ writing'.at = "rebase" /\ writing'.created = <<>>
      /\ writing'.rolledBack = {} /\ writing' # NoJob /\ writing = NoJob
      /\ change' = change /\ change.status = "staged" /\ things' = things
  BY DEF Begin, JobFields, NoJob
<1>2. \E S : writing'.created \in Seq(S)
  BY <1>1
<1>3. change.kind = "promotion" => things = {}
  BY <1>1 DEF RollbackInv, FreshStart
<1>4. QED
  BY <1>1, <1>2, <1>3
  DEF RollbackInv, Standing, WritingSteps, FreshStart, Remembered, ReportSoFar, NothingLeftBehind,
      NothingStaged

\* Before the roll-back a step of the writer moves on, remembering what it created.
LEMMA WritingKeeps ==
  ASSUME RollbackInv, Rebase \/ WriteRows \/ RowsFail
  PROVE  RollbackInv'
<1>1. CASE Rebase
  <2>1. writing # NoJob /\ writing.at = "rebase" /\ change.status = "staged" /\ DOMAIN writing = JobFields
    <3>1. writing.at = "rebase"
      BY <1>1 DEF Rebase
    <3>2. QED
      BY <3>1 DEF RollbackInv, Standing, NoJob
  <2>2. CASE change' = [change EXCEPT !.status = "failed"] /\ writing' = NoJob
    <3>1. change'.status = "failed" /\ DOMAIN change' = StagedFields
      BY <2>1, <2>2 DEF RollbackInv, Standing, StagedFields, NothingStaged
    <3>2. QED
      BY <3>1, <2>2
      DEF RollbackInv, Standing, FreshStart, Remembered, ReportSoFar, NothingLeftBehind,
          StagedFields
  <2>3. CASE /\ writing' = [writing EXCEPT !.at = "write", !.rows = writing'.rows]
             /\ UNCHANGED <<change, things, unsure, stuck>>
    <3>1. /\ DOMAIN writing' = JobFields /\ writing'.at = "write" /\ writing'.created = writing.created
          /\ writing'.rolledBack = writing.rolledBack
      BY <2>1, <2>3 DEF JobFields
    <3>2. QED
      BY <3>1, <2>1, <2>3
      DEF RollbackInv, Standing, WritingSteps, FreshStart, Remembered, Created, ReportSoFar,
          NothingLeftBehind, NoJob
  <2>4. QED
    <3>1. \/ change' = [change EXCEPT !.status = "failed"] /\ writing' = NoJob
          \/ /\ \E rows : writing' = [writing EXCEPT !.at = "write", !.rows = rows]
             /\ UNCHANGED <<change, things, unsure, stuck>>
      BY <1>1 DEF Rebase
    <3>2. ASSUME NEW rows, writing' = [writing EXCEPT !.at = "write", !.rows = rows]
          PROVE  writing' = [writing EXCEPT !.at = "write", !.rows = writing'.rows]
      BY <3>2, <2>1 DEF JobFields
    <3>3. QED
      BY <3>1, <3>2, <2>2, <2>3
<1>2. CASE WriteRows
  <2>1. /\ writing # NoJob /\ writing.at = "write" /\ change.status = "staged"
        /\ DOMAIN writing = JobFields /\ \E S : writing.created \in Seq(S)
    BY <1>2 DEF WriteRows, RollbackInv, Standing, NoJob
  <2>2. PICK step, next, completed, created :
          /\ writing' = [writing EXCEPT !.at = step, !.next = next, !.completed = completed,
                                        !.created = created]
          /\ step \in {"refresh", "rebase"}
          /\ created = IF Entity = "product" THEN writing.created ELSE Append(writing.created, Entity)
    BY <1>2 DEF WriteRows
  <2>3. /\ DOMAIN writing' = JobFields /\ writing'.at \in {"refresh", "rebase"}
        /\ writing'.created = created /\ writing'.rolledBack = writing.rolledBack
    BY <2>1, <2>2 DEF JobFields
  <2>4. /\ UNCHANGED <<change, unsure, stuck>>
        /\ things' = IF Entity = "product" THEN things ELSE things \cup {Entity}
    BY <1>2 DEF WriteRows, Performed
  <2>5. /\ \E S : created \in Seq(S)
        /\ ToSet(created) = IF Entity = "product" THEN Created ELSE Created \cup {Entity}
    <3> HIDE DEF Entity
    <3>1. CASE Entity = "product"
      BY <3>1, <2>1, <2>2 DEF Created
    <3>2. CASE Entity # "product"
      <4>1. /\ \E S : Append(writing.created, Entity) \in Seq(S)
            /\ ToSet(Append(writing.created, Entity)) = ToSet(writing.created) \cup {Entity}
        BY <2>1, AppendIsSeq
      <4>2. created = Append(writing.created, Entity)
        BY <3>2, <2>2
      <4>3. QED
        BY <4>1, <4>2, <3>2 DEF Created
    <3>3. QED
      BY <3>1, <3>2
  <2>6. writing.rolledBack = {}
    BY <2>1 DEF RollbackInv, ReportSoFar
  <2>7. Created' = ToSet(created)
    BY <2>3 DEF Created
  <2>8. QED
    BY <2>1, <2>3, <2>4, <2>5, <2>6, <2>7
    DEF RollbackInv, Standing, WritingSteps, FreshStart, Remembered, ReportSoFar, NothingLeftBehind, NoJob
<1>3. CASE RowsFail
  <2>1. writing # NoJob /\ writing.at = "write" /\ change.status = "staged" /\ DOMAIN writing = JobFields
    BY <1>3 DEF RowsFail, RollbackInv, Standing, NoJob
  <2>2. /\ DOMAIN writing' = JobFields /\ writing'.at = "undo" /\ writing'.created = writing.created
        /\ writing'.rolledBack = writing.rolledBack /\ UNCHANGED <<change, stuck>>
    BY <1>3, <2>1 DEF RowsFail, JobFields
  <2>3. \/ UNCHANGED <<things, unsure>>
        \/ things' \subseteq things \cup {Entity} /\ unsure' = unsure \cup {Entity}
    BY <1>3 DEF RowsFail, Performed
  <2>4. writing.rolledBack = {} /\ Created' = Created
    BY <2>1, <2>2 DEF RollbackInv, ReportSoFar, Created
  <2>5. QED
    BY <2>1, <2>2, <2>3, <2>4
    DEF RollbackInv, Standing, WritingSteps, FreshStart, Remembered, ReportSoFar, NothingLeftBehind, NoJob
<1>4. QED
  BY <1>1, <1>2, <1>3

\* What is taken off the list is gone, or its deletion failed.
LEMMA UndoKeeps ==
  ASSUME RollbackInv, Undo
  PROVE  RollbackInv'
<1> DEFINE last == writing.created[Len(writing.created)]
           front == SubSeq(writing.created, 1, Len(writing.created) - 1)
<1>1. /\ writing # NoJob /\ writing.at = "undo" /\ change.status = "staged"
      /\ DOMAIN writing = JobFields /\ \E S : writing.created \in Seq(S) /\ Len(writing.created) > 0
  BY DEF Undo, RollbackInv, Standing, NoJob
<1>2. /\ \E S : front \in Seq(S)
      /\ Created = ToSet(front) \cup {last}
  BY <1>1, FrontIsSeq DEF Created
<1>3. /\ UNCHANGED <<change, unsure>>
      /\ \/ /\ things' = things \ {last} /\ stuck' = stuck
            /\ writing' = [writing EXCEPT !.created = front, !.rolledBack = @ \cup {last}]
         \/ /\ things' \subseteq things /\ stuck' = stuck \cup {last}
            /\ writing' = [writing EXCEPT !.created = front]
  BY DEF Undo
<1> HIDE DEF last, front
<1>4. /\ DOMAIN writing' = JobFields /\ writing'.at = "undo" /\ writing'.created = front
      /\ \/ writing'.rolledBack = writing.rolledBack \cup {last} /\ things' = things \ {last}
                                  /\ stuck' = stuck
         \/ writing'.rolledBack = writing.rolledBack /\ things' \subseteq things
                                  /\ stuck' = stuck \cup {last}
  BY <1>1, <1>3 DEF JobFields
<1>5. Created' = ToSet(front)
  BY <1>4 DEF Created
<1>6. writing' # NoJob
  BY <1>4 DEF NoJob
<1>7. Standing' /\ FreshStart' /\ NothingLeftBehind'
  BY <1>1, <1>2, <1>3, <1>4, <1>6
  DEF RollbackInv, Standing, WritingSteps, FreshStart, NothingLeftBehind
<1>8. Remembered'
  BY <1>1, <1>2, <1>3, <1>4, <1>5 DEF RollbackInv, Remembered
<1>9. ReportSoFar'
  BY <1>1, <1>4 DEF RollbackInv, ReportSoFar
<1>10. QED
  BY <1>7, <1>8, <1>9 DEF RollbackInv

\* With nothing left to delete, what there still is was never answered for.
LEMMA EndKeeps ==
  ASSUME RollbackInv, Fail \/ Return
  PROVE  RollbackInv'
<1>1. CASE Fail
  <2>1. /\ writing # NoJob /\ writing.created = <<>> /\ writing' = NoJob
        /\ UNCHANGED <<things, unsure, stuck>>
        /\ change'.status = "failed" /\ DOMAIN change' = FailedFields
        /\ change'.kind = change.kind /\ change'.rolledBack = writing.rolledBack
    BY <1>1 DEF Fail, FailedFields, NoJob
  <2>2. Created = {}
    BY <2>1 DEF Created, ToSet
  <2>3. QED
    BY <2>1, <2>2
    DEF RollbackInv, Standing, FreshStart, Remembered, ReportSoFar, NothingLeftBehind
<1>2. CASE Return
  BY <1>2
  DEF Return, RollbackInv, Standing, FreshStart, Remembered, ReportSoFar, NothingLeftBehind,
      NoJob, NothingStaged
<1>3. QED
  BY <1>1, <1>2

\* RollbackInv looks at these only.
LEMMA UndisturbedKeep ==
  ASSUME RollbackInv, UNCHANGED <<things, change, writing, unsure, stuck>>
  PROVE  RollbackInv'
BY DEF RollbackInv, Standing, FreshStart, Remembered, Created, ReportSoFar, NothingLeftBehind

LEMMA RollbackStep ==
  ASSUME RollbackInv, [WritePlansNext]_writeVars
  PROVE  RollbackInv'
<1>1. CASE \E q \in Requests : StageProducts(q) \/ StagePromotion(q)
  BY <1>1, StagingKeeps
<1>2. CASE Rebase \/ WriteRows \/ RowsFail
  BY <1>2, WritingKeeps
<1>3. CASE Refresh \/ (\E l \in Listings : Edit(l)) \/ UNCHANGED writeVars
  BY <1>3, UndisturbedKeep DEF Refresh, Edit, writeVars
<1>4. QED
  BY <1>1, <1>2, <1>3, BeginKeeps, UndoKeeps, EndKeeps DEF WritePlansNext

\* A change that failed leaves nothing behind that the writer created, and says so truly:
\* ShopwareWriter.apply's roll-back and WriteFailed, for any plans, catalogs and faults.
THEOREM RollbackIsComplete == WritePlansSpec => []NothingLeftBehind
<1>1. RollbackInv => NothingLeftBehind
  BY DEF RollbackInv
<1>2. QED
  BY <1>1, RollbackStart, RollbackStep, PTL DEF WritePlansSpec

-----------------------------------------------------------------------------
(* MerchantDashboard: what a cut search has, and the readings' invariant. *)

\* A set of places has a last one.
LEMMA LastPlace ==
  ASSUME NEW I \in SUBSET Nat, IsFiniteSet(I), I # {}
  PROVE  \E m \in I : \A i \in I : i <= m
<1>1. Cardinality(I) \in Nat /\ Cardinality(I) # 0
  BY FS_CardinalityType, FS_EmptySet
<1> DEFINE m == Nth(I, Cardinality(I))
<1>2. m \in I /\ Rank(I, m) = Cardinality(I)
  BY <1>1, PlacesByRank
<1> HIDE DEF m
<1>3. ASSUME NEW i \in I, i > m PROVE FALSE
  <2>1. Rank(I, i) \in 1 .. Cardinality(I)
    BY PlacesByRank
  <2>2. Rank(I, m) < Rank(I, i)
    BY <1>2, <1>3, RankGrows
  <2> QED BY <1>1, <1>2, <2>1, <2>2
<1> QED BY <1>2, <1>3

\* Whatever a search cut at the limit does not return is behind that many newer ones.
LEMMA CutBehindNewer ==
  ASSUME NEW found \in SUBSET Nat, IsFiniteSet(found), NEW o \in found, o \notin NewestOf(found)
  PROVE  /\ Cardinality(NewestOf(found)) >= Limit
         /\ \A p \in NewestOf(found) : Newer(p, o)
<1> DEFINE newer(i) == {p \in found : Newer(p, i)}
           top == NewestOf(found)
<1>1. Limit \in Nat /\ Limit > 0
  BY DashboardAssumption
<1>2. \A i \in found : i \in top <=> Cardinality(newer(i)) < Limit
  BY DEF NewestOf
<1>3. top \subseteq found /\ IsFiniteSet(top) /\ Cardinality(top) \in Nat
  BY FS_Subset, FS_CardinalityType DEF NewestOf
<1>4. \A i \in found : IsFiniteSet(newer(i)) /\ Cardinality(newer(i)) \in Nat
  BY FS_Subset, FS_CardinalityType
<1>5. ASSUME NEW p \in top PROVE Newer(p, o)
  <2>1. SUFFICES ASSUME ~ Newer(p, o) PROVE FALSE
    OBVIOUS
  <2>2. newer(o) \subseteq newer(p)
    <3>1. p \in Nat /\ o \in Nat /\ \A q \in found : q \in Nat
      BY <1>3
    <3>2. ASSUME NEW q \in found, Newer(q, o) PROVE Newer(q, p)
      BY <2>1, <3>1, <3>2 DEF Newer
    <3> QED BY <3>2
  <2>3. Cardinality(newer(o)) <= Cardinality(newer(p))
    BY <1>3, <1>4, <2>2, FS_Subset
  <2>4. p \in found /\ Cardinality(newer(p)) < Limit /\ ~ Cardinality(newer(o)) < Limit
    BY <1>2, <1>3
  <2> HIDE DEF newer
  <2> QED BY <1>1, <1>4, <2>3, <2>4
<1>6. Cardinality(top) >= Limit
  <2>1. SUFFICES ASSUME Cardinality(top) < Limit PROVE FALSE
    BY <1>1, <1>3
  <2>2. found \ top \in SUBSET Nat /\ IsFiniteSet(found \ top) /\ found \ top # {}
    BY FS_Subset
  <2>3. PICK m \in found \ top : \A i \in found \ top : i <= m
    BY <2>2, LastPlace
  <2>4. newer(m) \subseteq top
    BY <2>2, <2>3 DEF Newer
  <2>5. Cardinality(newer(m)) <= Cardinality(top)
    BY <1>3, <2>4, FS_Subset
  <2>6. m \in top
    BY <1>1, <1>2, <1>3, <1>4, <2>1, <2>3, <2>5
  <2> QED BY <2>3, <2>6
<1> QED BY <1>5, <1>6

Row == [state : {"open", "in_progress", "completed", "cancelled"}, day : Days,
        pay : {"fine", "failed"}, shipped : BOOLEAN, note : BOOLEAN]

ReadingFields == {"at", "kind", "period", "step", "segment", "sales", "orders", "before", "points",
                  "alerts", "got", "rows", "issues"}

\* A reading stands at one of the calls of its kind.
IsReading(r) ==
  /\ DOMAIN r = ReadingFields /\ DOMAIN r.got = Searches
  /\ \/ r.kind = "dashboard" /\ r.at \in {"totals", "previous", "series", "units", "stuck", "payment",
                                          "commented", "answered"}
     \/ r.kind = "snapshot" /\ r.at \in {"totals", "previous", "units", "stuck", "payment",
                                         "commented", "answered"}
     \/ r.kind = "metric" /\ r.at \in {"series", "answered"}

\* The searches made when a reading stands at a call.
Searched(call) == CASE call = "payment"   -> {"stuck"}
                    [] call = "commented" -> {"stuck", "payment"}
                    [] call = "answered"  -> Searches
                    [] OTHER              -> {}

\* Every order found that nobody touched is there, or behind as many newer ones as a search returns.
NoneMissed(s) ==
  \A o \in FoundBy(s) \ moved :
    \/ o \in read.got[s]
    \/ Cardinality(read.got[s]) >= Limit /\ \A p \in read.got[s] : Newer(p, o)

\* The rows are of orders found; the row of an untouched order is the order as it stands.
RowsStand ==
  \A row \in read.rows : /\ row = <<row[1], row[2]>> /\ row[1] \in Placed
                         /\ row[1] \notin moved => row[2] = order[row[1]]

\* The invariant: what the searches made so far tell of the orders nobody touched since.
ReadingInv ==
  /\ order \in Seq(Row) /\ today \in Days
  /\ read = Nobody \/ IsReading(read)
  /\ read # Nobody /\ read.kind # "metric" =>
       /\ RowsStand
       /\ \A s \in Searched(read.at) : /\ NoneMissed(s)
                                   /\ \A o \in read.got[s] : \E row \in read.rows : row[1] = o


-----------------------------------------------------------------------------
\* No reading is under way in the beginning.
LEMMA ReadingsBegin == DashboardInit => ReadingInv
<1> SUFFICES ASSUME DashboardInit PROVE ReadingInv
  OBVIOUS
<1>1. order \in Seq(Row) /\ today \in Days /\ read = Nobody
  BY DEF DashboardInit
<1> QED BY <1>1 DEF ReadingInv

\* Orders may be placed and changed while a reading is under way: those it touches are told apart.
LEMMA ShopKeeps ==
  ASSUME ReadingInv, UNCHANGED read, order' \in Seq(Row), today' \in Days, Placed \subseteq Placed',
         read # Nobody => \A o \in Placed' \ moved' : o \in Placed \ moved /\ order'[o] = order[o]
  PROVE  ReadingInv'
<1>1. SUFFICES ASSUME read # Nobody, read.kind # "metric"
               PROVE  /\ RowsStand'
                      /\ \A s \in Searched(read.at) : NoneMissed(s)'
  BY <1>1 DEF ReadingInv
<1>2. \A o \in Placed' \ moved' : o \in Placed \ moved /\ order'[o] = order[o]
  BY <1>1
<1>3. RowsStand'
  BY <1>1, <1>2 DEF ReadingInv, RowsStand
<1>4. ASSUME NEW s \in Searched(read.at) PROVE NoneMissed(s)'
  <2>1. NoneMissed(s) /\ s \in Searches
    BY <1>1, <1>4 DEF ReadingInv, Searched, Searches
  <2>2. FoundBy(s)' \ moved' \subseteq FoundBy(s) \ moved
    BY <1>2, <2>1 DEF FoundBy, Live, Searches
  <2> QED BY <2>1, <2>2 DEF NoneMissed
<1> QED BY <1>3, <1>4

\* A new order is a touched one; it stands where no row of a search stands yet.
LEMMA PlaceKeeps == ASSUME ReadingInv, Place PROVE ReadingInv'
<1>1. PICK note \in BOOLEAN :
        order' = Append(order, [state |-> "open", day |-> today, pay |-> "fine", shipped |-> FALSE,
                                note |-> note])
  BY DEF Place
<1> DEFINE row == [state |-> "open", day |-> today, pay |-> "fine", shipped |-> FALSE, note |-> note]
<1>2. order \in Seq(Row) /\ row \in Row /\ UNCHANGED <<today, read>> /\ today \in Days
  BY DEF ReadingInv, Row, Place
<1> HIDE DEF row
<1>3. /\ order' \in Seq(Row) /\ Len(order') = Len(order) + 1 /\ Len(order) \in Nat
      /\ \A o \in 1 .. Len(order) : order'[o] = order[o]
  BY <1>1, <1>2 DEF row
<1>4. Placed = 1 .. Len(order) /\ Placed' = 1 .. Len(order) + 1
  BY <1>2, <1>3 DEF Placed
<1>5. read # Nobody => moved' = moved \cup {Len(order) + 1}
  BY <1>3 DEF Place, Touched
<1> QED BY <1>2, <1>3, <1>4, <1>5, ShopKeeps

\* A moved order is a touched one.
LEMMA MoveKeeps == ASSUME ReadingInv, NEW o \in Placed, Move(o) PROVE ReadingInv'
<1>1. order \in Seq(Row) /\ UNCHANGED <<today, read>> /\ today \in Days /\ order[o] \in Row
  BY DEF ReadingInv, Move, Placed
<1>2. \/ \E s \in {"in_progress", "completed", "cancelled"} : order' = [order EXCEPT ![o].state = s]
      \/ \E p \in {"fine", "failed"} : order' = [order EXCEPT ![o].pay = p]
      \/ order' = [order EXCEPT ![o].shipped = TRUE]
  BY DEF Move
<1>3. /\ DOMAIN order' = Placed /\ Len(order') = Len(order)
      /\ \A p \in Placed \ {o} : order'[p] = order[p]
      /\ order' \in Seq(Row)
  <2>1. CASE \E s \in {"in_progress", "completed", "cancelled"} : order' = [order EXCEPT ![o].state = s]
    BY <1>1, <2>1 DEF Row, Placed
  <2>2. CASE \E p \in {"fine", "failed"} : order' = [order EXCEPT ![o].pay = p]
    BY <1>1, <2>2 DEF Row, Placed
  <2>3. CASE order' = [order EXCEPT ![o].shipped = TRUE]
    <3> DEFINE row == [order[o] EXCEPT !.shipped = TRUE]
    <3>1. row \in Row
      BY <1>1 DEF Row
    <3>2. order' = [order EXCEPT ![o] = row]
      BY <2>3
    <3> HIDE DEF row
    <3> QED BY <1>1, <3>1, <3>2 DEF Placed
  <2> QED BY <1>2, <2>1, <2>2, <2>3
<1>4. read # Nobody => moved' = moved \cup {o}
  BY DEF Move, Touched
<1>5. Placed' = Placed
  BY <1>3 DEF Placed
<1> QED BY <1>1, <1>3, <1>4, <1>5, ShopKeeps

\* Midnight changes no order.
LEMMA NextDayKeeps == ASSUME ReadingInv, NextDay PROVE ReadingInv'
<1>1. UNCHANGED <<order, read>> /\ today' \in Days /\ order \in Seq(Row) /\ (read # Nobody => moved' = moved)
  BY DEF NextDay, ReadingInv
<1> QED BY <1>1, ShopKeeps DEF Placed

\* A reading begins with nothing searched for.
LEMMA BeginKeepsReadings ==
  ASSUME ReadingInv, NEW kind \in {"dashboard", "snapshot", "metric"}, NEW n, NEW step, NEW segment,
         BeginReading(kind, n, step, segment), UNCHANGED <<order, today>>
  PROVE  ReadingInv'
<1>1. /\ DOMAIN read' = ReadingFields /\ read'.kind = kind /\ read'.at = FirstCall[kind]
      /\ DOMAIN read'.got = Searches /\ read'.rows = {}
  BY DEF BeginReading, ReadingFields
<1>2. read'.at = IF kind = "metric" THEN "series" ELSE "totals"
  BY <1>1 DEF FirstCall
<1>3. IsReading(read')
  BY <1>1, <1>2 DEF IsReading
<1>4. Searched(read'.at) = {}
  BY <1>2 DEF Searched
<1> QED BY <1>1, <1>3, <1>4 DEF ReadingInv, RowsStand

\* What a reading takes beside its searches leaves what they told.
LEMMA OtherCallsKeep ==
  ASSUME ReadingInv, Totals \/ Series \/ GetInventoryAlerts
  PROVE  ReadingInv'
<1>1. /\ read.at \in {"totals", "previous", "series", "units"} /\ UNCHANGED <<order, today, moved>>
      /\ read # Nobody /\ IsReading(read)
  BY DEF ReadingInv, Totals, Series, GetInventoryAlerts, ShopUnchanged, Nobody
<1>2. /\ DOMAIN read' = ReadingFields /\ read'.kind = read.kind /\ read'.at = After(read.at)
      /\ read'.got = read.got /\ read'.rows = read.rows
  <2>1. CASE Totals
    <3>1. CASE read' = [read EXCEPT !.at = After("totals"), !.sales = Sales(Counted(read.period)),
                          !.orders = Cardinality(Counted(read.period))] /\ read.at = "totals"
      BY <1>1, <3>1 DEF IsReading, ReadingFields
    <3>2. CASE read' = [read EXCEPT !.at = After("previous"),
                                    !.before = Sales(Counted(Previous(read.period)))]
               /\ read.at = "previous"
      BY <1>1, <3>2 DEF IsReading, ReadingFields
    <3> QED BY <2>1, <3>1, <3>2 DEF Totals
  <2>2. CASE Series
    BY <1>1, <2>2 DEF IsReading, ReadingFields, Series
  <2>3. CASE GetInventoryAlerts
    BY <1>1, <2>3 DEF IsReading, ReadingFields, GetInventoryAlerts
  <2> QED BY <2>1, <2>2, <2>3
<1>3. IsReading(read')
  BY <1>1, <1>2 DEF IsReading, After
<1>4. read'.kind # "metric" => Searched(read'.at) = {}
  BY <1>1, <1>2 DEF IsReading, After, Searched
<1> QED BY <1>1, <1>2, <1>3, <1>4 DEF ReadingInv, RowsStand, Placed

\* A search (_search_orders): it returns what is found, or the newest of it, with a row of each.
LEMMA AttentionKeeps == ASSUME ReadingInv, SearchOrders PROVE ReadingInv'
<1>0. PICK s \in Searches : s = read.at
  BY DEF SearchOrders
<1> DEFINE hits == NewestOf(FoundBy(s))
           rows == Merged(read.rows, hits)
<1>1. /\ s \in Searches /\ UNCHANGED <<order, today, moved>> /\ order \in Seq(Row) /\ today \in Days
      /\ read # Nobody /\ read.kind # "metric" /\ IsReading(read) /\ RowsStand
      /\ \A q \in Searched(s) : /\ NoneMissed(q)
                                /\ \A o \in read.got[q] : \E row \in read.rows : row[1] = o
  BY <1>0 DEF ReadingInv, SearchOrders, ShopUnchanged, Nobody, Searches, IsReading
<1>2. /\ DOMAIN read' = ReadingFields /\ read'.kind = read.kind /\ read'.at = After(s)
      /\ read'.got = [read.got EXCEPT ![s] = hits] /\ read'.rows = rows
  BY <1>0, <1>1 DEF SearchOrders, ReadingFields, IsReading
<1>3. read'.got[s] = hits /\ DOMAIN read'.got = Searches /\ \A q \in Searches \ {s} : read'.got[q] = read.got[q]
  BY <1>1, <1>2 DEF IsReading
<1>4. IsReading(read') /\ Searched(read'.at) = Searched(s) \cup {s} /\ s \notin Searched(s)
      /\ Searched(s) \subseteq Searches
  BY <1>0, <1>1, <1>2, <1>3 DEF IsReading, After, Searched, Searches
<1>5. FoundBy(s) \in SUBSET Nat /\ IsFiniteSet(FoundBy(s)) /\ FoundBy(s) \subseteq Placed
      /\ hits \subseteq FoundBy(s)
  <2>1. Placed = 1 .. Len(order) /\ Len(order) \in Nat
    BY <1>1 DEF Placed
  <2>2. FoundBy(s) \subseteq Placed /\ hits \subseteq FoundBy(s)
    BY DEF FoundBy, NewestOf
  <2> HIDE DEF hits
  <2>3. FoundBy(s) \in SUBSET (1 .. Len(order)) /\ IsFiniteSet(1 .. Len(order))
    BY <2>1, <2>2, FS_Interval
  <2>4. IsFiniteSet(FoundBy(s))
    BY <2>3, FS_Subset
  <2> QED BY <2>1, <2>2, <2>3, <2>4
<1>6. RowsStand'
  <2>1. ASSUME NEW row \in rows
        PROVE  row = <<row[1], row[2]>> /\ row[1] \in Placed /\ (row[1] \notin moved => row[2] = order[row[1]])
    BY <1>1, <1>5, <2>1 DEF Merged, RowsStand
  <2> QED BY <1>1, <1>2, <2>1 DEF RowsStand, Placed
<1>7. ASSUME NEW o \in hits PROVE \E row \in rows : row[1] = o
  <2>1. CASE \A row \in read.rows : row[1] # o
    <3>1. <<o, order[o]>> \in rows
      BY <2>1 DEF Merged
    <3> QED BY <3>1
  <2>2. CASE \E row \in read.rows : row[1] = o
    BY <2>2 DEF Merged
  <2> QED BY <2>1, <2>2
<1>8. read.rows \subseteq rows
  BY DEF Merged
<1>9. NoneMissed(s)'
  <2>1. \A o \in FoundBy(s) : \/ o \in hits
                              \/ Cardinality(hits) >= Limit /\ \A p \in hits : Newer(p, o)
    BY <1>5, CutBehindNewer
  <2>2. FoundBy(s)' = FoundBy(s)
    BY <1>1 DEF FoundBy, Placed
  <2> HIDE DEF hits
  <2> QED BY <1>1, <1>3, <2>1, <2>2 DEF NoneMissed
<1>10. ASSUME NEW q \in Searched(s) PROVE NoneMissed(q)'
  <2>1. FoundBy(q)' = FoundBy(q) /\ read'.got[q] = read.got[q] /\ moved' = moved
    BY <1>1, <1>3, <1>4 DEF FoundBy, Placed
  <2> QED BY <1>1, <2>1 DEF NoneMissed
<1>11. ASSUME NEW q \in Searched(read'.at), NEW o \in read'.got[q] PROVE \E row \in read'.rows : row[1] = o
  BY <1>1, <1>2, <1>3, <1>4, <1>7, <1>8
<1> QED BY <1>1, <1>2, <1>4, <1>6, <1>9, <1>10, <1>11 DEF ReadingInv

\* Every step of a reading, and of the shop meanwhile, keeps the invariant.
LEMMA ReadingStepKeeps == ReadingInv /\ [DashboardNext]_dashboardVars => ReadingInv'
<1> SUFFICES ASSUME ReadingInv, [DashboardNext]_dashboardVars PROVE ReadingInv'
  OBVIOUS
<1>1. CASE UNCHANGED dashboardVars
  BY <1>1 DEF dashboardVars, ReadingInv, RowsStand, NoneMissed, FoundBy, Placed
<1>2. CASE \E n \in Windows : Dashboard(n) \/ GetBusinessSnapshot(n)
  BY <1>2, BeginKeepsReadings DEF Dashboard, GetBusinessSnapshot
<1>3. CASE \E n \in Windows, step \in {"day", "week", "month"}, segment \in Segments \cup {DOMAIN Stock} :
             QueryMetrics(n, step, segment)
  BY <1>3, BeginKeepsReadings DEF QueryMetrics, ShopUnchanged
<1>4. CASE Show
  BY <1>4 DEF Show, ReadingInv, Nobody
<1>5. CASE Totals \/ Series \/ GetInventoryAlerts
  BY <1>5, OtherCallsKeep
<1> QED BY <1>1, <1>2, <1>3, <1>4, <1>5, AttentionKeeps, PlaceKeeps, MoveKeeps, NextDayKeeps DEF DashboardNext

\* MissedOnlyBehindNewer: for any orders, windows and limit, an order nobody touched during the
\* reading is reported with everything that is wrong with it, unless the search for it returned
\* as many newer orders as it may (get_order_issues, _search_orders, derive_issues).
THEOREM UntouchedOrdersAreReported == DashboardSpec => MissedOnlyBehindNewer
<1>1. ReadingInv /\ [DashboardNext]_dashboardVars =>
        [SearchOrders /\ read'.at = "answered" =>
           \A o \in Placed \ moved : \A k \in IssuesOf(order[o]) :
             \/ <<o, k>> \in read'.issues
             \/ LET got == read'.got[SearchFor[k]] IN
                /\ Cardinality(got) >= Limit
                /\ \A p \in got : Newer(p, o)]_dashboardVars
  <2>1. SUFFICES ASSUME ReadingInv, SearchOrders, read'.at = "answered",
                        NEW o \in Placed \ moved, NEW k \in IssuesOf(order[o])
                 PROVE  \/ <<o, k>> \in read'.issues
                        \/ /\ Cardinality(read'.got[SearchFor[k]]) >= Limit
                           /\ \A p \in read'.got[SearchFor[k]] : Newer(p, o)
    BY DEF MissedOnlyBehindNewer
  <2>2. ReadingInv' /\ UNCHANGED <<order, today, moved>>
    BY <2>1, AttentionKeeps DEF SearchOrders, ShopUnchanged
  <2>3. read.at = "commented" /\ IsReading(read) /\ read # Nobody
    BY <2>1 DEF SearchOrders, ReadingInv, After, Nobody, Searches
  <2>4. read' # Nobody /\ IsReading(read') /\ read'.kind # "metric"
    <3>1. read'.at # Nobody.at /\ read'.kind = read.kind
      BY <2>1, <2>3 DEF Nobody, SearchOrders, IsReading, ReadingFields
    <3> QED BY <2>1, <2>2, <2>3, <3>1 DEF ReadingInv, IsReading
  <2>5. RowsStand' /\ \A s \in Searches : /\ NoneMissed(s)'
                                          /\ \A p \in read'.got[s] : \E row \in read'.rows : row[1] = p
    BY <2>1, <2>2, <2>4 DEF ReadingInv, Searched
  <2>6. k \in IssueKinds /\ SearchFor[k] \in Searches /\ o \in FoundBy(SearchFor[k])
    <3>1. CASE k = "delayed"
      BY <2>1, <3>1 DEF IssuesOf, IssueKinds, SearchFor, Searches, FoundBy
    <3>2. CASE k = "payment_failed"
      BY <2>1, <3>2 DEF IssuesOf, IssueKinds, SearchFor, Searches, FoundBy, PaymentProblem
    <3>3. CASE k = "buyer_message"
      BY <2>1, <3>3 DEF IssuesOf, IssueKinds, SearchFor, Searches, FoundBy
    <3> QED BY <2>1, <3>1, <3>2, <3>3 DEF IssuesOf
  <2>7. FoundBy(SearchFor[k])' = FoundBy(SearchFor[k])
    BY <2>2 DEF FoundBy, Placed
  <2>8. CASE o \in read'.got[SearchFor[k]]
    <3>1. PICK row \in read'.rows : row[1] = o
      BY <2>5, <2>6, <2>8
    <3>2. row[2] = order[o]
      BY <2>1, <2>2, <2>5, <3>1 DEF RowsStand
    <3>3. read'.issues = {i \in Placed \X IssueKinds :
                            \E r \in read'.rows : r[1] = i[1] /\ i[2] \in IssuesOf(r[2])}
      BY <2>1, <2>3 DEF SearchOrders, IsReading, ReadingFields
    <3> QED BY <2>1, <2>6, <3>1, <3>2, <3>3
  <2> QED BY <2>1, <2>2, <2>5, <2>6, <2>7, <2>8 DEF NoneMissed
<1> QED BY <1>1, ReadingsBegin, ReadingStepKeeps, PTL DEF DashboardSpec, MissedOnlyBehindNewer

-----------------------------------------------------------------------------
(* MerchantDashboard: a sum of numbers counts its units, and a chart the orders of its window. *)

\* A set of numbers has a least one.
LEMMA LeastPlace ==
  ASSUME NEW T \in SUBSET Nat, T # {}
  PROVE  \E n \in T : \A m \in T : n <= m
<1>1. PICK t \in T : TRUE
  OBVIOUS
<1> DEFINE below == {i \in 0 .. t : t - i \in T}
<1>2. below \in SUBSET Nat /\ 0 \in below
  BY <1>1
<1>3. IsFiniteSet(below)
  <2>1. IsFiniteSet(0 .. t)
    BY <1>1, FS_Interval
  <2> QED BY <2>1, FS_Subset
<1>4. PICK i \in below : \A k \in below : k <= i
  <2> HIDE DEF below
  <2> QED BY <1>2, <1>3, LastPlace
<1>5. ASSUME NEW m \in T PROVE t - i <= m
  <2>1. CASE m <= t
    <3>1. t - m \in below
      BY <1>1, <2>1
    <3> QED BY <1>1, <1>4, <3>1
  <2>2. CASE m > t
    BY <1>1, <1>4, <2>2
  <2> QED BY <1>1, <2>1, <2>2
<1> QED BY <1>4, <1>5

\* As many elements as the numbers f[x] of the elements of S sum up to.
Units(f, S) == UNION {{x} \X (1 .. f[x]) : x \in S}

\* Finitely many numbers have finitely many units.
LEMMA UnitsFinite ==
  ASSUME NEW S, IsFiniteSet(S), NEW f, \A x \in S : f[x] \in Nat
  PROVE  IsFiniteSet(Units(f, S)) /\ Cardinality(Units(f, S)) \in Nat
<1> DEFINE part == [x \in S |-> {x} \X (1 .. f[x])]
           parts == {{x} \X (1 .. f[x]) : x \in S}
<1>1. part \in Surjection(S, parts)
  BY DEF Surjection
<1>2. IsFiniteSet(parts)
  BY <1>1, FS_Surjection
<1>3. ASSUME NEW p \in parts PROVE IsFiniteSet(p)
  <2>1. PICK x \in S : p = {x} \X (1 .. f[x])
    OBVIOUS
  <2>2. 1 \in Int /\ f[x] \in Int
    OBVIOUS
  <2>3. IsFiniteSet({x}) /\ IsFiniteSet(1 .. f[x])
    BY <2>2, FS_Singleton, FS_Interval
  <2> QED BY <2>1, <2>3, FS_Product
<1>4. IsFiniteSet(UNION parts)
  <2> HIDE DEF parts
  <2> QED BY <1>2, <1>3, FS_UNION
<1> QED BY <1>4, FS_CardinalityType DEF Units

\* An element adds its number.
LEMMA UnitsOfOneMore ==
  ASSUME NEW S, IsFiniteSet(S), NEW f, \A x \in S : f[x] \in Nat, NEW x \in S
  PROVE  Cardinality(Units(f, S)) = f[x] + Cardinality(Units(f, S \ {x}))
<1> DEFINE mine == {x} \X (1 .. f[x])
           rest == Units(f, S \ {x})
<1>1. IsFiniteSet(mine) /\ Cardinality(mine) = f[x]
  <2>1. IsFiniteSet({x}) /\ Cardinality({x}) = 1
    BY FS_Singleton
  <2>2. IsFiniteSet(1 .. f[x]) /\ Cardinality(1 .. f[x]) = f[x]
    BY FS_Interval
  <2>3. Cardinality({x} \X (1 .. f[x])) = 1 * f[x]
    BY <2>1, <2>2, FS_Product
  <2> QED BY <2>1, <2>2, <2>3, FS_Product
<1>2. IsFiniteSet(rest) /\ Cardinality(rest) \in Nat
  <2>1. IsFiniteSet(S \ {x})
    BY FS_Subset
  <2> QED BY <2>1, UnitsFinite
<1>3. Units(f, S) = mine \cup rest
  BY DEF Units
<1>4. mine \cap rest = {}
  BY DEF Units
<1> HIDE DEF mine, rest
<1>5. Cardinality(mine \cup rest) = Cardinality(mine) + Cardinality(rest) - 0
  BY <1>1, <1>2, <1>4, FS_Union, FS_EmptySet
<1> QED BY <1>1, <1>2, <1>3, <1>5 DEF rest

\* What a fold that sums numbers computes for each subset.
Running(h, f, S) ==
  h = [s \in SUBSET S |-> IF s = {} THEN 0
                          ELSE f[CHOOSE x \in s : TRUE] + h[s \ {CHOOSE x \in s : TRUE}]]

\* There is such a function.
LEMMA RunningSum ==
  ASSUME NEW S, IsFiniteSet(S), NEW f, \A x \in S : f[x] \in Nat
  PROVE  \E h : Running(h, f, S)
<1> DEFINE h == [s \in SUBSET S |-> Cardinality(Units(f, s))]
           sum == [s \in SUBSET S |-> IF s = {} THEN 0
                          ELSE f[CHOOSE x \in s : TRUE] + h[s \ {CHOOSE x \in s : TRUE}]]
<1>1. ASSUME NEW s \in SUBSET S PROVE h[s] = sum[s]
  <2>1. CASE s = {}
    BY <2>1, FS_EmptySet DEF Units
  <2>2. CASE s # {}
    <3> DEFINE x == CHOOSE x \in s : TRUE
    <3>1. x \in s /\ IsFiniteSet(s) /\ s \ {x} \in SUBSET S
      BY <2>2, FS_Subset
    <3> HIDE DEF x
    <3>2. Cardinality(Units(f, s)) = f[x] + Cardinality(Units(f, s \ {x}))
      BY <3>1, UnitsOfOneMore
    <3>3. h[s] = f[x] + h[s \ {x}]
      BY <3>1, <3>2
    <3> QED BY <2>2, <3>3 DEF x
  <2> QED BY <2>1, <2>2
<1>2. h = sum
  BY <1>1
<1> QED BY <1>2 DEF Running

\* Any such function gives for a set as much as it has units.
LEMMA SumIsCount ==
  ASSUME NEW S, IsFiniteSet(S), NEW f, \A x \in S : f[x] \in Nat, NEW h, Running(h, f, S)
  PROVE  h[S] = Cardinality(Units(f, S))
<1> DEFINE Wrong(s) == h[s] # Cardinality(Units(f, s))
           sizes == {Cardinality(s) : s \in {w \in SUBSET S : Wrong(w)}}
<1> SUFFICES ASSUME Wrong(S) PROVE FALSE
  OBVIOUS
<1>1. \A s \in SUBSET S : IsFiniteSet(s) /\ Cardinality(s) \in Nat
  BY FS_Subset, FS_CardinalityType
<1>2. PICK s \in SUBSET S : Wrong(s) /\ \A w \in SUBSET S : Wrong(w) => Cardinality(s) <= Cardinality(w)
  <2>1. sizes \in SUBSET Nat /\ sizes # {}
    BY <1>1
  <2>2. PICK n \in sizes : \A m \in sizes : n <= m
    <3> HIDE DEF sizes
    <3> QED BY <2>1, LeastPlace
  <2> QED BY <2>2
<1>3. h[s] = IF s = {} THEN 0 ELSE f[CHOOSE x \in s : TRUE] + h[s \ {CHOOSE x \in s : TRUE}]
  BY DEF Running
<1>4. CASE s = {}
  BY <1>2, <1>3, <1>4, FS_EmptySet DEF Units
<1>5. CASE s # {}
  <2> DEFINE x == CHOOSE x \in s : TRUE
  <2>1. x \in s /\ s \ {x} \in SUBSET S
    BY <1>5
  <2>2. h[s] = f[x] + h[s \ {x}]
    BY <1>3, <1>5
  <2> HIDE DEF x
  <2>3. Cardinality(s \ {x}) = Cardinality(s) - 1
    BY <1>1, <2>1, FS_RemoveElement
  <2>4. ~Wrong(s \ {x})
    BY <1>1, <1>2, <2>1, <2>3
  <2>5. Cardinality(Units(f, s)) = f[x] + Cardinality(Units(f, s \ {x}))
    BY <1>1, <2>1, UnitsOfOneMore
  <2> QED BY <1>2, <2>2, <2>4, <2>5
<1> QED BY <1>4, <1>5

\* Numbers that count disjoint sets have as many units as the sets have elements together.
LEMMA PartsCount ==
  ASSUME NEW D, IsFiniteSet(D), NEW P, NEW f,
         \A d \in D : IsFiniteSet(P[d]) /\ f[d] = Cardinality(P[d]),
         \A d, e \in D : d # e => P[d] \cap P[e] = {}
  PROVE  Cardinality(Units(f, D)) = Cardinality(UNION {P[d] : d \in D})
<1> DEFINE count == [d \in D |-> CHOOSE b : b \in Bijection(1 .. f[d], P[d])]
           all == UNION {P[d] : d \in D}
           nth == [u \in Units(f, D) |-> count[u[1]][u[2]]]
<1>1. \A d \in D : f[d] \in Nat /\ count[d] \in Bijection(1 .. f[d], P[d])
  <2>1. SUFFICES ASSUME NEW d \in D PROVE f[d] \in Nat /\ count[d] \in Bijection(1 .. f[d], P[d])
    OBVIOUS
  <2>2. Cardinality(P[d]) \in Nat /\ ExistsBijection(1 .. f[d], P[d])
    BY FS_CardinalityType
  <2> QED BY <2>2 DEF ExistsBijection
<1> HIDE DEF count
<1>2. \A u \in Units(f, D) : u = <<u[1], u[2]>> /\ u[1] \in D /\ u[2] \in 1 .. f[u[1]]
  BY DEF Units
<1>3. \A d \in D : \A i \in 1 .. f[d] : <<d, i>> \in Units(f, D) /\ count[d][i] \in P[d]
  BY <1>1 DEF Units, Bijection, Injection
<1>4. nth \in [Units(f, D) -> all]
  BY <1>2, <1>3
<1>5. ASSUME NEW u \in Units(f, D), NEW w \in Units(f, D), nth[u] = nth[w] PROVE u = w
  <2>1. nth[u] \in P[u[1]] /\ nth[w] \in P[w[1]]
    BY <1>2, <1>3
  <2>2. u[1] = w[1]
    BY <1>2, <1>5, <2>1
  <2>3. count[u[1]][u[2]] = count[u[1]][w[2]]
    BY <1>5, <2>2
  <2>4. u[2] = w[2]
    BY <1>1, <1>2, <2>2, <2>3 DEF Bijection, Injection, IsInjective
  <2> QED BY <1>2, <2>2, <2>4
<1>6. ASSUME NEW x \in all PROVE \E u \in Units(f, D) : nth[u] = x
  <2>1. PICK d \in D : x \in P[d]
    OBVIOUS
  <2>2. PICK i \in 1 .. f[d] : count[d][i] = x
    BY <1>1, <2>1 DEF Bijection, Surjection
  <2>3. <<d, i>> \in Units(f, D)
    BY <1>3
  <2>4. nth[<<d, i>>] = x
    BY <2>2, <2>3
  <2> QED BY <2>3, <2>4
<1>7. nth \in Bijection(Units(f, D), all)
  <2> HIDE DEF nth, all
  <2> QED BY <1>4, <1>5, <1>6 DEF Bijection, Injection, Surjection, IsInjective
<1>8. IsFiniteSet(Units(f, D))
  BY <1>1, UnitsFinite
<1> QED BY <1>7, <1>8, FS_Bijection DEF ExistsBijection

\* The sales of some orders are as many as their amounts have units.
LEMMA SalesAreUnits ==
  ASSUME NEW os \in SUBSET DOMAIN Amount, IsFiniteSet(os)
  PROVE  /\ Sales(os) = Cardinality(Units(Amount, os)) /\ Sales(os) \in Nat
         /\ IsFiniteSet(Units(Amount, os))
<1>1. \A o \in os : Amount[o] \in Nat
  BY DashboardAssumption
<1>2. \E h : Running(h, Amount, os)
  BY <1>1, RunningSum
<1>3. Sales(os) = (CHOOSE h : Running(h, Amount, os))[os]
  BY DEF Sales, MapThenSumSet, MapThenFoldSet, Running
<1>4. Running(CHOOSE h : Running(h, Amount, os), Amount, os)
  BY <1>2
<1>5. Sales(os) = Cardinality(Units(Amount, os))
  BY <1>1, <1>3, <1>4, SumIsCount
<1> QED BY <1>1, <1>5, UnitsFinite

\* The sales of two disjoint sets of orders are those of one and of the other.
LEMMA SalesOfBoth ==
  ASSUME NEW os \in SUBSET DOMAIN Amount, IsFiniteSet(os),
         NEW ps \in SUBSET DOMAIN Amount, IsFiniteSet(ps), os \cap ps = {}
  PROVE  Sales(os \cup ps) = Sales(os) + Sales(ps)
<1>1. IsFiniteSet(os \cup ps) /\ os \cup ps \in SUBSET DOMAIN Amount
  BY FS_Union
<1>2. Units(Amount, os \cup ps) = Units(Amount, os) \cup Units(Amount, ps)
  BY DEF Units
<1>3. Units(Amount, os) \cap Units(Amount, ps) = {}
  BY DEF Units
<1>4. Cardinality(Units(Amount, os) \cup Units(Amount, ps))
        = Cardinality(Units(Amount, os)) + Cardinality(Units(Amount, ps)) - 0
  BY <1>3, SalesAreUnits, FS_Union, FS_EmptySet
<1>5. /\ Sales(os) = Cardinality(Units(Amount, os)) /\ Sales(os) \in Nat
      /\ Sales(ps) = Cardinality(Units(Amount, ps)) /\ Sales(ps) \in Nat
  BY SalesAreUnits
<1>6. Sales(os \cup ps) = Cardinality(Units(Amount, os \cup ps))
  BY <1>1, SalesAreUnits
<1>7. Cardinality(Units(Amount, os \cup ps)) = Sales(os) + Sales(ps) - 0
  BY <1>2, <1>4, <1>5
<1> QED BY <1>5, <1>6, <1>7

\* What some of the orders sold is no more than what all of them did.
LEMMA SalesOfSome ==
  ASSUME NEW os \in SUBSET DOMAIN Amount, IsFiniteSet(os), NEW ps \in SUBSET os
  PROVE  Sales(ps) <= Sales(os) /\ Cardinality(ps) <= Cardinality(os)
<1>1. IsFiniteSet(ps) /\ IsFiniteSet(os \ ps) /\ Cardinality(ps) <= Cardinality(os)
  BY FS_Subset
<1>2. Sales(ps \cup (os \ ps)) = Sales(ps) + Sales(os \ ps)
  BY <1>1, SalesOfBoth
<1>3. ps \cup (os \ ps) = os
  OBVIOUS
<1> QED BY <1>1, <1>2, <1>3, SalesAreUnits

\* The points of a chart sum up to as much as their numbers have units.
LEMMA TotalIsUnits ==
  ASSUME NEW points, IsFiniteSet(DOMAIN points), NEW of, NEW f,
         \A d \in DOMAIN points : f[d] = points[d][of] /\ f[d] \in Nat
  PROVE  Total(points, of) = Cardinality(Units(f, DOMAIN points))
<1> DEFINE D == DOMAIN points
           Adds(h) == h = [s \in SUBSET D |->
              IF s = {} THEN 0 ELSE points[CHOOSE x \in s : TRUE][of] + h[s \ {CHOOSE x \in s : TRUE}]]
<1>1. ASSUME NEW h PROVE Adds(h) <=> Running(h, f, D)
  <2>1. ASSUME NEW s \in SUBSET D
        PROVE  (IF s = {} THEN 0
                ELSE points[CHOOSE x \in s : TRUE][of] + h[s \ {CHOOSE x \in s : TRUE}])
             = (IF s = {} THEN 0 ELSE f[CHOOSE x \in s : TRUE] + h[s \ {CHOOSE x \in s : TRUE}])
    <3>1. s # {} => (CHOOSE x \in s : TRUE) \in D
      OBVIOUS
    <3> QED BY <3>1
  <2> QED BY <2>1 DEF Running
<1>2. Total(points, of) = (CHOOSE h : Adds(h))[D]
  BY DEF Total, MapThenSumSet, MapThenFoldSet
<1> HIDE DEF Adds
<1>3. \E h : Adds(h)
  BY <1>1, RunningSum
<1>4. Running(CHOOSE h : Adds(h), f, D)
  BY <1>1, <1>3
<1> QED BY <1>2, <1>4, SumIsCount

\* Every day falls into a week that begins on a Monday.
LEMMA WeekOfDay ==
  ASSUME NEW day \in Int
  PROVE  LET w == BucketOf(day, "week") IN w \in Int /\ w <= day /\ day < w + 7 /\ w % 7 = 0
BY DEF BucketOf

\* A day behind the start of a month falls into the last month that has started.
LEMMA MonthOfDay ==
  ASSUME NEW day \in Int, NEW first \in MonthStarts, first <= day
  PROVE  LET b == BucketOf(day, "month") IN
         b \in MonthStarts /\ b <= day /\ \A n \in MonthStarts : n <= day => n <= b
<1>1. MonthStarts \subseteq Int
  BY DashboardAssumption
<1> DEFINE since == {i \in 0 .. day - first : first + i \in MonthStarts}
<1>2. since \in SUBSET Nat /\ 0 \in since
  BY <1>1
<1>3. IsFiniteSet(since)
  <2>1. 0 \in Int /\ day - first \in Int
    BY <1>1
  <2>2. IsFiniteSet(0 .. day - first)
    BY <2>1, FS_Interval
  <2> QED BY <2>2, FS_Subset
<1>4. PICK i \in since : \A k \in since : k <= i
  <2> HIDE DEF since
  <2> QED BY <1>2, <1>3, LastPlace
<1>5. ASSUME NEW n \in MonthStarts, n <= day PROVE n <= first + i
  <2>1. CASE n < first
    BY <1>1, <1>4, <2>1
  <2>2. CASE n >= first
    <3>1. n - first \in since
      BY <1>1, <1>5, <2>2
    <3> QED BY <1>1, <1>4, <3>1
  <2> QED BY <1>1, <2>1, <2>2
<1>6. \E m \in MonthStarts : m <= day /\ \A n \in MonthStarts : n <= day => n <= m
  <2>1. first + i \in MonthStarts /\ first + i <= day
    BY <1>1, <1>4
  <2> QED BY <1>5, <2>1
<1> QED BY <1>6 DEF BucketOf

\* Windows a series is taken of: of days, within months.
IsWindow(p) ==
  p.start \in Int /\ p.end \in Int /\ p.start < p.end /\ \E m \in MonthStarts : m <= p.start

\* Every day of a window falls into one of its buckets.
LEMMA DaysHaveBuckets ==
  ASSUME NEW p, IsWindow(p), NEW step \in {"day", "week", "month"}
  PROVE  /\ IsFiniteSet(BucketStarts(p, step))
         /\ \A day \in p.start .. p.end - 1 : BucketOf(day, step) \in BucketStarts(p, step)
<1>1. p.start \in Int /\ p.end \in Int /\ MonthStarts \subseteq Int
  BY DashboardAssumption DEF IsWindow
<1>2. PICK first \in MonthStarts : first <= p.start
  BY DEF IsWindow
<1>3. BucketOf(p.start, step) \in Int
  BY <1>1, <1>2, WeekOfDay, MonthOfDay DEF BucketOf
<1>4. IsFiniteSet(BucketStarts(p, step))
  <2>1. p.end - 1 \in Int
    BY <1>1
  <2>2. IsFiniteSet(BucketOf(p.start, step) .. p.end - 1)
    BY <1>3, <2>1, FS_Interval
  <2>3. BucketStarts(p, step) \in SUBSET (BucketOf(p.start, step) .. p.end - 1)
    BY DEF BucketStarts
  <2> QED BY <2>2, <2>3, FS_Subset
<1>5. ASSUME NEW day \in p.start .. p.end - 1
      PROVE  /\ BucketOf(day, step) \in BucketOf(p.start, step) .. p.end - 1
             /\ BucketOf(BucketOf(day, step), step) = BucketOf(day, step)
  <2>1. day \in Int /\ p.start <= day /\ day <= p.end - 1
    BY <1>1
  <2>2. CASE step = "day"
    BY <1>1, <2>1, <2>2 DEF BucketOf
  <2>3. CASE step = "week"
    <3> DEFINE w == BucketOf(day, "week")
               s == BucketOf(p.start, "week")
    <3>1. w \in Int /\ w <= day /\ day < w + 7 /\ w % 7 = 0
      BY <2>1, WeekOfDay
    <3>2. s \in Int /\ s <= p.start /\ p.start < s + 7 /\ s % 7 = 0
      BY <1>1, WeekOfDay
    <3>3. BucketOf(w, "week") = w - (w % 7)
      BY DEF BucketOf
    <3> HIDE DEF w, s
    <3>4. s <= w
      BY <1>1, <2>1, <3>1, <3>2
    <3>5. BucketOf(w, "week") = w
      BY <3>1, <3>3
    <3> QED BY <1>1, <2>1, <2>3, <3>1, <3>2, <3>4, <3>5 DEF w, s
  <2>4. CASE step = "month"
    <3> DEFINE m == BucketOf(day, "month")
               s == BucketOf(p.start, "month")
               l == BucketOf(m, "month")
    <3>1. m \in MonthStarts /\ m <= day /\ \A n \in MonthStarts : n <= day => n <= m
      BY <1>1, <1>2, <2>1, MonthOfDay
    <3>2. s \in MonthStarts /\ s <= p.start /\ \A n \in MonthStarts : n <= p.start => n <= s
      BY <1>1, <1>2, MonthOfDay
    <3>3. l \in MonthStarts /\ l <= m /\ \A n \in MonthStarts : n <= m => n <= l
      BY <1>1, <3>1, MonthOfDay
    <3> HIDE DEF m, s, l
    <3>4. s <= m /\ l = m /\ m <= p.end - 1
      BY <1>1, <2>1, <3>1, <3>2, <3>3
    <3>5. BucketOf(day, step) = m /\ BucketOf(p.start, step) = s /\ BucketOf(m, step) = l
      BY <2>4 DEF m, s, l
    <3>6. m \in Int /\ s \in Int
      BY <1>1, <3>1, <3>2
    <3> QED BY <1>1, <3>4, <3>5, <3>6
  <2> QED BY <2>2, <2>3, <2>4
<1> QED BY <1>4, <1>5 DEF BucketStarts

\* A chart whose buckets hold every order counted has their number and their sales.
LEMMA ChartOfAll ==
  ASSUME NEW p, NEW step, IsFiniteSet(BucketStarts(p, step)),
         NEW counted \in SUBSET DOMAIN Amount, IsFiniteSet(counted),
         \A o \in counted : BucketOf(order[o].day, step) \in BucketStarts(p, step)
  PROVE  /\ Total(SeriesPoints(p, step, counted), "orders") = Cardinality(counted)
         /\ Total(SeriesPoints(p, step, counted), "sales") = Sales(counted)
<1> DEFINE D == BucketStarts(p, step)
           P == [d \in D |-> {o \in counted : BucketOf(order[o].day, step) = d}]
           U == [d \in D |-> Units(Amount, P[d])]
           points == SeriesPoints(p, step, counted)
<1>1. DOMAIN points = D /\ \A d \in D : points[d] = [orders |-> Cardinality(P[d]), sales |-> Sales(P[d])]
  BY DEF SeriesPoints
<1>2. \A d \in D : P[d] \in SUBSET counted
  OBVIOUS
<1>3. \A d, e \in D : d # e => P[d] \cap P[e] = {}
  OBVIOUS
<1>4. UNION {P[d] : d \in D} = counted
  OBVIOUS
<1>5. \A d \in D : U[d] = Units(Amount, P[d])
  OBVIOUS
<1> HIDE DEF D, P, U, points
<1>6. \A d \in D : /\ IsFiniteSet(P[d]) /\ Cardinality(P[d]) \in Nat /\ IsFiniteSet(U[d])
                    /\ Sales(P[d]) = Cardinality(U[d]) /\ Sales(P[d]) \in Nat
  <2>1. SUFFICES ASSUME NEW d \in D
                 PROVE  /\ IsFiniteSet(P[d]) /\ Cardinality(P[d]) \in Nat /\ IsFiniteSet(U[d])
                        /\ Sales(P[d]) = Cardinality(U[d]) /\ Sales(P[d]) \in Nat
    OBVIOUS
  <2>2. IsFiniteSet(P[d]) /\ Cardinality(P[d]) \in Nat
    BY <1>2, FS_Subset, FS_CardinalityType
  <2>3. P[d] \in SUBSET DOMAIN Amount
    BY <1>2
  <2> QED BY <1>5, <2>2, <2>3, SalesAreUnits
<1>7. IsFiniteSet(D)
  BY DEF D
<1>8. Total(points, "orders") = Cardinality(counted)
  <2> DEFINE f == [d \in D |-> points[d]["orders"]]
  <2>1. \A d \in D : f[d] = points[d]["orders"] /\ f[d] = Cardinality(P[d])
    BY <1>1
  <2> HIDE DEF f
  <2>2. Total(points, "orders") = Cardinality(Units(f, D))
    BY <1>1, <1>6, <1>7, <2>1, TotalIsUnits
  <2>3. \A d \in D : IsFiniteSet(P[d]) /\ f[d] = Cardinality(P[d])
    BY <1>6, <2>1
  <2>4. Cardinality(Units(f, D)) = Cardinality(UNION {P[d] : d \in D})
    BY <1>3, <1>7, <2>3, PartsCount
  <2> QED BY <1>4, <2>2, <2>4
<1>9. Total(points, "sales") = Sales(counted)
  <2> DEFINE f == [d \in D |-> points[d]["sales"]]
  <2>1. \A d \in D : f[d] = points[d]["sales"] /\ f[d] = Cardinality(U[d]) /\ f[d] \in Nat
    BY <1>1, <1>6
  <2> HIDE DEF f
  <2>2. Total(points, "sales") = Cardinality(Units(f, D))
    BY <1>1, <1>7, <2>1, TotalIsUnits
  <2>3. \A d, e \in D : d # e => U[d] \cap U[e] = {}
    BY <1>3, <1>5 DEF Units
  <2>4. \A d \in D : IsFiniteSet(U[d]) /\ f[d] = Cardinality(U[d])
    BY <1>6, <2>1
  <2>5. Cardinality(Units(f, D)) = Cardinality(UNION {U[d] : d \in D})
    BY <1>7, <2>3, <2>4, PartsCount
  <2>6. UNION {U[d] : d \in D} = Units(Amount, counted)
    BY <1>4, <1>5 DEF Units
  <2> QED BY <2>2, <2>5, <2>6, SalesAreUnits
<1> QED BY <1>8, <1>9 DEF points

-----------------------------------------------------------------------------
(* MerchantDashboard: what a reading holds while no order is touched. *)

SalesOf(p) == Sales(Counted(p))

\* What a reading took is what the orders, as they stand, make of its window.
TakenStands(r) ==
  /\ r.kind # "metric" /\ r.at # "totals" =>
       r.sales = SalesOf(r.period) /\ r.orders = Cardinality(Counted(r.period))
  /\ r.kind # "metric" /\ r.at \notin {"totals", "previous"} => r.before = SalesOf(Previous(r.period))
  /\ r.kind # "snapshot" /\ r.at \notin {"totals", "previous", "series"} =>
       r.points = SeriesPoints(r.period, r.step, LinesOf(r.segment, Counted(r.period)))

\* So is what was shown last.
ShownStands(t) ==
  /\ t.sales = SalesOf(t.period) /\ t.orders = Cardinality(Counted(t.period))
  /\ t.before = SalesOf(Previous(t.period))

\* A reading is of a window, and its series of products of the shop.
AsksOfWindow(r) ==
  /\ IsWindow(r.period) /\ r.segment \subseteq DOMAIN Stock
  /\ r.kind # "snapshot" => r.step \in {"day", "week", "month"}

\* The invariant: between its begin and its answer, what a reading holds stands until an order is
\* touched; what was shown before a metric query stands as well.
ChartInv ==
  /\ Len(order) <= Len(Amount)
  /\ read = Nobody => moved = {}
  /\ \A r \in {read} \ {Nobody} : AsksOfWindow(r) /\ (moved = {} => TakenStands(r))
  /\ \A t \in {shown} \ {Nobody} : moved = {} => ShownStands(t)

\* What holds of a reading depends on the orders only.
LEMMA SameOrders ==
  ASSUME UNCHANGED order, NEW r
  PROVE  /\ TakenStands(r) => TakenStands(r)'
         /\ ShownStands(r) => ShownStands(r)'
<1>1. \A p : Counted(p)' = Counted(p)
  BY DEF Counted, Placed
<1>2. \A p : SalesOf(p)' = SalesOf(p)
  BY <1>1 DEF SalesOf
<1>3. \A p, step, os : SeriesPoints(p, step, os)' = SeriesPoints(p, step, os)
  BY DEF SeriesPoints
<1> QED BY <1>1, <1>2, <1>3 DEF TakenStands, ShownStands

\* Nothing has been placed or asked in the beginning.
LEMMA ChartsBegin == DashboardInit => ChartInv
BY DashboardAssumption DEF DashboardInit, ChartInv

\* A reading is of the last days, today included, and of the products asked for.
LEMMA BeginKeepsCharts ==
  ASSUME ReadingInv, ChartInv, NEW kind \in {"dashboard", "snapshot", "metric"}, NEW n \in Windows,
         NEW step, step \in {"day", "week", "month"} \/ kind = "snapshot",
         NEW segment \in SUBSET DOMAIN Stock,
         BeginReading(kind, n, step, segment), UNCHANGED order, moved' = {},
         shown' = Nobody \/ UNCHANGED shown
  PROVE  ChartInv'
<1>1. /\ read'.kind = kind /\ read'.at = FirstCall[kind] /\ read'.period = LastDays(n)
      /\ read'.step = step /\ read'.segment = segment
  BY DEF BeginReading
<1>2. read'.at = IF kind = "metric" THEN "series" ELSE "totals"
  BY <1>1 DEF FirstCall
<1>3. IsWindow(LastDays(n))
  <2>1. today \in Days /\ today \in Int /\ n \in Nat /\ n # 0 /\ Windows \subseteq Nat
    BY DashboardAssumption DEF ReadingInv
  <2>2. \E m \in MonthStarts : m <= today - (n - 1)
    BY <2>1, MonthsAssumption
  <2> QED BY <2>1, <2>2 DEF IsWindow, LastDays, Period
<1>4. PICK r : r = read'
  OBVIOUS
<1>5. AsksOfWindow(r)
  BY <1>1, <1>3, <1>4 DEF AsksOfWindow
<1>6. TakenStands(r)'
  BY <1>1, <1>2, <1>4 DEF TakenStands
<1>7. read = Nobody \/ read.at = "idle"
  BY DEF BeginReading
<1>8. \A t \in {shown'} \ {Nobody} : ShownStands(t)'
  <2>1. moved = {}
    <3>1. read = Nobody
      BY <1>7 DEF ReadingInv, IsReading, Nobody
    <3> QED BY <3>1 DEF ChartInv
  <2>2. SUFFICES ASSUME NEW t \in {shown'} \ {Nobody} PROVE ShownStands(t)'
    OBVIOUS
  <2>3. ShownStands(t)
    BY <2>1, <2>2 DEF ChartInv
  <2> QED BY <2>3, SameOrders
<1>9. read' # Nobody
  BY <1>2 DEF Nobody
<1>10. Len(order') <= Len(Amount)
  BY DEF ChartInv
<1>11. AsksOfWindow(r)'
  BY <1>5 DEF AsksOfWindow, IsWindow
<1> QED BY <1>4, <1>6, <1>8, <1>9, <1>10, <1>11 DEF ChartInv

\* A call takes what it takes from the orders as they stand, and leaves what was taken before.
LEMMA CallsKeepCharts ==
  ASSUME ReadingInv, ChartInv, Totals \/ Series \/ GetInventoryAlerts \/ SearchOrders
  PROVE  ChartInv'
<1>1. UNCHANGED <<order, shown, moved>> /\ read # Nobody /\ IsReading(read)
      /\ read.at \in {"totals", "previous", "series", "units"} \cup Searches
  BY DEF ReadingInv, Totals, Series, GetInventoryAlerts, SearchOrders, ShopUnchanged, Nobody, Searches
<1>2. PICK r : r = read
  OBVIOUS
<1>3. PICK q : q = read'
  OBVIOUS
<1>4. AsksOfWindow(r) /\ (moved = {} => TakenStands(r))
  BY <1>1, <1>2 DEF ChartInv
<1>5. /\ q.kind = r.kind /\ q.period = r.period /\ q.step = r.step /\ q.segment = r.segment
      /\ q.at = After(r.at)
      /\ r.at = "totals" \/ (q.sales = r.sales /\ q.orders = r.orders)
      /\ r.at = "previous" \/ q.before = r.before
      /\ r.at = "series" \/ q.points = r.points
      /\ r.at = "totals" => q.sales = SalesOf(r.period) /\ q.orders = Cardinality(Counted(r.period))
      /\ r.at = "previous" => q.before = SalesOf(Previous(r.period))
      /\ r.at = "series" => q.points = SeriesPoints(r.period, r.step, LinesOf(r.segment, Counted(r.period)))
  <2>1. CASE Totals
    <3>1. CASE read' = [read EXCEPT !.at = After("totals"), !.sales = Sales(Counted(read.period)),
                          !.orders = Cardinality(Counted(read.period))] /\ read.at = "totals"
      BY <1>1, <1>2, <1>3, <3>1 DEF IsReading, ReadingFields, SalesOf
    <3>2. CASE read' = [read EXCEPT !.at = After("previous"),
                                    !.before = Sales(Counted(Previous(read.period)))]
               /\ read.at = "previous"
      BY <1>1, <1>2, <1>3, <3>2 DEF IsReading, ReadingFields, SalesOf
    <3> QED BY <2>1, <3>1, <3>2 DEF Totals
  <2>2. CASE Series
    BY <1>1, <1>2, <1>3, <2>2 DEF IsReading, ReadingFields, Series
  <2>3. CASE GetInventoryAlerts
    BY <1>1, <1>2, <1>3, <2>3 DEF IsReading, ReadingFields, GetInventoryAlerts
  <2>4. CASE SearchOrders
    BY <1>1, <1>2, <1>3, <2>4 DEF IsReading, ReadingFields, SearchOrders, Searches
  <2> QED BY <2>1, <2>2, <2>3, <2>4
<1>6. ASSUME moved = {} PROVE TakenStands(q)
  <2>1. TakenStands(r)
    BY <1>4, <1>6
  <2>2. CASE r.at = "totals"
    <3>1. q.at = "previous" /\ q.kind # "metric"
      BY <1>1, <1>2, <1>5, <2>2 DEF IsReading, After
    <3> QED BY <1>5, <2>2, <3>1 DEF TakenStands
  <2>3. CASE r.at = "previous"
    <3>1. q.at = (IF q.kind = "dashboard" THEN "series" ELSE "units") /\ q.kind \in {"dashboard", "snapshot"}
      BY <1>1, <1>2, <1>5, <2>3 DEF IsReading, After
    <3> QED BY <1>5, <2>1, <2>3, <3>1 DEF TakenStands
  <2>4. CASE r.at = "series"
    BY <1>5, <2>1, <2>4 DEF TakenStands
  <2>5. CASE r.at \in {"units"} \cup Searches
    BY <1>5, <2>1, <2>5 DEF TakenStands, Searches
  <2> QED BY <1>1, <1>2, <2>2, <2>3, <2>4, <2>5
<1>7. AsksOfWindow(q) /\ AsksOfWindow(q)' /\ q # Nobody
  <2>1. q.at # "idle"
    BY <1>1, <1>2, <1>5 DEF After, Searches, IsReading
  <2> QED BY <1>4, <1>5, <2>1 DEF AsksOfWindow, IsWindow, Nobody
<1>8. moved' = {} => TakenStands(q)'
  BY <1>1, <1>6, SameOrders
<1>9. \A t \in {shown'} \ {Nobody} : moved' = {} => ShownStands(t)'
  BY <1>1, SameOrders DEF ChartInv
<1>10. Len(order') <= Len(Amount)
  BY <1>1 DEF ChartInv
<1> QED BY <1>3, <1>7, <1>8, <1>9, <1>10 DEF ChartInv

\* What is shown stands if no order was touched.
LEMMA ShowKeepsCharts == ASSUME ReadingInv, ChartInv, Show PROVE ChartInv'
<1>1. read # Nobody /\ IsReading(read) /\ read.at = "answered"
  BY DEF Show, ReadingInv, Nobody
<1>2. PICK r : r = read
  OBVIOUS
<1>3. ASSUME NEW t \in {shown'} \ {Nobody} PROVE ShownStands(t)'
  <2>1. /\ r.kind # "metric" /\ moved = {}
        /\ t.period = r.period /\ t.sales = r.sales /\ t.orders = r.orders /\ t.before = r.before
    BY <1>2, <1>3 DEF Show
  <2>2. TakenStands(r)
    BY <1>1, <1>2, <2>1 DEF ChartInv
  <2>3. ShownStands(t)
    BY <1>1, <1>2, <2>1, <2>2 DEF TakenStands, ShownStands
  <2>4. UNCHANGED order
    BY DEF Show
  <2> QED BY <2>3, <2>4, SameOrders
<1> QED BY <1>3 DEF Show, ChartInv

\* A touched order ends what stood.
LEMMA TouchKeepsCharts ==
  ASSUME ReadingInv, ChartInv, NEW o, Touched(o), UNCHANGED read, Len(order') <= Len(Amount)
  PROVE  ChartInv'
<1>1. CASE read = Nobody
  BY <1>1 DEF Touched, ChartInv
<1>2. CASE read # Nobody
  <2>1. moved' # {}
    BY <1>2 DEF Touched
  <2>2. PICK r : r = read
    OBVIOUS
  <2>3. AsksOfWindow(r)'
    BY <1>2, <2>2 DEF ChartInv, AsksOfWindow, IsWindow
  <2> QED BY <1>2, <2>1, <2>2, <2>3 DEF ChartInv
<1> QED BY <1>1, <1>2

\* Nothing but a new order, within the amounts there are, makes the list longer; midnight changes none.
LEMMA ShopKeepsCharts ==
  ASSUME ReadingInv, ChartInv, Place \/ (\E o \in Placed : Move(o)) \/ NextDay
  PROVE  ChartInv'
<1>1. CASE Place
  <2>1. Len(order') = Len(order) + 1 /\ Len(order) \in Nat /\ Len(Amount) \in Nat
    BY <1>1, DashboardAssumption DEF Place, ReadingInv
  <2> QED BY <1>1, <2>1, TouchKeepsCharts DEF Place
<1>2. ASSUME NEW o \in Placed, Move(o) PROVE ChartInv'
  <2>1. Len(order') = Len(order)
    BY <1>2 DEF Move, ReadingInv
  <2> QED BY <1>2, <2>1, TouchKeepsCharts DEF Move, ChartInv
<1>3. CASE NextDay
  <2>1. UNCHANGED <<order, read>>
    BY <1>3 DEF NextDay
  <2>2. CASE read = Nobody
    BY <1>3, <2>1, <2>2 DEF NextDay, ChartInv
  <2>3. CASE read # Nobody
    <3>1. UNCHANGED <<shown, moved>>
      BY <1>3, <2>3 DEF NextDay
    <3> QED BY <2>1, <3>1, SameOrders DEF ChartInv, AsksOfWindow, IsWindow
  <2> QED BY <2>2, <2>3
<1> QED BY <1>1, <1>2, <1>3

\* A step keeps what the readings hold.
LEMMA ChartStepKeeps == ASSUME ReadingInv, ChartInv, [DashboardNext]_dashboardVars PROVE ChartInv'
<1>1. CASE UNCHANGED dashboardVars
  BY <1>1, SameOrders DEF dashboardVars, ChartInv, AsksOfWindow, IsWindow
<1>2. ASSUME NEW n \in Windows, Dashboard(n) \/ GetBusinessSnapshot(n) PROVE ChartInv'
  <2>1. DashboardStep(n) \in {"day", "week", "month"} /\ DOMAIN Stock \in SUBSET DOMAIN Stock
    BY DEF DashboardStep
  <2> QED BY <1>2, <2>1, BeginKeepsCharts DEF Dashboard, GetBusinessSnapshot
<1>3. ASSUME NEW n \in Windows, NEW step \in {"day", "week", "month"},
             NEW segment \in Segments \cup {DOMAIN Stock}, QueryMetrics(n, step, segment)
      PROVE  ChartInv'
  <2>1. segment \in SUBSET DOMAIN Stock
    BY DashboardAssumption
  <2>2. moved' = {} /\ UNCHANGED <<order, shown>>
    <3>1. read = Nobody
      BY <1>3 DEF QueryMetrics, BeginReading, ReadingInv, IsReading
    <3> QED BY <1>3, <3>1 DEF QueryMetrics, ShopUnchanged, ChartInv
  <2> QED BY <1>3, <2>1, <2>2, BeginKeepsCharts DEF QueryMetrics
<1> QED BY <1>1, <1>2, <1>3, CallsKeepCharts, ShowKeepsCharts, ShopKeepsCharts DEF DashboardNext

\* A window and the one before it are twice as long.
LEMMA TwoWindows == \A s, e \in Int : e - 1 - 2 * (e - s) = s - (e - s) - 1
OBVIOUS

\* A chart and totals that both stand add up, by the calendar and by counting.
LEMMA StandingAddsUp ==
  ASSUME order \in Seq(Row), Len(order) <= Len(Amount), NEW r, AsksOfWindow(r), r.kind # "snapshot",
         r.points = SeriesPoints(r.period, r.step, LinesOf(r.segment, Counted(r.period))),
         NEW t, ShownStands(t), t.period = r.period
  PROVE  AddsUp(r, t)
<1> DEFINE p == r.period
           counted == Counted(p)
           lines == LinesOf(r.segment, counted)
           before == Counted(Previous(p))
<1>1. IsFiniteSet(Placed) /\ Placed \in SUBSET DOMAIN Amount
      /\ \A o \in Placed : order[o].day \in Int /\ ProductOf[o] \in DOMAIN Stock
  <2>1. Placed = 1 .. Len(order) /\ Len(order) \in Nat /\ \A o \in Placed : order[o] \in Row
    BY DEF Placed
  <2>2. DOMAIN Amount = 1 .. Len(Amount) /\ Len(Amount) \in Nat
    BY DashboardAssumption
  <2>3. IsFiniteSet(1 .. Len(order))
    <3>1. 1 \in Int /\ Len(order) \in Int
      BY <2>1
    <3> QED BY <3>1, FS_Interval
  <2>4. \A o \in Placed : o \in DOMAIN Amount
    BY <2>1, <2>2
  <2>5. \A o \in Placed : order[o].day \in Int
    BY <2>1, DashboardAssumption DEF Row
  <2> QED BY <2>1, <2>3, <2>4, <2>5, DashboardAssumption
<1>2. /\ counted \in SUBSET Placed /\ IsFiniteSet(counted) /\ counted \in SUBSET DOMAIN Amount
      /\ before \in SUBSET Placed /\ IsFiniteSet(before) /\ before \in SUBSET DOMAIN Amount
      /\ lines \in SUBSET counted /\ IsFiniteSet(lines) /\ lines \in SUBSET DOMAIN Amount
  <2>1. counted \in SUBSET Placed /\ before \in SUBSET Placed /\ lines \in SUBSET counted
    BY DEF Counted, LinesOf
  <2> HIDE DEF counted, before, lines
  <2>2. IsFiniteSet(counted) /\ IsFiniteSet(before)
    BY <1>1, <2>1, FS_Subset
  <2>3. IsFiniteSet(lines)
    BY <2>1, <2>2, FS_Subset
  <2> QED BY <1>1, <2>1, <2>2, <2>3
<1>3. IsWindow(p) /\ r.step \in {"day", "week", "month"}
  BY DEF AsksOfWindow
<1>4. p.start \in Int /\ p.end \in Int /\ p.start < p.end
  BY <1>3 DEF IsWindow
<1>5. \A o \in lines : order[o].day \in p.start .. p.end - 1
  BY DEF Counted, LinesOf
<1>6. /\ Total(r.points, "orders") = Cardinality(lines)
      /\ Total(r.points, "sales") = Sales(lines)
  <2>1. IsFiniteSet(BucketStarts(p, r.step))
        /\ \A o \in lines : BucketOf(order[o].day, r.step) \in BucketStarts(p, r.step)
    BY <1>3, <1>5, DaysHaveBuckets
  <2> QED BY <1>2, <2>1, ChartOfAll
<1>7. t.sales = Sales(counted) /\ t.orders = Cardinality(counted) /\ t.before = Sales(before)
  BY DEF ShownStands, SalesOf
<1>8. Sales(lines) <= Sales(counted) /\ Cardinality(lines) <= Cardinality(counted)
  BY <1>2, SalesOfSome
<1>9. r.segment = DOMAIN Stock => lines = counted
  BY <1>1, <1>2 DEF LinesOf
<1>10. Sales(counted) + Sales(before)
         = Sales({o \in Placed : /\ order[o].state # "cancelled"
                                 /\ order[o].day > p.end - 1 - 2 * (p.end - p.start)
                                 /\ order[o].day < p.end})
  <2>1. counted \cap before = {}
    BY <1>1, <1>4 DEF Counted, Previous, Period
  <2>2. counted \cup before = {o \in Placed : /\ order[o].state # "cancelled"
                                              /\ order[o].day > p.end - 1 - 2 * (p.end - p.start)
                                              /\ order[o].day < p.end}
    <3>1. PICK s \in Int, e \in Int : s = p.start /\ e = p.end /\ s < e
      BY <1>4
    <3>2. e - 1 - 2 * (e - s) = s - (e - s) - 1
      BY TwoWindows
    <3>3. counted = {o \in Placed : order[o].state # "cancelled" /\ order[o].day \in s .. e - 1}
          /\ before = {o \in Placed : order[o].state # "cancelled" /\ order[o].day \in s - (e - s) .. s - 1}
      BY <3>1 DEF Counted, Previous, Period
    <3>4. ASSUME NEW d \in Int
          PROVE  (d \in s .. e - 1 \/ d \in s - (e - s) .. s - 1) <=> (d > s - (e - s) - 1 /\ d < e)
      BY <3>1
    <3> HIDE DEF counted, before
    <3> QED BY <1>1, <3>1, <3>2, <3>3, <3>4
  <2>3. Sales(counted \cup before) = Sales(counted) + Sales(before)
    BY <1>2, <2>1, SalesOfBoth
  <2> QED BY <2>2, <2>3
<1> HIDE DEF counted, lines, before
<1> QED BY <1>6, <1>7, <1>8, <1>9, <1>10 DEF AddsUp

\* ChartAddsUp: for any orders, amounts, windows and calendar, the points of a chart sum up to the
\* totals shown with it, those of a segment to no more, and the totals compared are those of every
\* order of the two windows, as long as no order was touched (dashboard, query_metrics, bucket_starts,
\* series_points, Period.previous).
THEOREM ChartsAddUp == DashboardSpec => []ChartAddsUp
<1>1. ReadingInv /\ ChartInv => ChartAddsUp
  <2> SUFFICES ASSUME ReadingInv, ChartInv, read # Nobody, read.kind # "snapshot",
                      read.at = After("series"), moved = {}
               PROVE  IF read.kind = "dashboard" THEN AddsUp(read, read)
                      ELSE shown # Nobody /\ shown.period = read.period => AddsUp(read, shown)
    BY DEF ChartAddsUp
  <2>1. order \in Seq(Row) /\ Len(order) <= Len(Amount) /\ AsksOfWindow(read) /\ TakenStands(read)
        /\ IsReading(read)
    BY DEF ReadingInv, ChartInv
  <2>2. read.at = IF read.kind = "dashboard" THEN "units" ELSE "answered"
    BY DEF After
  <2>3. read.points = SeriesPoints(read.period, read.step, LinesOf(read.segment, Counted(read.period)))
    BY <2>1, <2>2 DEF TakenStands
  <2>4. CASE read.kind = "dashboard"
    <3>1. ShownStands(read)
      BY <2>1, <2>2, <2>4 DEF TakenStands, ShownStands
    <3> QED BY <2>1, <2>3, <2>4, <3>1, StandingAddsUp
  <2>5. CASE read.kind # "dashboard" /\ shown # Nobody /\ shown.period = read.period
    <3>1. ShownStands(shown)
      BY <2>5 DEF ChartInv
    <3> QED BY <2>1, <2>3, <2>5, <3>1, StandingAddsUp
  <2> QED BY <2>4, <2>5
<1>2. DashboardInit => ReadingInv /\ ChartInv
  BY ReadingsBegin, ChartsBegin
<1>3. ReadingInv /\ ChartInv /\ [DashboardNext]_dashboardVars => ReadingInv' /\ ChartInv'
  BY ReadingStepKeeps, ChartStepKeeps
<1> QED BY <1>1, <1>2, <1>3, PTL DEF DashboardSpec

-----------------------------------------------------------------------------
(* WritePlans: what an upsert leaves in the shop, and what staging draws up. *)

RowFields == {"here", "stock", "active", "name", "price"}

\* A table of product rows.
IsTable(rows) ==
  /\ rows = [l \in Listings |-> [f \in RowFields |-> rows[l][f]]]
  /\ \A l \in Listings : DOMAIN rows[l].price = Currencies /\ rows[l].stock \in Int

\* The places of I whose row sets a field of a listing.
Setting(rows, I, l, f) == {i \in I : rows[i].id = l /\ f \in DOMAIN rows[i].set}

\* The shop once the rows at the places of I are upserted: the last row that sets a field counts.
Upserted(rows, I) ==
  [l \in Listings |-> [f \in RowFields |->
     IF Setting(rows, I, l, f) = {} THEN live[l][f] ELSE rows[LastOf(Setting(rows, I, l, f))].set[f]]]

\* What the fold over the rows computes for the places up to any of them.
Upserting(h, rows) ==
  h = [I \in SUBSET DOMAIN rows |->
         IF I = {} THEN live
         ELSE WithRow(h[I \ {Max(I)}], rows[Max(I)])]

\* The largest of a finite set of places.
LEMMA LargestPlace ==
  ASSUME NEW I \in SUBSET Nat, IsFiniteSet(I), I # {}
  PROVE  /\ Max(I) \in I /\ \A i \in I : i <= Max(I)
         /\ LastOf(I) \in I /\ \A i \in I : i <= LastOf(I)
<1>1. PICK m \in I : \A i \in I : i <= m
  BY LastPlace
<1>2. \A i \in I : m >= i
  BY <1>1
<1> QED BY <1>1, <1>2 DEF Max, LastOf

\* One more row: it counts where it sets a field, and changes nothing else.
LEMMA OneMoreRow ==
  ASSUME NEW rows, DOMAIN rows \in SUBSET Nat, \A i \in DOMAIN rows : rows[i].id \in Listings,
         NEW I \in SUBSET DOMAIN rows, IsFiniteSet(I), I # {},
         NEW m, m = Max(I)
  PROVE  m \in I /\ Upserted(rows, I) = WithRow(Upserted(rows, I \ {m}), rows[m])
<1>1. m \in I /\ (\A i \in I : i <= m) /\ I \in SUBSET Nat /\ rows[m].id \in Listings
  BY LargestPlace
<1> DEFINE rest == Upserted(rows, I \ {m})
           row == [f \in DOMAIN rest[rows[m].id] |->
                      IF f \in DOMAIN rows[m].set THEN rows[m].set[f] ELSE rest[rows[m].id][f]]
           all == Upserted(rows, I)
<1>2. /\ DOMAIN rest = Listings /\ DOMAIN all = Listings
      /\ \A l \in Listings : all[l] = [f \in RowFields |-> all[l][f]]
      /\ \A l \in Listings : rest[l] = [f \in RowFields |-> rest[l][f]]
      /\ all = [l \in Listings |-> all[l]]
  BY DEF Upserted
<1>3. ASSUME NEW l \in Listings, NEW f \in RowFields
      PROVE  all[l][f] = IF l = rows[m].id /\ f \in DOMAIN rows[m].set THEN rows[m].set[f] ELSE rest[l][f]
  <2>1. CASE l = rows[m].id /\ f \in DOMAIN rows[m].set
    <3> DEFINE J == Setting(rows, I, l, f)
    <3>1. m \in J /\ J \in SUBSET I
      BY <1>1, <2>1 DEF Setting
    <3>2. IsFiniteSet(J) /\ J \in SUBSET Nat
      BY <1>1, <3>1, FS_Subset
    <3> HIDE DEF J
    <3>3. LastOf(J) \in J /\ m <= LastOf(J)
      BY <3>1, <3>2, LargestPlace
    <3>4. LastOf(J) = m
      BY <1>1, <3>1, <3>3
    <3> QED BY <2>1, <3>1, <3>4 DEF Upserted, J
  <2>2. CASE ~(l = rows[m].id /\ f \in DOMAIN rows[m].set)
    <3>1. Setting(rows, I, l, f) = Setting(rows, I \ {m}, l, f)
      BY <2>2 DEF Setting
    <3> QED BY <2>2, <3>1 DEF Upserted
  <2> QED BY <2>1, <2>2
<1> HIDE DEF all, rest
<1>4. ASSUME NEW l \in Listings, l # rows[m].id PROVE all[l] = rest[l]
  <2>1. \A f \in RowFields : all[l][f] = rest[l][f]
    BY <1>3, <1>4
  <2>2. [f \in RowFields |-> all[l][f]] = [f \in RowFields |-> rest[l][f]]
    BY <2>1
  <2> QED BY <1>2, <2>2
<1>5. all[rows[m].id] = row
  <2>1. PICK l \in Listings : l = rows[m].id
    BY <1>1
  <2>2. \A f \in RowFields : all[l][f] = IF f \in DOMAIN rows[m].set THEN rows[m].set[f] ELSE rest[l][f]
    BY <1>3, <2>1
  <2>3. [f \in RowFields |-> all[l][f]]
          = [f \in RowFields |-> IF f \in DOMAIN rows[m].set THEN rows[m].set[f] ELSE rest[l][f]]
    BY <2>2
  <2>4. DOMAIN rest[l] = RowFields /\ all[l] = [f \in RowFields |-> all[l][f]]
    BY <1>2
  <2> QED BY <2>1, <2>3, <2>4
<1> HIDE DEF row
<1>6. all = [rest EXCEPT ![rows[m].id] = row]
  BY <1>1, <1>2, <1>4, <1>5
<1> QED BY <1>1, <1>6 DEF row, all, rest, WithRow

\* The upsert of a payload, row by row, in closed form.
LEMMA UpsertInOrder ==
  ASSUME NEW rows, DOMAIN rows \in SUBSET Nat, IsFiniteSet(DOMAIN rows),
         \A i \in DOMAIN rows : rows[i].id \in Listings, IsTable(live)
  PROVE  FoldLeft(WithRow, live, rows) = Upserted(rows, DOMAIN rows)
<1> DEFINE P == DOMAIN rows
<1>1. \A I \in SUBSET P : IsFiniteSet(I) /\ Cardinality(I) \in Nat /\ I \in SUBSET Nat
  BY FS_Subset, FS_CardinalityType
<1>2. Upserted(rows, {}) = live
  BY DEF Upserted, Setting, IsTable
<1>3. \E h : Upserting(h, rows)
  <2> DEFINE h == [I \in SUBSET P |-> Upserted(rows, I)]
             up == [I \in SUBSET P |->
                 IF I = {} THEN live
                 ELSE WithRow(h[I \ {Max(I)}], rows[Max(I)])]
  <2>1. ASSUME NEW I \in SUBSET P PROVE h[I] = up[I]
    <3>1. CASE I = {}
      BY <1>2, <3>1
    <3>2. CASE I # {}
      <4>1. PICK m : m = Max(I)
        OBVIOUS
      <4>2. Upserted(rows, I) = WithRow(Upserted(rows, I \ {m}), rows[m])
        BY <1>1, <3>2, <4>1, OneMoreRow
      <4>3. h[I] = Upserted(rows, I) /\ h[I \ {m}] = Upserted(rows, I \ {m})
        OBVIOUS
      <4> HIDE DEF h
      <4> QED BY <3>2, <4>1, <4>2, <4>3
    <3> QED BY <3>1, <3>2
  <2>2. h = up
    BY <2>1
  <2> QED BY <2>2 DEF Upserting
<1>4. PICK h : /\ Upserting(h, rows)
               /\ FoldLeft(WithRow, live, rows) = h[P]
  <2> DEFINE g == CHOOSE h : Upserting(h, rows)
  <2>1. Upserting(g, rows)
    BY <1>3
  <2>2. FoldLeft(WithRow, live, rows) = g[P]
    BY DEF FoldLeft, MapThenFoldSet, Upserting
  <2> QED BY <2>1, <2>2
<1> DEFINE Wrong(I) == h[I] # Upserted(rows, I)
           sizes == {Cardinality(I) : I \in {J \in SUBSET P : Wrong(J)}}
<1> SUFFICES ASSUME Wrong(P) PROVE FALSE
  BY <1>4
<1>5. PICK I \in SUBSET P : Wrong(I) /\ \A J \in SUBSET P : Wrong(J) => Cardinality(I) <= Cardinality(J)
  <2>1. sizes \in SUBSET Nat /\ sizes # {}
    BY <1>1
  <2>2. PICK n \in sizes : \A k \in sizes : n <= k
    <3> HIDE DEF sizes
    <3> QED BY <2>1, LeastPlace
  <2> QED BY <2>2
<1>6. CASE I = {}
  BY <1>2, <1>4, <1>5, <1>6 DEF Upserting
<1>7. CASE I # {}
  <2>1. PICK m : m = Max(I)
    OBVIOUS
  <2>2. m \in I /\ Upserted(rows, I) = WithRow(Upserted(rows, I \ {m}), rows[m])
    BY <1>1, <1>7, <2>1, OneMoreRow
  <2>3. Cardinality(I \ {m}) = Cardinality(I) - 1
    BY <1>1, <2>2, FS_RemoveElement
  <2>4. h[I \ {m}] = Upserted(rows, I \ {m})
    <3>1. I \ {m} \in SUBSET P /\ Cardinality(I \ {m}) < Cardinality(I) /\ Cardinality(I) \in Nat
      BY <1>1, <2>3
    <3> QED BY <1>1, <1>5, <3>1
  <2>5. h[I] = WithRow(h[I \ {m}], rows[m])
    BY <1>4, <1>7, <2>1 DEF Upserting
  <2> QED BY <1>5, <2>2, <2>4, <2>5
<1> QED BY <1>6, <1>7

\* What flattening computes for the first n sequences.
Flattening(h, seqs, n) == h = [i \in 1 .. n |-> IF i = 1 THEN seqs[i] ELSE h[i - 1] \o seqs[i]]

\* That function exists for any n: a least n without one would have it from the one before.
LEMMA FlatteningExists ==
  ASSUME NEW seqs, NEW n \in Nat
  PROVE  \E h : Flattening(h, seqs, n)
<1> DEFINE missing == {k \in Nat : ~\E h : Flattening(h, seqs, k)}
<1> SUFFICES ASSUME missing # {} PROVE FALSE
  OBVIOUS
<1>1. PICK k \in missing : \A m \in missing : k <= m
  <2>1. missing \in SUBSET Nat
    OBVIOUS
  <2> HIDE DEF missing
  <2> QED BY <2>1, LeastPlace
<1>2. CASE k = 0
  <2>1. Flattening([i \in {} |-> {}], seqs, 0)
    BY DEF Flattening
  <2> QED BY <1>2, <2>1
<1>3. CASE k # 0
  <2>1. k - 1 \in Nat /\ ~(k <= k - 1)
    BY <1>3
  <2>2. PICK g : Flattening(g, seqs, k - 1)
    BY <1>1, <2>1
  <2> DEFINE h == [i \in 1 .. k |-> IF i = k THEN (IF k = 1 THEN seqs[k] ELSE g[k - 1] \o seqs[k]) ELSE g[i]]
             joined == [i \in 1 .. k |-> IF i = 1 THEN seqs[i] ELSE h[i - 1] \o seqs[i]]
  <2>3. ASSUME NEW i \in 1 .. k PROVE h[i] = joined[i]
    <3>1. CASE i = k
      <4>1. k # 1 => k - 1 \in 1 .. k /\ k - 1 # k
        BY <1>3
      <4> QED BY <3>1, <4>1
    <3>2. CASE i # k
      <4>1. i \in 1 .. k - 1 /\ (i # 1 => i - 1 \in 1 .. k /\ i - 1 # k)
        BY <1>3, <3>2
      <4>2. g[i] = IF i = 1 THEN seqs[i] ELSE g[i - 1] \o seqs[i]
        BY <2>2, <4>1 DEF Flattening
      <4> QED BY <3>2, <4>1, <4>2
    <3> QED BY <3>1, <3>2
  <2>4. h = joined
    BY <2>3
  <2>5. Flattening(h, seqs, k)
    BY <2>4 DEF Flattening
  <2> QED BY <2>5
<1> QED BY <1>1, <1>2, <1>3

\* A flattened list has the elements of all its lists.
LEMMA ElementsFlattened ==
  ASSUME NEW S, NEW seqs, Len(seqs) \in Nat \ {0}, \A i \in 1 .. Len(seqs) : seqs[i] \in Seq(S)
  PROVE  /\ FlattenSeq(seqs) \in Seq(S)
         /\ \A x : x \in ToSet(FlattenSeq(seqs)) <=> \E i \in 1 .. Len(seqs) : x \in ToSet(seqs[i])
<1> DEFINE n == Len(seqs)
<1>1. PICK h : Flattening(h, seqs, n) /\ FlattenSeq(seqs) = h[n]
  <2> DEFINE g == CHOOSE h : Flattening(h, seqs, n)
  <2>1. Flattening(g, seqs, n)
    BY FlatteningExists
  <2>2. FlattenSeq(seqs) = g[n]
    BY DEF FlattenSeq, Flattening
  <2> QED BY <2>1, <2>2
<1> DEFINE Right(k) == h[k] \in Seq(S) /\ \A x : x \in ToSet(h[k]) <=> \E i \in 1 .. k : x \in ToSet(seqs[i])
           wrong == {k \in 1 .. n : ~Right(k)}
<1> SUFFICES ASSUME ~Right(n) PROVE FALSE
  BY <1>1
<1>2. PICK k \in wrong : \A m \in wrong : k <= m
  <2>1. wrong \in SUBSET Nat /\ n \in wrong
    OBVIOUS
  <2> HIDE DEF wrong
  <2> QED BY <2>1, LeastPlace
<1>3. h[k] = IF k = 1 THEN seqs[k] ELSE h[k - 1] \o seqs[k]
  BY <1>1, <1>2 DEF Flattening
<1>4. CASE k = 1
  <2>1. \A i \in 1 .. k : i = k
    BY <1>4
  <2> QED BY <1>2, <1>3, <1>4, <2>1
<1>5. CASE k # 1
  <2>1. k - 1 \in 1 .. n /\ ~(k <= k - 1) /\ k \in 1 .. n
    BY <1>2, <1>5
  <2>2. Right(k - 1)
    BY <1>2, <2>1
  <2>3. h[k] \in Seq(S) /\ ToSet(h[k]) = ToSet(h[k - 1]) \cup ToSet(seqs[k])
    BY <1>3, <1>5, <2>1, <2>2, ElementsJoined
  <2>4. \A i : i \in 1 .. k <=> i \in 1 .. (k - 1) \/ i = k
    BY <2>1
  <2> QED BY <1>2, <2>2, <2>3, <2>4
<1> QED BY <1>4, <1>5

\* The pairs of item and row that an asked item is staged as.
DrawnUp(item) ==
  CASE item.field = "price"  -> {Reprice(t, item.value) : t \in PriceTargets(cache, item.listing)}
    [] item.field = "stock"  -> {Restock(item.listing, item.value)}
    [] item.field = "active" -> {Toggle(t, item.value) : t \in {item.listing} \cup Children(cache, item.listing)}
    [] item.field = "name"   -> {Rename(item.listing, item.value)}

\* The rows of a price are for the listing or variants of it.
LEMMA TargetsAreListings ==
  ASSUME NEW rows, NEW l \in Listings
  PROVE  /\ Children(rows, l) \in SUBSET Variants /\ IsFiniteSet({l} \cup Children(rows, l))
         /\ PriceTargets(rows, l) \in SUBSET ({l} \cup Children(rows, l)) /\ IsFiniteSet(PriceTargets(rows, l))
<1>1. Children(rows, l) \in SUBSET Variants /\ PriceTargets(rows, l) \in SUBSET ({l} \cup Children(rows, l))
  BY DEF Children, PriceTargets
<1>2. IsFiniteSet(Children(rows, l))
  BY <1>1, CatalogAssumption, FS_Subset
<1>3. IsFiniteSet({l} \cup Children(rows, l))
  BY <1>2, FS_AddElement
<1> QED BY <1>1, <1>3, FS_Subset

\* The rows of an asked item, as a list.
LEMMA RowsAreDrawnUp ==
  ASSUME NEW item, item.listing \in Listings, item.field \in Fields
  PROVE  RowsOf(item) \in Seq(DrawnUp(item)) /\ ToSet(RowsOf(item)) = DrawnUp(item)
<1>1. CASE item.field = "price"
  <2> DEFINE T == PriceTargets(cache, item.listing)
             s == SetToSeq(T)
  <2>1. s \in Seq(T) /\ ToSet(s) = T
    BY TargetsAreListings, SetAsSequence
  <2>2. RowsOf(item) = [i \in DOMAIN s |-> Reprice(s[i], item.value)]
    BY <1>1 DEF RowsOf
  <2>3. DrawnUp(item) = {Reprice(t, item.value) : t \in T}
    BY <1>1 DEF DrawnUp
  <2> HIDE DEF s, T
  <2>4. DOMAIN s = 1 .. Len(s) /\ Len(s) \in Nat /\ \A i \in DOMAIN s : s[i] \in T
    BY <2>1
  <2>5. \A t \in T : \E i \in DOMAIN s : s[i] = t
    BY <2>1 DEF ToSet
  <2>6. RowsOf(item) \in Seq(DrawnUp(item))
    BY <2>2, <2>3, <2>4
  <2>7. DOMAIN RowsOf(item) = DOMAIN s /\ \A i \in DOMAIN s : RowsOf(item)[i] = Reprice(s[i], item.value)
    BY <2>2
  <2> QED BY <2>3, <2>4, <2>5, <2>6, <2>7 DEF ToSet
<1>2. CASE item.field = "active"
  <2> DEFINE T == {item.listing} \cup Children(cache, item.listing)
             s == SetToSeq(T)
  <2>1. s \in Seq(T) /\ ToSet(s) = T
    BY TargetsAreListings, SetAsSequence
  <2>2. RowsOf(item) = [i \in DOMAIN s |-> Toggle(s[i], item.value)]
    BY <1>2 DEF RowsOf
  <2>3. DrawnUp(item) = {Toggle(t, item.value) : t \in T}
    BY <1>2 DEF DrawnUp
  <2> HIDE DEF s, T
  <2>4. DOMAIN s = 1 .. Len(s) /\ Len(s) \in Nat /\ \A i \in DOMAIN s : s[i] \in T
    BY <2>1
  <2>5. \A t \in T : \E i \in DOMAIN s : s[i] = t
    BY <2>1 DEF ToSet
  <2>6. RowsOf(item) \in Seq(DrawnUp(item))
    BY <2>2, <2>3, <2>4
  <2>7. DOMAIN RowsOf(item) = DOMAIN s /\ \A i \in DOMAIN s : RowsOf(item)[i] = Toggle(s[i], item.value)
    BY <2>2
  <2> QED BY <2>3, <2>4, <2>5, <2>6, <2>7 DEF ToSet
<1>3. CASE item.field \in {"stock", "name"}
  <2>1. PICK e : RowsOf(item) = <<e>> /\ DrawnUp(item) = {e}
    <3>1. CASE item.field = "stock"
      BY <3>1 DEF RowsOf, DrawnUp
    <3>2. CASE item.field = "name"
      BY <3>2 DEF RowsOf, DrawnUp
    <3> QED BY <1>3, <3>1, <3>2
  <2>2. <<e>> \in Seq({e}) /\ ToSet(<<e>>) = {e}
    BY DEF ToSet
  <2> QED BY <2>1, <2>2
<1> QED BY <1>1, <1>2, <1>3 DEF Fields

-----------------------------------------------------------------------------
(* WritePlans: a change writes what it shows, and a family is repriced as asked. *)

\* The price list a change c found for a product when it was staged.
ToReplace(c, t) == IF c.seen[t].price # None THEN c.seen[t].price ELSE c.known[t].price

\* Rows and items agree, place by place; the stock of a row is left to the rebase.
RowsShow(c, rows) ==
  /\ DOMAIN rows = DOMAIN c.items
  /\ \A i \in DOMAIN rows :
       /\ c.items[i].target \in Listings /\ c.items[i].field \in Fields
       /\ DOMAIN rows[i] = {"id", "set"} /\ rows[i].id = c.items[i].target
       /\ DOMAIN rows[i].set = {c.items[i].field}
       /\ c.items[i].field \in {"name", "active"} => rows[i].set[c.items[i].field] = c.items[i].after
       /\ c.items[i].field = "price" =>
            rows[i].set["price"] = PricePayload(ToReplace(c, c.items[i].target), c.items[i].after)
       /\ c.items[i].field = "stock" =>
            /\ c.kind = "inventory_action"
            /\ rows[i].set["stock"] \in Int /\ c.items[i].before \in Int /\ c.items[i].after \in Int

\* Every target of an asked price is an item, and every item a target of an asked price.
PricesAsAsked(c) ==
  /\ \A k \in DOMAIN c.ask : c.ask[k].listing \in Listings /\ c.ask[k].value # 0 /\ c.known[c.ask[k].listing].here
  /\ \A i \in DOMAIN c.items :
       /\ c.items[i].field = "price"
       /\ \E k \in DOMAIN c.ask : /\ c.items[i].target \in PriceTargets(c.known, c.ask[k].listing)
                                  /\ c.items[i].after = c.ask[k].value
  /\ \A k \in DOMAIN c.ask : \A t \in PriceTargets(c.known, c.ask[k].listing) :
       \E i \in DOMAIN c.items : c.items[i].target = t

\* The plan of a staged change shows its items.
PlanShows(c) ==
  /\ IsTable(c.seen) /\ IsTable(c.known)
  /\ DOMAIN c.items \in SUBSET Nat /\ IsFiniteSet(DOMAIN c.items)
  /\ Len(c.plan) \in Nat \ {0} /\ DOMAIN c.plan = 1 .. Len(c.plan)
  /\ \A k \in DOMAIN c.plan : RowsShow(c, c.plan[k].rows)
  /\ c.kind = "price_update" => PricesAsAsked(c)

\* The invariant: plan and items agree from the staging to the write.
PlansInv ==
  /\ IsTable(live) /\ IsTable(cache)
  /\ change.status = "staged" => PlanShows(change)
  /\ writing # NoJob => /\ writing.next \in DOMAIN change.plan
                        /\ writing.at = "write" => RowsShow(change, writing.rows)

\* The shop begins with whole rows, and nothing is under way.
LEMMA PlansBegin == WritePlansInit => PlansInv
<1> SUFFICES ASSUME WritePlansInit PROVE PlansInv
  OBVIOUS
<1>1. live = [l \in Listings |-> [f \in RowFields |-> live[l][f]]]
  BY DEF WritePlansInit, RowFields
<1>2. ASSUME NEW l \in Listings PROVE DOMAIN live[l].price = Currencies /\ live[l].stock \in Int
  BY DEF WritePlansInit, None
<1>3. IsTable(live)
  BY <1>1, <1>2 DEF IsTable
<1> QED BY <1>3 DEF WritePlansInit, PlansInv, NoJob, NothingStaged

\* What rows that show the items of a change leave in the shop: of each field, the last item.
LEMMA WhatIsWritten ==
  ASSUME IsTable(live), NEW c, PlanShows(c), NEW rows, RowsShow(c, rows),
         live' = FoldLeft(WithRow, live, rows)
  PROVE  /\ \A l \in Listings : \A f \in RowFields :
              LET I == {i \in DOMAIN c.items : c.items[i].target = l /\ c.items[i].field = f} IN
              live'[l][f] = IF I = {} THEN live[l][f] ELSE rows[LastOf(I)].set[f]
         /\ IsTable(live')
<1> DEFINE I(l, f) == {i \in DOMAIN c.items : c.items[i].target = l /\ c.items[i].field = f}
<1>1. DOMAIN rows \in SUBSET Nat /\ IsFiniteSet(DOMAIN rows) /\ \A i \in DOMAIN rows : rows[i].id \in Listings
  BY DEF RowsShow, PlanShows
<1>2. live' = Upserted(rows, DOMAIN rows)
  BY <1>1, UpsertInOrder
<1>3. \A l, f : Setting(rows, DOMAIN rows, l, f) = I(l, f)
  BY DEF Setting, RowsShow
<1>4. ASSUME NEW l \in Listings, NEW f \in RowFields
      PROVE  live'[l][f] = IF I(l, f) = {} THEN live[l][f] ELSE rows[LastOf(I(l, f))].set[f]
  <2>1. live'[l][f] = IF Setting(rows, DOMAIN rows, l, f) = {} THEN live[l][f]
                      ELSE rows[LastOf(Setting(rows, DOMAIN rows, l, f))].set[f]
    BY <1>2 DEF Upserted
  <2>2. Setting(rows, DOMAIN rows, l, f) = I(l, f)
    BY <1>3
  <2> HIDE DEF I
  <2> QED BY <2>1, <2>2
<1>5. live' = [l \in Listings |-> [f \in RowFields |-> live'[l][f]]]
  BY <1>2 DEF Upserted
<1>6. ASSUME NEW l \in Listings PROVE live'[l].stock \in Int
  <2>1. CASE I(l, "stock") = {}
    BY <1>4, <2>1 DEF IsTable, RowFields
  <2>2. CASE I(l, "stock") # {}
    <3>1. I(l, "stock") \in SUBSET Nat /\ IsFiniteSet(I(l, "stock"))
      BY FS_Subset DEF PlanShows
    <3>2. LastOf(I(l, "stock")) \in I(l, "stock")
      BY <2>2, <3>1, LargestPlace
    <3>3. PICK i \in I(l, "stock") : live'[l]["stock"] = rows[i].set["stock"]
      BY <1>4, <2>2, <3>2 DEF RowFields
    <3>4. rows[i].set["stock"] \in Int
      BY <3>3 DEF RowsShow
    <3> QED BY <3>3, <3>4
  <2> QED BY <2>1, <2>2
<1>7. ASSUME NEW l \in Listings PROVE DOMAIN live'[l].price = Currencies
  <2>1. CASE I(l, "price") = {}
    BY <1>4, <2>1 DEF IsTable, RowFields
  <2>2. CASE I(l, "price") # {}
    <3>1. PICK i \in I(l, "price") : live'[l]["price"] = rows[i].set["price"]
      <4>1. I(l, "price") \in SUBSET Nat /\ IsFiniteSet(I(l, "price"))
        BY FS_Subset DEF PlanShows
      <4>2. LastOf(I(l, "price")) \in I(l, "price")
        BY <2>2, <4>1, LargestPlace
      <4> QED BY <1>4, <2>2, <4>2 DEF RowFields
    <3>2. rows[i].set["price"] = PricePayload(ToReplace(c, l), c.items[i].after)
      BY <3>1 DEF RowsShow
    <3>3. DOMAIN ToReplace(c, l) = Currencies
      BY DEF ToReplace, PlanShows, IsTable
    <3> QED BY <3>1, <3>2, <3>3 DEF PricePayload
  <2> QED BY <2>1, <2>2
<1> QED BY <1>4, <1>5, <1>6, <1>7 DEF IsTable

\* One pair of item and row agrees.
LEMMA PairShows ==
  ASSUME NEW item, item.listing \in Listings, item.field \in Fields, IsTable(live), IsTable(cache),
         item.field = "stock" => item.value \in Int,
         NEW e \in DrawnUp(item), NEW c, c.seen = live, c.known = cache
  PROVE  /\ e.item.target \in Listings /\ e.item.field = item.field
         /\ DOMAIN e.row = {"id", "set"} /\ e.row.id = e.item.target
         /\ DOMAIN e.row.set = {e.item.field}
         /\ e.item.field \in {"name", "active"} => e.row.set[e.item.field] = e.item.after
         /\ e.item.field = "price" =>
              e.row.set["price"] = PricePayload(ToReplace(c, e.item.target), e.item.after)
         /\ e.item.field = "price" =>
              e.item.target \in PriceTargets(cache, item.listing) /\ e.item.after = item.value
         /\ e.item.field = "stock" =>
              e.row.set["stock"] \in Int /\ e.item.before \in Int /\ e.item.after \in Int
<1>1. CASE item.field = "price"
  <2>1. PICK t \in PriceTargets(cache, item.listing) : e = Reprice(t, item.value)
    BY <1>1 DEF DrawnUp
  <2>2. t \in Listings
    <3>1. Children(cache, item.listing) \in SUBSET Variants
          /\ PriceTargets(cache, item.listing) \in SUBSET ({item.listing} \cup Children(cache, item.listing))
      BY TargetsAreListings
    <3> QED BY <2>1, <3>1 DEF Listings
  <2>3. Current(t) = ToReplace(c, t)
    BY DEF Current, ToReplace
  <2>4. /\ e.item.target = t /\ e.item.field = "price" /\ e.item.after = item.value
        /\ e.row = [id |-> t, set |-> [f \in {"price"} |-> PricePayload(Current(t), item.value)]]
    BY <2>1 DEF Reprice, Both
  <2> QED BY <1>1, <2>1, <2>2, <2>3, <2>4
<1>2. CASE item.field = "active"
  <2>1. PICK t \in {item.listing} \cup Children(cache, item.listing) : e = Toggle(t, item.value)
    BY <1>2 DEF DrawnUp
  <2>2. t \in Listings
    BY <2>1, TargetsAreListings DEF Listings
  <2>3. /\ e.item.target = t /\ e.item.field = "active" /\ e.item.after = item.value
        /\ e.row = [id |-> t, set |-> [f \in {"active"} |-> item.value]]
    BY <2>1 DEF Toggle, Both
  <2> QED BY <1>2, <2>2, <2>3
<1>3. CASE item.field = "stock"
  <2>1. e = Restock(item.listing, item.value)
    BY <1>3 DEF DrawnUp
  <2>2. /\ e.item.target = item.listing /\ e.item.field = "stock"
        /\ DOMAIN e.row = {"id", "set"} /\ e.row.id = item.listing /\ DOMAIN e.row.set = {"stock"}
    BY <2>1 DEF Restock, Both
  <2> DEFINE current == IF live[item.listing].here THEN live[item.listing].stock ELSE cache[item.listing].stock
  <2>3. current \in Int
    BY DEF IsTable
  <2>4. /\ e.item.before = current /\ e.item.after = current + item.value
        /\ e.row.set["stock"] = current + item.value
    BY <2>1 DEF Restock, Both
  <2> HIDE DEF current
  <2>5. /\ e.item.before \in Int /\ e.item.after \in Int /\ e.row.set["stock"] \in Int
    BY <1>3, <2>3, <2>4
  <2> QED BY <1>3, <2>2, <2>5
<1>4. CASE item.field = "name"
  <2>1. e = Rename(item.listing, item.value)
    BY <1>4 DEF DrawnUp
  <2>2. /\ e.item.target = item.listing /\ e.item.field = "name" /\ e.item.after = item.value
        /\ e.row = [id |-> item.listing, set |-> [f \in {"name"} |-> item.value]]
    BY <2>1 DEF Rename, Both
  <2> QED BY <1>4, <2>2
<1> QED BY <1>1, <1>2, <1>3, <1>4 DEF Fields

\* The pairs a request is staged as, in their order.
PairsOf(q) == FlattenSeq([i \in DOMAIN q.ask |-> RowsOf(q.ask[i])])

\* The pairs drawn up for a request: those of its asked items and no others.
ArePairs(q, both) ==
  /\ DOMAIN both = 1 .. Len(both) /\ Len(both) \in Nat
  /\ \A i \in DOMAIN both : \E k \in DOMAIN q.ask : both[i] \in DrawnUp(q.ask[k])
  /\ \A k \in DOMAIN q.ask : \A e \in DrawnUp(q.ask[k]) : \E i \in DOMAIN both : both[i] = e

\* The pairs of a request are those of its asked items.
LEMMA PairsOfRequest ==
  ASSUME NEW q \in Requests, q.kind # "promotion",
         NEW both, both = PairsOf(q)
  PROVE  ArePairs(q, both)
<1> DEFINE D == [k \in DOMAIN q.ask |-> DrawnUp(q.ask[k])]
           S == UNION {D[k] : k \in DOMAIN q.ask}
           seqs == [i \in DOMAIN q.ask |-> RowsOf(q.ask[i])]
<1>1. /\ q.ask \in Seq(ToSet(q.ask)) /\ q.ask # <<>>
      /\ \A k \in DOMAIN q.ask : q.ask[k].listing \in Listings /\ q.ask[k].field \in Fields
  BY RequestsAssumption
<1>2. DOMAIN q.ask = 1 .. Len(q.ask) /\ Len(q.ask) \in Nat \ {0}
  BY <1>1
<1>3. \A k \in DOMAIN q.ask : RowsOf(q.ask[k]) \in Seq(D[k]) /\ ToSet(RowsOf(q.ask[k])) = D[k]
  BY <1>1, RowsAreDrawnUp
<1>4. \A k \in DOMAIN q.ask : D[k] \in SUBSET S
  OBVIOUS
<1>5. Len(seqs) = Len(q.ask) /\ \A k \in DOMAIN q.ask : seqs[k] = RowsOf(q.ask[k])
  <2>1. DOMAIN seqs = 1 .. Len(q.ask)
    BY <1>2
  <2> QED BY <1>2, <2>1
<1> HIDE DEF S
<1>6. \A k \in 1 .. Len(seqs) : seqs[k] \in Seq(S)
  <2> SUFFICES ASSUME NEW k \in 1 .. Len(seqs) PROVE seqs[k] \in Seq(S)
    OBVIOUS
  <2>1. k \in DOMAIN q.ask /\ seqs[k] = RowsOf(q.ask[k])
    BY <1>2, <1>5
  <2>2. seqs[k] \in Seq(D[k]) /\ D[k] \in SUBSET S
    BY <1>3, <1>4, <2>1
  <2> HIDE DEF seqs, D
  <2> QED BY <2>2
<1>7. both = FlattenSeq(seqs)
  BY DEF PairsOf
<1>8. \A k \in DOMAIN q.ask : ToSet(seqs[k]) = DrawnUp(q.ask[k])
  BY <1>3, <1>5
<1>9. 1 .. Len(seqs) = DOMAIN q.ask /\ Len(seqs) \in Nat \ {0}
  BY <1>2, <1>5
<1> HIDE DEF D, seqs
<1>10. /\ both \in Seq(S)
       /\ \A x : x \in ToSet(both) <=> \E k \in DOMAIN q.ask : x \in DrawnUp(q.ask[k])
  <2>1. /\ FlattenSeq(seqs) \in Seq(S)
        /\ \A x : x \in ToSet(FlattenSeq(seqs)) <=> \E i \in 1 .. Len(seqs) : x \in ToSet(seqs[i])
    BY <1>6, <1>9, ElementsFlattened
  <2> QED BY <1>7, <1>8, <1>9, <2>1
<1>11. DOMAIN both = 1 .. Len(both) /\ Len(both) \in Nat
  <2>1. \A x \in Seq(S) : DOMAIN x = 1 .. Len(x) /\ Len(x) \in Nat
    OBVIOUS
  <2> QED BY <1>10, <2>1
<1>12. ToSet(both) = {both[i] : i \in DOMAIN both}
  BY DEF ToSet
<1> QED BY <1>10, <1>11, <1>12 DEF ArePairs

\* What stage_listing_update, stage_price_update and stage_inventory_action keep shows itself.
LEMMA ProductsShown ==
  ASSUME NEW q \in Requests, q.kind # "promotion", IsTable(live), IsTable(cache),
         \A i \in DOMAIN q.ask : Stageable(q.ask[i]),
         NEW both, DOMAIN both = 1 .. Len(both), Len(both) \in Nat,
         \A i \in DOMAIN both : \E k \in DOMAIN q.ask : both[i] \in DrawnUp(q.ask[k]),
         \A k \in DOMAIN q.ask : \A e \in DrawnUp(q.ask[k]) : \E i \in DOMAIN both : both[i] = e,
         NEW c, c.seen = live, c.known = cache, c.kind = q.kind, c.ask = q.ask,
         DOMAIN c.items = DOMAIN both, \A i \in DOMAIN both : c.items[i] = both[i].item,
         c.plan = ProductPlan(both)
  PROVE  PlanShows(c)
<1>1. /\ \A k \in DOMAIN q.ask : q.ask[k].listing \in Listings /\ q.ask[k].field \in Fields
      /\ q.kind = "price_update" => \A k \in DOMAIN q.ask : q.ask[k].field = "price" /\ q.ask[k].value # 0
  BY RequestsAssumption
<1>2. \A k \in DOMAIN q.ask : q.ask[k].field = "stock" => q.kind = "inventory_action" /\ q.ask[k].value \in Int
  BY RequestsAssumption
<1>11. ASSUME NEW i \in DOMAIN both
       PROVE  \E k \in DOMAIN q.ask :
                /\ c.items[i].target \in Listings /\ c.items[i].field = q.ask[k].field
                /\ DOMAIN both[i].row = {"id", "set"} /\ both[i].row.id = c.items[i].target
                /\ DOMAIN both[i].row.set = {c.items[i].field}
                /\ c.items[i].field \in {"name", "active"} =>
                     both[i].row.set[c.items[i].field] = c.items[i].after
                /\ c.items[i].field = "price" =>
                     both[i].row.set["price"] = PricePayload(ToReplace(c, c.items[i].target), c.items[i].after)
                /\ c.items[i].field = "price" =>
                     c.items[i].target \in PriceTargets(cache, q.ask[k].listing) /\ c.items[i].after = q.ask[k].value
                /\ c.items[i].field = "stock" =>
                     both[i].row.set["stock"] \in Int /\ c.items[i].before \in Int /\ c.items[i].after \in Int
  <2>1. PICK k \in DOMAIN q.ask : both[i] \in DrawnUp(q.ask[k])
    OBVIOUS
  <2>2. /\ q.ask[k].listing \in Listings /\ q.ask[k].field \in Fields
        /\ q.ask[k].field = "stock" => q.ask[k].value \in Int
    BY <1>1, <1>2
  <2>3. c.items[i] = both[i].item
    OBVIOUS
  <2>4. PICK e \in DrawnUp(q.ask[k]) : e = both[i]
    BY <2>1
  <2>5. /\ e.item.target \in Listings /\ e.item.field = q.ask[k].field
        /\ DOMAIN e.row = {"id", "set"} /\ e.row.id = e.item.target
        /\ DOMAIN e.row.set = {e.item.field}
        /\ e.item.field \in {"name", "active"} => e.row.set[e.item.field] = e.item.after
        /\ e.item.field = "price" =>
             e.row.set["price"] = PricePayload(ToReplace(c, e.item.target), e.item.after)
        /\ e.item.field = "price" =>
             e.item.target \in PriceTargets(cache, q.ask[k].listing) /\ e.item.after = q.ask[k].value
        /\ e.item.field = "stock" =>
             e.row.set["stock"] \in Int /\ e.item.before \in Int /\ e.item.after \in Int
    BY <2>2, PairShows
  <2> HIDE DEF ProductPlan
  <2> QED BY <2>3, <2>4, <2>5
<1>12. DOMAIN c.plan = {1} /\ Len(c.plan) = 1 /\ c.plan[1].rows = [i \in DOMAIN both |-> both[i].row]
  BY DEF ProductPlan
<1>13. RowsShow(c, c.plan[1].rows)
  <2>1. PICK rows : rows = c.plan[1].rows
    OBVIOUS
  <2>2. DOMAIN rows = DOMAIN c.items /\ \A i \in DOMAIN rows : rows[i] = both[i].row
    BY <1>12, <2>1
  <2>3. ASSUME NEW i \in DOMAIN rows
        PROVE  /\ c.items[i].target \in Listings /\ c.items[i].field \in Fields
               /\ DOMAIN rows[i] = {"id", "set"} /\ rows[i].id = c.items[i].target
               /\ DOMAIN rows[i].set = {c.items[i].field}
               /\ c.items[i].field \in {"name", "active"} => rows[i].set[c.items[i].field] = c.items[i].after
               /\ c.items[i].field = "price" =>
                    rows[i].set["price"] = PricePayload(ToReplace(c, c.items[i].target), c.items[i].after)
               /\ c.items[i].field = "stock" =>
                    /\ c.kind = "inventory_action"
                    /\ rows[i].set["stock"] \in Int /\ c.items[i].before \in Int /\ c.items[i].after \in Int
    <3>1. PICK row : row = rows[i]
      OBVIOUS
    <3>2. row = both[i].row /\ i \in DOMAIN both
      BY <2>2, <3>1
    <3>3. PICK k \in DOMAIN q.ask :
                /\ c.items[i].target \in Listings /\ c.items[i].field = q.ask[k].field
                /\ DOMAIN row = {"id", "set"} /\ row.id = c.items[i].target
                /\ DOMAIN row.set = {c.items[i].field}
                /\ c.items[i].field \in {"name", "active"} => row.set[c.items[i].field] = c.items[i].after
                /\ c.items[i].field = "price" =>
                     row.set["price"] = PricePayload(ToReplace(c, c.items[i].target), c.items[i].after)
                /\ c.items[i].field = "stock" =>
                     row.set["stock"] \in Int /\ c.items[i].before \in Int /\ c.items[i].after \in Int
      BY <1>11, <3>2
    <3>4. c.items[i].field \in Fields /\ (c.items[i].field = "stock" => c.kind = "inventory_action")
      BY <1>1, <1>2, <3>3
    <3> QED BY <3>1, <3>3, <3>4
  <2>4. RowsShow(c, rows)
    BY <2>2, <2>3 DEF RowsShow
  <2> QED BY <2>1, <2>4
<1>14. c.kind = "price_update" => PricesAsAsked(c)
  <2> SUFFICES ASSUME q.kind = "price_update" PROVE PricesAsAsked(c)
    OBVIOUS
  <2>1. \A k \in DOMAIN q.ask : /\ q.ask[k].listing \in Listings /\ q.ask[k].value # 0 /\ q.ask[k].field = "price"
                                /\ cache[q.ask[k].listing].here
    BY <1>1 DEF Stageable
  <2>2. \A i \in DOMAIN both :
          /\ c.items[i].field = "price"
          /\ \E k \in DOMAIN q.ask : /\ c.items[i].target \in PriceTargets(cache, q.ask[k].listing)
                                     /\ c.items[i].after = q.ask[k].value
    BY <1>11, <2>1
  <2>3. ASSUME NEW k \in DOMAIN q.ask, NEW t \in PriceTargets(cache, q.ask[k].listing)
        PROVE  \E i \in DOMAIN both : c.items[i].target = t
    <3>1. Reprice(t, q.ask[k].value) \in DrawnUp(q.ask[k])
      BY <2>1 DEF DrawnUp
    <3>2. PICK i \in DOMAIN both : both[i] = Reprice(t, q.ask[k].value)
      BY <3>1
    <3>3. both[i].item.target = t
      BY <3>2 DEF Reprice, Both
    <3> QED BY <3>3
  <2> QED BY <2>1, <2>2, <2>3 DEF PricesAsAsked
<1>15. DOMAIN c.items \in SUBSET Nat /\ IsFiniteSet(DOMAIN c.items)
  <2>1. 0 \in Int /\ Len(both) \in Int /\ 1 \in Int
    OBVIOUS
  <2>2. IsFiniteSet(1 .. Len(both))
    BY <2>1, FS_Interval
  <2> QED BY <2>2
<1> QED BY <1>12, <1>13, <1>14, <1>15 DEF PlanShows

\* A change that creates things shows no items, and its payloads have no rows.
LEMMA PromotionShown ==
  ASSUME NEW q \in Requests, IsTable(live), IsTable(cache),
         NEW c, c.seen = live, c.known = cache, c.kind = "promotion", c.items = <<>>,
         c.plan = [i \in DOMAIN q.ask |-> [entity |-> q.ask[i], rows |-> <<>>]]
  PROVE  PlanShows(c)
<1>1. q.ask \in Seq(ToSet(q.ask)) /\ q.ask # <<>>
  BY RequestsAssumption
<1>2. DOMAIN q.ask = 1 .. Len(q.ask) /\ Len(q.ask) \in Nat \ {0}
  BY <1>1
<1>3. DOMAIN c.plan = 1 .. Len(q.ask) /\ \A k \in DOMAIN c.plan : c.plan[k].rows = <<>>
  BY <1>2
<1>4. Len(c.plan) = Len(q.ask)
  BY <1>2
<1>5. DOMAIN c.items = {}
  OBVIOUS
<1>6. \A k \in DOMAIN c.plan : RowsShow(c, c.plan[k].rows)
  BY <1>3, <1>5 DEF RowsShow
<1> QED BY <1>2, <1>3, <1>4, <1>5, <1>6, FS_EmptySet DEF PlanShows

\* Staging a change keeps the invariant.
LEMMA StagingKeepsPlans ==
  ASSUME PlansInv, NEW q \in Requests, StageProducts(q) \/ StagePromotion(q)
  PROVE  PlansInv'
<1>1. CASE StageProducts(q)
  <2>1. PICK both : both = PairsOf(q)
    OBVIOUS
  <2>2. PICK c : c = change'
    OBVIOUS
  <2>3. /\ writing' = NoJob /\ live' = live /\ cache' = cache /\ q.kind # "promotion"
        /\ \A i \in DOMAIN q.ask : Stageable(q.ask[i])
        /\ c = [status |-> "staged", kind |-> q.kind, ask |-> q.ask,
                items |-> [i \in DOMAIN both |-> both[i].item],
                plan |-> ProductPlan(both), seen |-> live, known |-> cache]
    BY <1>1, <2>1, <2>2 DEF StageProducts, PairsOf
  <2>4. /\ c.seen = live /\ c.known = cache /\ c.kind = q.kind /\ c.ask = q.ask
        /\ DOMAIN c.items = DOMAIN both /\ (\A i \in DOMAIN both : c.items[i] = both[i].item)
        /\ c.plan = ProductPlan(both)
    BY <2>3
  <2>5. /\ DOMAIN both = 1 .. Len(both) /\ Len(both) \in Nat
        /\ \A i \in DOMAIN both : \E k \in DOMAIN q.ask : both[i] \in DrawnUp(q.ask[k])
        /\ \A k \in DOMAIN q.ask : \A e \in DrawnUp(q.ask[k]) : \E i \in DOMAIN both : both[i] = e
    <3>1. q.kind # "promotion"
      BY <2>3
    <3>2. ArePairs(q, both)
      BY <2>1, <3>1, PairsOfRequest
    <3> QED BY <3>2 DEF ArePairs
  <2>6. IsTable(live) /\ IsTable(cache)
    BY DEF PlansInv
  <2>7. PlanShows(c)
    BY <2>3, <2>4, <2>5, <2>6, ProductsShown
  <2> QED BY <2>2, <2>3, <2>6, <2>7 DEF PlansInv, IsTable
<1>2. CASE StagePromotion(q)
  <2>1. PICK c : c = change'
    OBVIOUS
  <2>2. /\ writing' = NoJob /\ live' = live /\ cache' = cache
        /\ c.seen = live /\ c.known = cache /\ c.kind = "promotion" /\ c.items = <<>>
        /\ c.plan = [i \in DOMAIN q.ask |-> [entity |-> q.ask[i], rows |-> <<>>]]
    BY <1>2, <2>1 DEF StagePromotion
  <2>3. IsTable(live) /\ IsTable(cache)
    BY DEF PlansInv
  <2>4. PlanShows(c)
    BY <2>2, <2>3, PromotionShown
  <2> QED BY <2>1, <2>2, <2>3, <2>4 DEF PlansInv, IsTable
<1> QED BY <1>1, <1>2

\* The rebase of a row touches its stock alone.
LEMMA RebaseTouchesStock ==
  ASSUME NEW row, NEW f, DOMAIN row = {"id", "set"}, DOMAIN row.set = {f},
         NEW rows, RowsShow(change, rows), DOMAIN change.items \in SUBSET Nat, IsFiniteSet(DOMAIN change.items),
         row.id \in Listings, IsTable(live),
         f = "stock" => change.kind = "inventory_action" /\ ItemsOf(row.id, "stock") # {}
  PROVE  /\ DOMAIN Rebased(row) = {"id", "set"} /\ Rebased(row).id = row.id
         /\ DOMAIN Rebased(row).set = {f}
         /\ f # "stock" => Rebased(row).set[f] = row.set[f]
         /\ f = "stock" =>
              /\ Rebased(row).set["stock"] \in Int
              /\ \E i \in ItemsOf(row.id, "stock") :
                   Rebased(row).set["stock"] - live[row.id].stock = change.items[i].after - change.items[i].before
<1> DEFINE levels == {i \in DOMAIN change.items : /\ change.items[i].target = row.id
                                               /\ change.items[i].field = "stock"}
           last == CHOOSE i \in levels : \A j \in levels : j <= i
           x == live[row.id].stock + change.items[last].after - change.items[last].before
<1>1. Rebased(row) = IF change.kind = "inventory_action" /\ "stock" \in DOMAIN row.set
                     THEN [row EXCEPT !.set.stock = x] ELSE row
  BY DEF Rebased
<1>2. ASSUME f = "stock" PROVE x \in Int /\ \E i \in levels :
                                 x - live[row.id].stock = change.items[i].after - change.items[i].before
  <2>1. levels = ItemsOf(row.id, "stock") /\ last = LastOf(levels)
    BY DEF ItemsOf, LastOf
  <2>2. levels \in SUBSET DOMAIN change.items
    OBVIOUS
  <2> HIDE DEF levels
  <2>3. levels # {} /\ levels \in SUBSET Nat /\ IsFiniteSet(levels)
    BY <1>2, <2>1, <2>2, FS_Subset
  <2>4. last \in levels
    BY <2>1, <2>3, LargestPlace
  <2> HIDE DEF last
  <2>5. change.items[last].before \in Int /\ change.items[last].after \in Int
    BY <2>1, <2>4 DEF RowsShow, ItemsOf
  <2>6. live[row.id].stock \in Int
    BY DEF IsTable
  <2> QED BY <2>4, <2>5, <2>6
<1>3. levels = ItemsOf(row.id, "stock")
  BY DEF ItemsOf
<1> HIDE DEF x, levels
<1>4. CASE f = "stock"
  <2>1. Rebased(row) = [row EXCEPT !.set.stock = x]
    BY <1>1, <1>4
  <2>2. DOMAIN Rebased(row) = {"id", "set"} /\ Rebased(row).id = row.id /\ DOMAIN Rebased(row).set = {f}
        /\ Rebased(row).set["stock"] = x
    BY <1>4, <2>1
  <2> QED BY <1>2, <1>3, <1>4, <2>2
<1>5. CASE f # "stock"
  BY <1>1, <1>5
<1> QED BY <1>4, <1>5

\* The rebased rows of a payload still show the items, and a restock is a delta on the stock of now.
LEMMA RebasedRowsShow ==
  ASSUME PlanShows(change), IsTable(live), NEW rows, RowsShow(change, rows),
         NEW based, based = [i \in DOMAIN rows |-> Rebased(rows[i])]
  PROVE  /\ RowsShow(change, based)
         /\ \A i \in DOMAIN based :
              "stock" \in DOMAIN based[i].set =>
                \E j \in ItemsOf(based[i].id, "stock") :
                  based[i].set["stock"] - live[based[i].id].stock = change.items[j].after - change.items[j].before
<1>1. DOMAIN based = DOMAIN rows /\ DOMAIN rows = DOMAIN change.items
  BY DEF RowsShow
<1>2. DOMAIN change.items \in SUBSET Nat /\ IsFiniteSet(DOMAIN change.items)
  BY DEF PlanShows
<1>3. ASSUME NEW i \in DOMAIN based
      PROVE  /\ change.items[i].target \in Listings /\ change.items[i].field \in Fields
             /\ DOMAIN based[i] = {"id", "set"} /\ based[i].id = change.items[i].target
             /\ DOMAIN based[i].set = {change.items[i].field}
             /\ change.items[i].field \in {"name", "active"} =>
                  based[i].set[change.items[i].field] = change.items[i].after
             /\ change.items[i].field = "price" =>
                  based[i].set["price"] = PricePayload(ToReplace(change, change.items[i].target), change.items[i].after)
             /\ change.items[i].field = "stock" =>
                  /\ change.kind = "inventory_action"
                  /\ based[i].set["stock"] \in Int /\ change.items[i].before \in Int /\ change.items[i].after \in Int
                  /\ \E j \in ItemsOf(based[i].id, "stock") :
                       based[i].set["stock"] - live[based[i].id].stock
                         = change.items[j].after - change.items[j].before
  <2>1. PICK row : row = rows[i]
    OBVIOUS
  <2>2. PICK f : f = change.items[i].field
    OBVIOUS
  <2>3. /\ change.items[i].target \in Listings /\ f \in Fields
        /\ DOMAIN row = {"id", "set"} /\ row.id = change.items[i].target /\ DOMAIN row.set = {f}
        /\ f \in {"name", "active"} => row.set[f] = change.items[i].after
        /\ f = "price" =>
             row.set["price"] = PricePayload(ToReplace(change, change.items[i].target), change.items[i].after)
        /\ f = "stock" => /\ change.kind = "inventory_action"
                          /\ change.items[i].before \in Int /\ change.items[i].after \in Int
    BY <1>1, <2>1, <2>2 DEF RowsShow
  <2>4. PICK new : new = based[i]
    OBVIOUS
  <2>5. new = Rebased(row)
    BY <1>1, <2>1, <2>4
  <2>6. f = "stock" => change.kind = "inventory_action" /\ ItemsOf(row.id, "stock") # {}
    BY <1>1, <2>2, <2>3 DEF ItemsOf
  <2>7. /\ DOMAIN Rebased(row) = {"id", "set"} /\ Rebased(row).id = row.id
        /\ DOMAIN Rebased(row).set = {f}
        /\ f # "stock" => Rebased(row).set[f] = row.set[f]
        /\ f = "stock" =>
             /\ Rebased(row).set["stock"] \in Int
             /\ \E j \in ItemsOf(row.id, "stock") :
                  Rebased(row).set["stock"] - live[row.id].stock = change.items[j].after - change.items[j].before
    BY <1>2, <2>3, <2>6, RebaseTouchesStock
  <2>8. /\ DOMAIN new = {"id", "set"} /\ new.id = row.id /\ DOMAIN new.set = {f}
        /\ f # "stock" => new.set[f] = row.set[f]
        /\ f = "stock" =>
             /\ new.set["stock"] \in Int
             /\ \E j \in ItemsOf(new.id, "stock") :
                  new.set["stock"] - live[new.id].stock = change.items[j].after - change.items[j].before
    BY <2>5, <2>7
  <2> QED BY <2>2, <2>3, <2>4, <2>8
<1>4. RowsShow(change, based)
  BY <1>1, <1>3 DEF RowsShow
<1>5. ASSUME NEW i \in DOMAIN based, "stock" \in DOMAIN based[i].set
      PROVE  \E j \in ItemsOf(based[i].id, "stock") :
               based[i].set["stock"] - live[based[i].id].stock = change.items[j].after - change.items[j].before
  <2>1. change.items[i].field = "stock"
    BY <1>3, <1>5
  <2> QED BY <1>3, <2>1
<1> QED BY <1>4, <1>5

\* Beginning and rebasing keep the invariant.
LEMMA RebaseKeepsPlans ==
  ASSUME PlansInv, Standing, Begin \/ Rebase
  PROVE  PlansInv'
<1>1. CASE Begin
  <2>1. /\ writing'.next = 1 /\ writing'.at = "rebase" /\ UNCHANGED <<live, cache, change>>
        /\ change.status = "staged"
    BY <1>1 DEF Begin
  <2>2. 1 \in DOMAIN change.plan
    BY <2>1 DEF PlansInv, PlanShows
  <2> QED BY <2>1, <2>2 DEF PlansInv, IsTable
<1>2. CASE Rebase
  <2> DEFINE rows == change.plan[writing.next].rows
             based == [i \in DOMAIN rows |-> Rebased(rows[i])]
  <2>1. /\ writing.at = "rebase" /\ UNCHANGED <<live, cache>>
        /\ \/ change' = [change EXCEPT !.status = "failed"] /\ writing' = NoJob
           \/ /\ writing' = [writing EXCEPT !.at = "write", !.rows = based]
              /\ UNCHANGED change
    BY <1>2 DEF Rebase
  <2>2. writing # NoJob /\ DOMAIN writing = JobFields /\ change.status = "staged" /\ DOMAIN change = StagedFields
    BY <2>1 DEF Standing, NoJob, NothingStaged
  <2>3. CASE change' = [change EXCEPT !.status = "failed"] /\ writing' = NoJob
    <3>1. change'.status = "failed"
      BY <2>2, <2>3 DEF StagedFields
    <3> QED BY <2>1, <2>3, <3>1 DEF PlansInv, IsTable
  <2>4. CASE writing' = [writing EXCEPT !.at = "write", !.rows = based] /\ UNCHANGED change
    <3>1. RowsShow(change, rows) /\ writing.next \in DOMAIN change.plan
      BY <2>2 DEF PlansInv, PlanShows
    <3>2. RowsShow(change, based)
      <4>1. PlanShows(change) /\ IsTable(live)
        BY <2>2 DEF PlansInv
      <4> QED BY <3>1, <4>1, RebasedRowsShow
    <3>3. writing'.next = writing.next /\ writing'.rows = based
      BY <2>2, <2>4 DEF JobFields
    <3> HIDE DEF based, rows
    <3> QED BY <2>1, <2>2, <2>4, <3>1, <3>2, <3>3 DEF PlansInv, IsTable
  <2> QED BY <2>1, <2>3, <2>4
<1> QED BY <1>1, <1>2

\* Writing, whatever its answer, keeps the invariant.
LEMMA WriteKeepsPlans ==
  ASSUME PlansInv, Standing, WriteRows \/ RowsFail
  PROVE  PlansInv'
<1>1. writing.at = "write" /\ UNCHANGED <<cache, change>>
  BY DEF WriteRows, RowsFail
<1>2. writing # NoJob /\ DOMAIN writing = JobFields /\ change.status = "staged"
  BY <1>1 DEF Standing, NoJob, NothingStaged
<1>3. PlanShows(change) /\ RowsShow(change, writing.rows) /\ writing.next \in DOMAIN change.plan /\ IsTable(live)
      /\ IsTable(cache)
  BY <1>1, <1>2 DEF PlansInv
<1>4. IsTable(live')
  <2>1. live' = live \/ live' = FoldLeft(WithRow, live, writing.rows)
    BY DEF WriteRows, RowsFail, Performed
  <2>2. CASE live' = live
    BY <1>3, <2>2
  <2>3. CASE live' = FoldLeft(WithRow, live, writing.rows)
    BY <1>3, <2>3, WhatIsWritten
  <2> QED BY <2>1, <2>2, <2>3
<1>5. writing'.next \in DOMAIN change.plan /\ writing'.at # "write"
  <2>1. CASE WriteRows
    <3>1. /\ writing'.at \in {"refresh", "rebase"}
          /\ writing'.next = IF writing.next = Len(change.plan) THEN writing.next ELSE writing.next + 1
      BY <1>2, <2>1 DEF WriteRows, JobFields
    <3>2. /\ writing.next \in 1 .. Len(change.plan) /\ Len(change.plan) \in Nat
          /\ DOMAIN change.plan = 1 .. Len(change.plan)
      BY <1>3 DEF PlanShows
    <3> QED BY <3>1, <3>2
  <2>2. CASE RowsFail
    <3>1. writing'.at = "undo" /\ writing'.next = writing.next
      BY <1>2, <2>2 DEF RowsFail, JobFields
    <3> QED BY <1>3, <3>1
  <2> QED BY <2>1, <2>2
<1> QED BY <1>1, <1>3, <1>4, <1>5 DEF PlansInv, IsTable

\* The other steps of the writer, other requests and the shop keep the invariant.
LEMMA OthersKeepPlans ==
  ASSUME PlansInv, Standing, Undo \/ Fail \/ Return \/ Refresh \/ \E l \in Listings : Edit(l)
  PROVE  PlansInv'
<1>1. CASE Undo
  <2>1. writing.at = "undo" /\ UNCHANGED <<live, cache, change>>
    BY <1>1 DEF Undo
  <2>2. writing # NoJob /\ DOMAIN writing = JobFields
    BY <2>1 DEF Standing, NoJob
  <2>3. writing'.at = "undo" /\ writing'.next = writing.next
    BY <1>1, <2>2 DEF Undo, JobFields
  <2> QED BY <2>1, <2>2, <2>3 DEF PlansInv, IsTable
<1>2. CASE Fail
  <2>1. writing' = NoJob /\ change'.status = "failed" /\ UNCHANGED <<live, cache>>
    BY <1>2 DEF Fail
  <2> QED BY <2>1 DEF PlansInv, IsTable
<1>3. CASE Return
  <2>1. writing' = NoJob /\ change'.status = "none" /\ live' = live /\ cache' \in {live, cache}
    BY <1>3 DEF Return, NothingStaged
  <2> QED BY <2>1 DEF PlansInv, IsTable
<1>4. CASE Refresh
  <2>1. UNCHANGED <<live, change, writing>> /\ cache' = live
    BY <1>4 DEF Refresh
  <2> QED BY <2>1 DEF PlansInv, IsTable
<1>5. ASSUME NEW l \in Listings, Edit(l) PROVE PlansInv'
  <2>1. UNCHANGED <<cache, change, writing>>
    BY <1>5 DEF Edit
  <2>2. IsTable(live)
    BY DEF PlansInv
  <2>3. \/ \E c \in Currencies : live' = [live EXCEPT ![l].price[c] = 11]
        \/ live' = [live EXCEPT ![l].price = None]
        \/ live' = [live EXCEPT ![l].here = FALSE]
        \/ live' = [live EXCEPT ![l].stock = @ - 1]
    BY <1>5 DEF Edit
  <2>4. /\ live' = [m \in Listings |-> [f \in RowFields |-> live'[m][f]]]
        /\ \A m \in Listings : DOMAIN live'[m].price = Currencies /\ live'[m].stock \in Int
    BY <2>2, <2>3 DEF IsTable, RowFields, None
  <2> QED BY <2>1, <2>4 DEF PlansInv, IsTable
<1> QED BY <1>1, <1>2, <1>3, <1>4, <1>5

\* The plan of a change shows its items until it is written.
LEMMA PlansStep ==
  ASSUME PlansInv, Standing, [WritePlansNext]_writeVars
  PROVE  PlansInv'
<1>1. CASE \E q \in Requests : StageProducts(q) \/ StagePromotion(q)
  BY <1>1, StagingKeepsPlans
<1>2. CASE Begin \/ Rebase
  BY <1>2, RebaseKeepsPlans
<1>3. CASE WriteRows \/ RowsFail
  BY <1>3, WriteKeepsPlans
<1>4. CASE Undo \/ Fail \/ Return \/ Refresh \/ \E l \in Listings : Edit(l)
  BY <1>4, OthersKeepPlans
<1>5. CASE UNCHANGED writeVars
  BY <1>5 DEF writeVars, PlansInv, IsTable
<1> QED BY <1>1, <1>2, <1>3, <1>4, <1>5 DEF WritePlansNext

\* The payload under way when the writer writes: its rows show the items.
LEMMA PayloadShows ==
  ASSUME PlansInv, Standing, WriteRows
  PROVE  /\ PlanShows(change) /\ RowsShow(change, writing.rows) /\ IsTable(live)
         /\ live' = FoldLeft(WithRow, live, writing.rows)
<1>1. writing.at = "write" /\ live' = FoldLeft(WithRow, live, writing.rows)
  BY DEF WriteRows, Performed
<1>2. writing # NoJob /\ change.status = "staged"
  BY <1>1 DEF Standing, NoJob, NothingStaged
<1> QED BY <1>1, <1>2 DEF PlansInv

\* What the last item of a field says is what the shop holds of it after the write.
LEMMA FieldsWritten ==
  ASSUME PlansInv, Standing, WriteRows, NEW l \in Listings, NEW f \in RowFields
  PROVE  /\ ItemsOf(l, f) = {} => live'[l][f] = live[l][f]
         /\ ItemsOf(l, f) # {} =>
              /\ LastOf(ItemsOf(l, f)) \in ItemsOf(l, f)
              /\ f \in {"name", "active"} => live'[l][f] = change.items[LastOf(ItemsOf(l, f))].after
              /\ f = "price" =>
                   live'[l][f] = PricePayload(ToReplace(change, l), change.items[LastOf(ItemsOf(l, f))].after)
<1>1. PICK c : c = change
  OBVIOUS
<1>2. PICK rows : rows = writing.rows
  OBVIOUS
<1>3. PlanShows(c) /\ RowsShow(c, rows) /\ IsTable(live) /\ live' = FoldLeft(WithRow, live, rows)
  BY <1>1, <1>2, PayloadShows
<1>4. PICK I : I = ItemsOf(l, f)
  OBVIOUS
<1>5. I = {i \in DOMAIN c.items : c.items[i].target = l /\ c.items[i].field = f}
  BY <1>1, <1>4 DEF ItemsOf
<1>6. live'[l][f] = IF I = {} THEN live[l][f] ELSE rows[LastOf(I)].set[f]
  BY <1>3, <1>5, WhatIsWritten
<1>7. I \in SUBSET DOMAIN c.items /\ I \in SUBSET Nat /\ IsFiniteSet(I)
  BY <1>3, <1>5, FS_Subset DEF PlanShows
<1>8. I # {} => LastOf(I) \in I
  BY <1>7, LargestPlace
<1>9. ASSUME NEW i \in I
      PROVE  /\ f \in {"name", "active"} => rows[i].set[f] = c.items[i].after
             /\ f = "price" => rows[i].set[f] = PricePayload(ToReplace(c, l), c.items[i].after)
  <2>1. i \in DOMAIN rows /\ c.items[i].target = l /\ c.items[i].field = f
    BY <1>3, <1>5 DEF RowsShow
  <2> QED BY <1>3, <2>1 DEF RowsShow
<1>10. PICK last : last = LastOf(I)
  OBVIOUS
<1>11. I # {} => /\ last \in I
                 /\ live'[l][f] = rows[last].set[f]
                 /\ f \in {"name", "active"} => rows[last].set[f] = c.items[last].after
                 /\ f = "price" => rows[last].set[f] = PricePayload(ToReplace(c, l), c.items[last].after)
  BY <1>6, <1>8, <1>9, <1>10
<1> QED BY <1>1, <1>4, <1>6, <1>10, <1>11

\* The invariants of the writer start and are kept together.
LEMMA PlansTogether ==
  /\ WritePlansInit => RollbackInv /\ PlansInv
  /\ (RollbackInv /\ PlansInv) /\ [WritePlansNext]_writeVars => RollbackInv' /\ PlansInv'
  /\ RollbackInv => Standing
<1>1. RollbackInv => Standing
  BY DEF RollbackInv
<1> QED BY <1>1, RollbackStart, PlansBegin, RollbackStep, PlansStep

\* A write changes what the change shows, of one listing.
LEMMA WritesAsShown ==
  ASSUME PlansInv, Standing, WriteRows, NEW l \in Listings
  PROVE  /\ \A f \in {"name", "active"} :
              IF ItemsOf(l, f) = {} THEN live'[l][f] = live[l][f]
              ELSE live'[l][f] = change.items[LastOf(ItemsOf(l, f))].after
         /\ Steady(l) => \A c \in Currencies :
              IF c = "eur" /\ ItemsOf(l, "price") # {}
              THEN live'[l].price[c] = change.items[LastOf(ItemsOf(l, "price"))].after
              ELSE live'[l].price[c] = live[l].price[c]
         /\ ItemsOf(l, "stock") = {} => live'[l].stock = live[l].stock
<1>1. ASSUME NEW f \in {"name", "active"}
      PROVE  IF ItemsOf(l, f) = {} THEN live'[l][f] = live[l][f]
             ELSE live'[l][f] = change.items[LastOf(ItemsOf(l, f))].after
  BY <1>1, FieldsWritten DEF RowFields
<1>2. ItemsOf(l, "stock") = {} => live'[l].stock = live[l].stock
  BY FieldsWritten DEF RowFields
<1>3. ASSUME Steady(l), NEW c \in Currencies
      PROVE  IF c = "eur" /\ ItemsOf(l, "price") # {}
             THEN live'[l].price[c] = change.items[LastOf(ItemsOf(l, "price"))].after
             ELSE live'[l].price[c] = live[l].price[c]
  <2>1. PICK I : I = ItemsOf(l, "price")
    OBVIOUS
  <2>2. PICK amount : amount = change.items[LastOf(I)].after
    OBVIOUS
  <2>3. /\ I = {} => live'[l]["price"] = live[l]["price"]
        /\ I # {} => live'[l]["price"] = PricePayload(ToReplace(change, l), amount)
    BY <2>1, <2>2, FieldsWritten DEF RowFields
  <2>4. ToReplace(change, l) = live[l].price
    BY <1>3 DEF ToReplace, Steady
  <2>5. DOMAIN live[l].price = Currencies
    BY DEF PlansInv, IsTable
  <2> QED BY <1>3, <2>1, <2>2, <2>3, <2>4, <2>5 DEF PricePayload, Currencies
<1> QED BY <1>1, <1>2, <1>3

\* A write changes in the shop what the change showed, field by field: ShopwareWriter.apply on the
\* payloads of the stage_* methods, for any catalog, requests and edits.
THEOREM ShownChangesAreWritten == WritePlansSpec => ShownIsWritten
<1>1. RollbackInv /\ PlansInv /\ [WritePlansNext]_writeVars =>
        [WriteRows /\ Entity = "product" =>
           \A l \in Listings :
             /\ \A f \in {"name", "active"} :
                  IF ItemsOf(l, f) = {} THEN live'[l][f] = live[l][f]
                  ELSE live'[l][f] = change.items[LastOf(ItemsOf(l, f))].after
             /\ Steady(l) => \A c \in Currencies :
                  IF c = "eur" /\ ItemsOf(l, "price") # {}
                  THEN live'[l].price[c] = change.items[LastOf(ItemsOf(l, "price"))].after
                  ELSE live'[l].price[c] = live[l].price[c]
             /\ ItemsOf(l, "stock") = {} => live'[l].stock = live[l].stock]_writeVars
  BY PlansTogether, WritesAsShown
<1> QED BY <1>1, PlansTogether, PTL DEF WritePlansSpec, ShownIsWritten

\* Relatives are relatives of each other, and the rows of a price stay among them.
LEMMA TargetsAreRelatives ==
  ASSUME NEW rows, NEW l \in Listings, NEW m \in Listings
  PROVE  /\ l \in Relatives(l) /\ PriceTargets(rows, l) \in SUBSET Relatives(l)
         /\ Children(rows, l) \in SUBSET Relatives(l)
         /\ m \in Relatives(l) => l \in Relatives(m) /\ Relatives(m) = Relatives(l)
         /\ Relatives(l) \in SUBSET Listings
BY DEF Relatives, PriceTargets, Children, Listings

\* Rows that agree on a family have the same targets.
LEMMA SameTargets ==
  ASSUME NEW rows, NEW other, NEW l \in Listings,
         \A m \in Relatives(l) : rows[m].here = other[m].here /\ rows[m].price = other[m].price
  PROVE  Children(rows, l) = Children(other, l) /\ PriceTargets(rows, l) = PriceTargets(other, l)
<1>1. Children(rows, l) = Children(other, l)
  BY DEF Children, Relatives
<1>2. \A v \in Children(rows, l) : rows[v].price = other[v].price
  BY TargetsAreRelatives
<1> QED BY <1>1, <1>2 DEF PriceTargets

\* After the write of a price update, what is sold under an asked listing costs what was asked.
LEMMA WritesThePrice ==
  ASSUME PlansInv, Standing, WriteRows, change.kind = "price_update",
         NEW i \in DOMAIN change.ask, NEW l, l = change.ask[i].listing, Undisturbed(l),
         \A j \in DOMAIN change.ask \ {i} : change.ask[j].listing \notin Relatives(l),
         NEW v \in (IF Children(live, l) = {} THEN {l} ELSE Children(live, l))
  PROVE  Price(live', v) = change.ask[i].value
<1>1. PICK c : c = change
  OBVIOUS
<1>2. PICK value : value = change.ask[i].value
  OBVIOUS
<1>3. PlanShows(c) /\ PricesAsAsked(c)
  BY <1>1, PayloadShows DEF PlanShows
<1>4. l \in Listings /\ value # 0 /\ c.known[l].here
  BY <1>1, <1>2, <1>3 DEF PricesAsAsked
<1> DEFINE T == PriceTargets(c.known, l)
<1>5. Children(live, l) = Children(c.known, l) /\ PriceTargets(live, l) = T
  BY <1>1, <1>4, SameTargets DEF Undisturbed
<1>6. ASSUME NEW t \in Relatives(l)
      PROVE  /\ t \in T => Gross(live'[t].price) = value
             /\ t \notin T => live'[t].price = live[t].price
             /\ live'[t].here = live[t].here
  <2>1. t \in Listings
    BY <1>4, TargetsAreRelatives
  <2>2. ASSUME NEW j \in DOMAIN c.items, c.items[j].target = t
        PROVE  t \in T /\ c.items[j].after = value /\ c.items[j].field = "price"
    <3>1. PICK k \in DOMAIN c.ask : t \in PriceTargets(c.known, c.ask[k].listing) /\ c.items[j].after = c.ask[k].value
      BY <1>3, <2>2 DEF PricesAsAsked
    <3>2. c.ask[k].listing \in Listings /\ c.items[j].field = "price"
      BY <1>3, <3>1 DEF PricesAsAsked
    <3>3. t \in Relatives(c.ask[k].listing)
      BY <3>1, <3>2, TargetsAreRelatives
    <3>4. c.ask[k].listing \in Relatives(t) /\ Relatives(t) = Relatives(l)
      BY <1>4, <2>1, <3>2, <3>3, TargetsAreRelatives
    <3>5. k = i
      BY <1>1, <3>4
    <3> QED BY <1>1, <1>2, <3>1, <3>2, <3>5
  <2>3. PICK I : I = ItemsOf(t, "price")
    OBVIOUS
  <2>4. I = {j \in DOMAIN c.items : c.items[j].target = t /\ c.items[j].field = "price"}
    BY <1>1, <2>3 DEF ItemsOf
  <2>5. PICK amount : amount = c.items[LastOf(I)].after
    OBVIOUS
  <2>6. /\ I = {} => live'[t]["price"] = live[t]["price"]
        /\ I # {} => LastOf(I) \in I /\ live'[t]["price"] = PricePayload(ToReplace(c, t), amount)
    BY <1>1, <2>1, <2>3, <2>5, FieldsWritten DEF RowFields
  <2>7. t \in T => I # {}
    <3>1. ASSUME t \in T PROVE \E j \in DOMAIN c.items : c.items[j].target = t
      BY <1>1, <1>3, <3>1 DEF PricesAsAsked
    <3> QED BY <2>2, <2>4, <3>1
  <2>8. I # {} => t \in T /\ amount = value
    BY <2>2, <2>4, <2>5, <2>6
  <2>9. I # {} => Gross(live'[t].price) = value
    <3>1. DOMAIN ToReplace(c, t) = Currencies
      BY <1>3, <2>1 DEF ToReplace, PlanShows, IsTable
    <3> QED BY <1>4, <2>6, <2>8, <3>1 DEF PricePayload, Gross, Currencies
  <2>10. ItemsOf(t, "here") = {}
    BY <1>1, <2>2 DEF ItemsOf
  <2>11. live'[t].here = live[t].here
    BY <2>1, <2>10, FieldsWritten DEF RowFields
  <2> QED BY <2>6, <2>7, <2>8, <2>9, <2>11
<1>7. v \in Relatives(l) /\ l \in Relatives(l)
  BY <1>4, TargetsAreRelatives
<1>8. CASE v \in T
  <2>1. Gross(live'[v].price) = value
    BY <1>6, <1>7, <1>8
  <2> QED BY <1>2, <1>4, <2>1 DEF Price
<1>9. CASE v \notin T
  <2>1. v \in Children(live, l) /\ v \in Children(c.known, l) /\ l = Family /\ v \in Variants
    <3>1. Children(c.known, l) = {} => T = {l}
      BY DEF PriceTargets
    <3> QED BY <1>5, <1>9, <3>1 DEF Children
  <2>2. l \in T /\ Gross(c.known[v].price) = 0
    BY <1>9, <2>1 DEF PriceTargets
  <2>3. live'[v].price = c.known[v].price /\ live'[l].here
    BY <1>1, <1>4, <1>6, <1>7, <1>9 DEF Undisturbed
  <2>4. Gross(live'[l].price) = value
    BY <1>6, <1>7, <2>2
  <2> QED BY <1>2, <2>1, <2>2, <2>3, <2>4 DEF Price
<1> QED BY <1>8, <1>9

\* A family asked for at a price is sold at it: stage_price_update's targets and the writer, for
\* any catalog, requests and edits.
THEOREM FamiliesAreRepriced == WritePlansSpec => FamilyRepriced
<1>1. RollbackInv /\ PlansInv /\ [WritePlansNext]_writeVars =>
        [WriteRows /\ change.kind = "price_update" =>
           \A i \in DOMAIN change.ask :
             LET l == change.ask[i].listing IN
             Undisturbed(l) /\ (\A j \in DOMAIN change.ask \ {i} : change.ask[j].listing \notin Relatives(l)) =>
               \A v \in (IF Children(live, l) = {} THEN {l} ELSE Children(live, l)) :
                 Price(live', v) = change.ask[i].value]_writeVars
  BY PlansTogether, WritesThePrice
<1> QED BY <1>1, PlansTogether, PTL DEF WritePlansSpec, FamilyRepriced

\* The rebase of a change writes each restock as a delta.
LEMMA RestocksCount ==
  ASSUME PlansInv, Standing, Rebase, writing'.at = "write"
  PROVE  \A i \in DOMAIN writing'.rows :
           "stock" \in DOMAIN writing'.rows[i].set =>
             \E j \in ItemsOf(writing'.rows[i].id, "stock") :
               writing'.rows[i].set.stock - live[writing'.rows[i].id].stock
                 = change.items[j].after - change.items[j].before
<1>1. PICK rows : rows = change.plan[writing.next].rows
  OBVIOUS
<1>2. PICK based : based = [i \in DOMAIN rows |-> Rebased(rows[i])]
  OBVIOUS
<1>3. writing.at = "rebase"
  BY DEF Rebase
<1>4. writing # NoJob /\ DOMAIN writing = JobFields /\ change.status = "staged"
  BY <1>3 DEF Standing, NoJob, NothingStaged
<1>5. writing' = [writing EXCEPT !.at = "write", !.rows = based]
  BY <1>1, <1>2 DEF Rebase, NoJob
<1>6. writing'.rows = based
  BY <1>4, <1>5 DEF JobFields
<1>7. PlanShows(change) /\ IsTable(live) /\ RowsShow(change, rows)
  BY <1>1, <1>4 DEF PlansInv, PlanShows
<1>8. \A i \in DOMAIN based :
        "stock" \in DOMAIN based[i].set =>
          \E j \in ItemsOf(based[i].id, "stock") :
            based[i].set["stock"] - live[based[i].id].stock = change.items[j].after - change.items[j].before
  BY <1>2, <1>7, RebasedRowsShow
<1> QED BY <1>6, <1>8

\* A sale between the staging and the apply of a restock is kept: _current_stock_base, for any
\* catalog, requests and edits.
THEOREM RestocksAreDeltas == WritePlansSpec => RestockIsADelta
<1>1. RollbackInv /\ PlansInv /\ [WritePlansNext]_writeVars =>
        [Rebase /\ writing'.at = "write" =>
           \A i \in DOMAIN writing'.rows :
             "stock" \in DOMAIN writing'.rows[i].set =>
               \E j \in ItemsOf(writing'.rows[i].id, "stock") :
                 writing'.rows[i].set.stock - live[writing'.rows[i].id].stock
                   = change.items[j].after - change.items[j].before]_writeVars
  BY PlansTogether, RestocksCount
<1> QED BY <1>1, PlansTogether, PTL DEF WritePlansSpec, RestockIsADelta
=============================================================================
