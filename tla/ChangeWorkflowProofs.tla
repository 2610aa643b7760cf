------------------------ MODULE ChangeWorkflowProofs ------------------------
(***************************************************************************)
(* Proofs about ChangeWorkflow, for every value of its constants: type     *)
(* correctness and the stock ledger; then, with RowsMayGoBad = FALSE, the  *)
(* safety properties from the inductive invariant Bookkeeping, that it     *)
(* implements ChangeLifecycle, and that a settled change is final.         *)
(***************************************************************************)
EXTENDS ChangeWorkflowInvariant, TLAPS

-----------------------------------------------------------------------------
(***************************************************************************)
(* Type correctness.                                                       *)
(***************************************************************************)
LEMMA NoRowType == NoRow \in Row
BY ProductsAssumption DEF NoRow, Row, Status, Kinds

LEMMA IdsType == /\ Ids \subseteq Nat
                 /\ 0 \notin Ids
                 /\ \A c \in Ids : c <= MaxChanges
BY BoundsAssumption DEF Ids

\* An answered request leaves a well-typed slot.
LEMMA AnswerType ==
  ASSUME RequestsTypeOK, NEW r \in Requests, Answer(r)
  PROVE  RequestsTypeOK'
BY NoRowType, IdsType DEF RequestsTypeOK, Answer, Steps

\* A write that takes effect keeps the shop well typed.
LEMMA LandType ==
  ASSUME ShopTypeOK, NEW c \in Ids, NEW row \in Row, NEW b \in Int,
         Land(c, row, b), late' \subseteq Late
  PROVE  ShopTypeOK'
<1>1. row.qty \in Nat /\ row.target \in Products
  BY DEF Row
<1>2. landed' \in [Ids -> Nat] /\ sold' \in [Products -> 0 .. MaxSales]
  BY DEF ShopTypeOK, Land, Moves
<1>3. CASE row.kind = "restock"
  <2>1. stock' \in [Products -> Int] /\ credited' \in [Products -> Nat]
    BY <1>1, <1>3 DEF ShopTypeOK, Land, Moves
  <2>2. raced' \subseteq Products
    BY <1>1, <1>3 DEF ShopTypeOK, Land, Moves
  <2>3. QED
    BY <1>2, <2>1, <2>2 DEF ShopTypeOK
<1>4. CASE row.kind # "restock"
  BY <1>2, <1>4 DEF ShopTypeOK, Land, Moves
<1>5. QED
  BY <1>3, <1>4

\* What a request leaves behind when it gives up is a well-typed late write.
LEMMA AbandonedType ==
  ASSUME RequestsTypeOK, NEW r \in Requests
  PROVE  Abandoned(r) \subseteq Late
BY DEF Abandoned, RequestsTypeOK, Late

\* Handing out an id keeps the durable part of the ledger well typed.
LEMMA HandOutType ==
  ASSUME LedgerTypeOK, NEW r, NEW stored \in Row, HandOut(r, stored)
  PROVE  /\ disk' \in [Ids -> Row]
         /\ bad' \subseteq Ids
         /\ given' \in [Ids -> Nat]
         /\ sequence + 1 \in Ids
BY DEF LedgerTypeOK, HandOut

LEMMA DownType ==
  ASSUME TypeOK, Down
  PROVE  /\ RequestsTypeOK'
         /\ ShopTypeOK'
         /\ up' \in BOOLEAN /\ ledger' \in [Ids -> Row] /\ sequence' \in 0 .. MaxChanges
         /\ excused' \subseteq Ids
         /\ applies' \in 0 .. MaxApplies
<1>1. RequestsTypeOK'
  BY NoRowType, IdsType DEF Down, TypeOK, RequestsTypeOK, Steps
<1>2. late' \subseteq Late
  BY AbandonedType DEF Down, TypeOK, ShopTypeOK
<1>3. ShopTypeOK'
  BY <1>2 DEF Down, TypeOK, ShopTypeOK
<1>4. up' \in BOOLEAN /\ ledger' \in [Ids -> Row] /\ sequence' \in 0 .. MaxChanges
  <2>1. ledger' \in [Ids -> Row]
    BY NoRowType DEF Down
  <2>2. up' \in BOOLEAN
    BY DEF Down
  <2>3. sequence' \in 0 .. MaxChanges
    BY BoundsAssumption DEF Down
  <2>4. QED
    BY <2>1, <2>2, <2>3
<1>5. excused' \subseteq Ids /\ applies' \in 0 .. MaxApplies
  <2>1. \A r \in Requests : pc[r] \in {"writing", "written"} => on[r] \in Ids
    BY DEF TypeOK, RequestsTypeOK
  <2>2. QED
    BY <2>1 DEF Down, TypeOK
<1>6. QED
  BY <1>1, <1>3, <1>4, <1>5

LEMMA InitType == Init => TypeOK
<1>1. SUFFICES ASSUME Init PROVE TypeOK
  OBVIOUS
<1>2. LedgerTypeOK
  <2>1. ledger \in [Ids -> Row] /\ disk \in [Ids -> Row]
    BY <1>1, NoRowType DEF Init
  <2>2. sequence \in 0 .. MaxChanges
    BY <1>1, BoundsAssumption DEF Init
  <2>3. QED
    BY <1>1, <2>1, <2>2 DEF Init, LedgerTypeOK
<1>3. RequestsTypeOK
  BY <1>1, NoRowType, IdsType DEF Init, RequestsTypeOK, Steps
<1>4. ShopTypeOK
  BY <1>1, BoundsAssumption DEF Init, ShopTypeOK
<1>5. excused \subseteq Ids /\ applies \in 0 .. MaxApplies
  BY <1>1, BoundsAssumption DEF Init
<1>6. QED
  BY <1>2, <1>3, <1>4, <1>5 DEF TypeOK

\* A stutter on a group of variables keeps that group's types.
LEMMA LedgerTypeSame == LedgerTypeOK /\ UNCHANGED ledgerVars => LedgerTypeOK'
BY DEF LedgerTypeOK, ledgerVars

LEMMA RequestsTypeSame == RequestsTypeOK /\ UNCHANGED requestVars => RequestsTypeOK'
BY DEF RequestsTypeOK, requestVars

LEMMA ShopTypeSame == ShopTypeOK /\ UNCHANGED shopVars => ShopTypeOK'
BY DEF ShopTypeOK, shopVars

LEMMA CountsTypeSame ==
  ASSUME excused \subseteq Ids, applies \in 0 .. MaxApplies, UNCHANGED <<excused, applies>>
  PROVE  excused' \subseteq Ids /\ applies' \in 0 .. MaxApplies
OBVIOUS

\* Staging and applying requests.
LEMMA NewRequestType ==
  ASSUME TypeOK, NEW r \in Requests, NewRequest(r)
  PROVE  TypeOK'
<1> USE DEF TypeOK
<1>1. ASSUME NEW kind \in Kinds, NEW p \in Products, NEW q \in Nat, Draft(r, kind, p, q)
      PROVE  TypeOK'
  <2>1. [status |-> "staged", plan |-> FALSE, kind |-> kind, target |-> p, qty |-> q,
         before |-> stock[p]] \in Row
    BY <1>1 DEF Row, Status, ShopTypeOK
  <2>2. RequestsTypeOK'
    BY <1>1, <2>1, IdsType DEF Draft, RequestsTypeOK, Steps
  <2>3. QED
    BY <1>1, <2>2, LedgerTypeSame, ShopTypeSame, CountsTypeSame DEF Draft
<1>2. ASSUME NEW p \in Products, StageReplay(r, p) PROVE TypeOK'
  BY <1>1, <1>2 DEF StageReplay, Kinds
<1>3. ASSUME NEW p \in Products, NEW q \in Quantities, StageRestock(r, p, q) PROVE TypeOK'
  BY <1>1, <1>3, QuantitiesAssumption DEF StageRestock, Kinds
<1>4. ASSUME NEW c \in Ids, ApplyBegin(r, c) PROVE TypeOK'
  <2>1. ledger[c] \in Row /\ ledger[c].before \in Int
    BY DEF LedgerTypeOK, Row
  <2>2. RequestsTypeOK'
    BY <1>4, <2>1, IdsType DEF ApplyBegin, RequestsTypeOK, Steps
  <2>3. excused' \subseteq Ids
    BY <1>4 DEF ApplyBegin
  <2>4. applies' \in 0 .. MaxApplies
    BY <1>4, BoundsAssumption DEF ApplyBegin
  <2>5. QED
    BY <1>4, <2>2, <2>3, <2>4, LedgerTypeSame, ShopTypeSame DEF ApplyBegin
<1>5. ASSUME NEW c \in Ids, Discard(r, c) PROVE TypeOK'
  <2>1. ledger' \in [Ids -> Row]
    BY <1>5 DEF Discard, LedgerTypeOK, Row, Status
  <2>2. disk' \in [Ids -> Row]
    BY <1>5, <2>1 DEF Discard, LedgerTypeOK
  <2>3. LedgerTypeOK'
    BY <1>5, <2>1, <2>2 DEF Discard, LedgerTypeOK
  <2>4. excused' \subseteq Ids
    BY <1>5 DEF Discard
  <2>5. QED
    BY <1>5, <2>3, <2>4, RequestsTypeSame, ShopTypeSame DEF Discard, requestVars
<1>6. QED
  BY <1>2, <1>3, <1>4, <1>5 DEF NewRequest

LEMMA StagingType ==
  ASSUME TypeOK, NEW r \in Requests, Staging(r)
  PROVE  TypeOK'
<1> USE DEF TypeOK
<1>1. CASE StageAccepted(r)
  <2>1. [held[r] EXCEPT !.plan = TRUE] \in Row
    BY DEF RequestsTypeOK, Row
  <2>2. /\ disk' \in [Ids -> Row]
        /\ bad' \subseteq Ids
        /\ given' \in [Ids -> Nat]
        /\ sequence + 1 \in Ids
    BY <1>1, <2>1, HandOutType DEF StageAccepted
  <2>3. ledger' \in [Ids -> Row]
    BY <1>1, <2>1, <2>2 DEF StageAccepted, LedgerTypeOK
  <2>4. sequence' \in 0 .. MaxChanges
    BY <1>1, <2>2, BoundsAssumption DEF StageAccepted, Ids
  <2>5. LedgerTypeOK'
    BY <1>1, <2>2, <2>3, <2>4 DEF StageAccepted, LedgerTypeOK
  <2>6. QED
    BY <1>1, <2>5, AnswerType, ShopTypeSame DEF StageAccepted
<1>2. CASE StageRefused(r)
  BY <1>2, AnswerType, LedgerTypeSame, ShopTypeSame DEF StageRefused
<1>3. QED
  BY <1>1, <1>2 DEF Staging

LEMMA ApplyingType ==
  ASSUME TypeOK, NEW r \in Requests, Applying(r)
  PROVE  TypeOK'
<1> USE DEF TypeOK
<1>1. CASE Rebase(r)
  <2>1. stock[held[r].target] \in Int
    BY DEF RequestsTypeOK, ShopTypeOK, Row
  <2>2. RequestsTypeOK'
    BY <1>1, <2>1, IdsType DEF Rebase, RequestsTypeOK, Steps
  <2>3. QED
    BY <1>1, <2>2, LedgerTypeSame, ShopTypeSame DEF Rebase
<1>2. CASE RebaseFails(r)
  BY <1>2, AnswerType, LedgerTypeSame, ShopTypeSame DEF RebaseFails
<1>3. CASE WriteLands(r)
  <2>1. on[r] \in Ids /\ held[r] \in Row /\ base[r] \in Int
    BY <1>3 DEF WriteLands, RequestsTypeOK
  <2>2. late' \subseteq Late
    BY <1>3 DEF WriteLands, ShopTypeOK
  <2>3. ShopTypeOK'
    BY <1>3, <2>1, <2>2, LandType DEF WriteLands
  <2>4. RequestsTypeOK'
    BY <1>3 DEF WriteLands, RequestsTypeOK, Steps
  <2>5. QED
    BY <1>3, <2>3, <2>4, LedgerTypeSame DEF WriteLands
<1>4. CASE WriteRejected(r)
  BY <1>4, AnswerType, LedgerTypeSame, ShopTypeSame DEF WriteRejected
<1>5. CASE Repost(r)
  <2>1. on[r] \in Ids
    BY <1>5 DEF Repost, RequestsTypeOK
  <2>2. held[r].target \in Products
    BY DEF RequestsTypeOK, Row
  <2>3. ShopTypeOK'
    BY <1>5, <2>2, AbandonedType DEF Repost, ShopTypeOK
  <2>4. RequestsTypeOK'
    BY <1>5 DEF Repost, RequestsTypeOK, Steps
  <2>5. QED
    BY <1>5, <2>1, <2>3, <2>4, LedgerTypeSame DEF Repost
<1>6. CASE AnswerLost(r)
  <2>1. on[r] \in Ids
    BY <1>6 DEF AnswerLost, RequestsTypeOK
  <2>2. ShopTypeOK'
    BY <1>6, AbandonedType DEF AnswerLost, ShopTypeOK
  <2>3. QED
    BY <1>6, <2>1, <2>2, AnswerType, LedgerTypeSame DEF AnswerLost
<1>7. CASE ApplyCommitted(r)
  <2>1. on[r] \in Ids
    BY <1>7 DEF ApplyCommitted, RequestsTypeOK
  <2>2. ledger' \in [Ids -> Row] /\ disk' \in [Ids -> Row]
    BY <1>7, <2>1 DEF ApplyCommitted, LedgerTypeOK, Row, Status
  <2>3. LedgerTypeOK'
    BY <1>7, <2>2 DEF ApplyCommitted, LedgerTypeOK
  <2>4. QED
    BY <1>7, <2>3, AnswerType, ShopTypeSame DEF ApplyCommitted
<1>8. CASE ApplyTooLate(r)
  BY <1>8, AnswerType, LedgerTypeSame, ShopTypeSame DEF ApplyTooLate
<1>9. QED
  BY <1>1, <1>2, <1>3, <1>4, <1>5, <1>6, <1>7, <1>8 DEF Applying, Writing

LEMMA EnvironmentType ==
  ASSUME TypeOK, Environment
  PROVE  TypeOK'
<1> USE DEF TypeOK
<1>1. CASE LateLands
  <2>1. PICK w \in late : /\ late' = late \ {w}
                          /\ Land(w.change, w.row, w.base)
                          /\ UNCHANGED <<ledgerVars, requestVars, excused, applies>>
    BY <1>1 DEF LateLands
  <2>2. w.change \in Ids /\ w.row \in Row /\ w.base \in Int /\ late' \subseteq Late
    BY <2>1 DEF ShopTypeOK, Late
  <2>3. ShopTypeOK'
    BY <2>1, <2>2, LandType
  <2>4. QED
    BY <2>1, <2>3, LedgerTypeSame, RequestsTypeSame
<1>2. CASE LateDropped
  <2>1. ShopTypeOK'
    BY <1>2 DEF LateDropped, ShopTypeOK
  <2>2. QED
    BY <1>2, <2>1, LedgerTypeSame, RequestsTypeSame DEF LateDropped
<1>3. ASSUME NEW p \in Products, Sale(p) PROVE TypeOK'
  <2>1. ShopTypeOK'
    BY <1>3, BoundsAssumption DEF Sale, ShopTypeOK, Moves
  <2>2. QED
    BY <1>3, <2>1, LedgerTypeSame, RequestsTypeSame DEF Sale
<1>4. CASE Crash
  BY <1>4, DownType DEF Crash, LedgerTypeOK
<1>5. ASSUME NEW r \in Requests, CrashInStage(r) PROVE TypeOK'
  <2>1. held[r] \in Row
    BY DEF RequestsTypeOK
  <2>2. QED
    BY <1>5, <2>1, DownType, HandOutType DEF CrashInStage, LedgerTypeOK
<1>6. ASSUME NEW c \in Ids, RowGoesBad(c) PROVE TypeOK'
  <2>1. LedgerTypeOK'
    BY <1>6 DEF RowGoesBad, LedgerTypeOK
  <2>2. QED
    BY <1>6, <2>1, RequestsTypeSame, ShopTypeSame DEF RowGoesBad
<1>7. CASE Restart
  <2>1. ledger' \in [Ids -> Row]
    BY <1>7, NoRowType DEF Restart, LedgerTypeOK
  <2>2. sequence' \in 0 .. MaxChanges
    BY <1>7, BoundsAssumption DEF Restart, Readable, Ids
  <2>3. LedgerTypeOK'
    BY <1>7, <2>1, <2>2 DEF Restart, LedgerTypeOK
  <2>4. QED
    BY <1>7, <2>3, RequestsTypeSame, ShopTypeSame DEF Restart
<1>8. QED
  BY <1>1, <1>2, <1>3, <1>4, <1>5, <1>6, <1>7 DEF Environment

LEMMA StutterType == TypeOK /\ UNCHANGED vars => TypeOK'
BY LedgerTypeSame, RequestsTypeSame, ShopTypeSame DEF TypeOK, vars

\* Every variable keeps its type and every bounded counter its bound; a request names a
\* change exactly while it applies one.
THEOREM TypeCorrect == Spec => []TypeOK
<1>1. TypeOK /\ [Next]_vars => TypeOK'
  BY NewRequestType, StagingType, ApplyingType, EnvironmentType, StutterType DEF Next
<1>2. QED
  BY InitType, <1>1, PTL DEF Spec

-----------------------------------------------------------------------------
(***************************************************************************)
(* The stock.                                                              *)
(***************************************************************************)
StockKnown == BaseIsCurrent /\ StockAccounted

\* A restock that is performed adds its quantity to the stock it builds on, and every
\* restock of the product still pending makes the product raced.
LEMMA LandKnown ==
  ASSUME TypeOK, TypeOK', StockKnown, NEW c \in Ids, NEW row \in Row, NEW b \in Int,
         Land(c, row, b),
         row.kind = "restock" /\ row.target \notin raced => b = stock[row.target],
         \A r \in Requests : pc'[r] = "writing" => pc[r] = "writing",
         UNCHANGED <<held, base>>, late' \subseteq late
  PROVE  StockKnown'
<1>1. row.qty \in Nat /\ row.target \in Products /\ sold' = sold
  BY DEF Row, Land
<1>2. CASE row.kind # "restock"
  <2>1. stock' = stock /\ credited' = credited /\ raced' = raced
    BY <1>2 DEF Land
  <2>2. QED
    BY <1>1, <2>1 DEF StockKnown, StockAccounted, BaseIsCurrent
<1>3. CASE row.kind = "restock"
  <2> DEFINE p == row.target
  <2>1. /\ stock' = [stock EXCEPT ![p] = b + row.qty]
        /\ credited' = [credited EXCEPT ![p] = @ + row.qty]
        /\ raced' = IF Pending(p)' THEN raced \cup {p} ELSE raced
    BY <1>3 DEF Land, Moves
  <2>2. BaseIsCurrent'
    <3>1. SUFFICES /\ \A r \in Requests :
                        pc'[r] = "writing" /\ held'[r].kind = "restock"
                        /\ held'[r].target \notin raced' => base'[r] = stock'[held'[r].target]
                   /\ \A w \in late' : w.row.kind = "restock" /\ w.row.target \notin raced'
                        => w.base = stock'[w.row.target]
      BY DEF BaseIsCurrent
    <3>2. CASE Pending(p)'
      <4>1. raced' = raced \cup {p} /\ \A q \in Products : q # p => stock'[q] = stock[q]
        BY <2>1, <3>2 DEF TypeOK, ShopTypeOK
      <4>2. \A r \in Requests : held[r].target \in Products
        BY DEF TypeOK, RequestsTypeOK, Row
      <4>3. \A w \in late : w.row.target \in Products
        BY DEF TypeOK, ShopTypeOK, Late, Row
      <4>4. QED
        BY <4>1, <4>2, <4>3 DEF StockKnown, BaseIsCurrent
    <3>3. CASE ~Pending(p)'
      <4>1. raced' = raced /\ \A q \in Products : q # p => stock'[q] = stock[q]
        BY <2>1, <3>3 DEF TypeOK, ShopTypeOK
      <4>2. \A r \in Requests :
              held[r].target \in Products
              /\ (pc'[r] = "writing" /\ held'[r].kind = "restock" => held'[r].target # p)
        BY <3>3 DEF Pending, TypeOK, RequestsTypeOK, Row
      <4>3. \A w \in late' : w.row.target \in Products
                             /\ (w.row.kind = "restock" => w.row.target # p)
        BY <3>3 DEF Pending, TypeOK, ShopTypeOK, Late, Row
      <4>4. QED
        BY <4>1, <4>2, <4>3 DEF StockKnown, BaseIsCurrent
    <3>4. QED
      BY <3>2, <3>3
  <2>3. StockAccounted'
    <3>1. SUFFICES ASSUME NEW q \in Products \ raced'
                   PROVE  stock'[q] = InitialStock - sold[q] + credited'[q]
      BY <1>1 DEF StockAccounted
    <3>2. q \notin raced /\ stock[q] = InitialStock - sold[q] + credited[q]
      BY <2>1 DEF StockKnown, StockAccounted
    <3>3. /\ stock[q] \in Int /\ sold[q] \in Nat /\ credited[q] \in Nat
          /\ InitialStock \in Int
      BY BoundsAssumption DEF TypeOK, ShopTypeOK
    <3>4. CASE q = p
      <4>1. b = stock[q]
        BY <1>3, <3>2, <3>4
      <4>2. stock'[q] = b + row.qty /\ credited'[q] = credited[q] + row.qty
        BY <1>1, <2>1, <3>4 DEF TypeOK, ShopTypeOK
      <4>3. QED
        BY <1>1, <3>2, <3>3, <4>1, <4>2
    <3>5. CASE q # p
      BY <1>1, <2>1, <3>2, <3>5 DEF TypeOK, ShopTypeOK
    <3>6. QED
      BY <3>4, <3>5
  <2>4. QED
    BY <2>2, <2>3 DEF StockKnown
<1>4. QED
  BY <1>2, <1>3

LEMMA SaleKnown ==
  ASSUME TypeOK, StockKnown, NEW p \in Products, Sale(p)
  PROVE  StockKnown'
<1>1. /\ stock' = [stock EXCEPT ![p] = @ - 1] /\ sold' = [sold EXCEPT ![p] = @ + 1]
      /\ credited' = credited /\ late' = late
      /\ pc' = pc /\ held' = held /\ base' = base
      /\ raced' = IF Pending(p) THEN raced \cup {p} ELSE raced
  BY DEF Sale, Moves, Pending, requestVars
<1>2. \A q \in Products : q # p => stock'[q] = stock[q] /\ sold'[q] = sold[q]
  BY <1>1 DEF TypeOK, ShopTypeOK
<1>3. stock'[p] = stock[p] - 1 /\ sold'[p] = sold[p] + 1
  BY <1>1 DEF TypeOK, ShopTypeOK
<1>4. BaseIsCurrent'
  <2>1. \A r \in Requests : held[r].target \in Products
    BY DEF TypeOK, RequestsTypeOK, Row
  <2>2. \A w \in late : w.row.target \in Products
    BY DEF TypeOK, ShopTypeOK, Late, Row
  <2>3. CASE Pending(p)
    BY <1>1, <1>2, <2>1, <2>2, <2>3 DEF StockKnown, BaseIsCurrent
  <2>4. CASE ~Pending(p)
    <3>1. /\ \A r \in Requests :
               pc[r] = "writing" /\ held[r].kind = "restock" => held[r].target # p
          /\ \A w \in late : w.row.kind = "restock" => w.row.target # p
      BY <2>4 DEF Pending
    <3>2. raced' = raced
      BY <1>1, <2>4
    <3>3. QED
      BY <1>1, <1>2, <2>1, <2>2, <3>1, <3>2 DEF StockKnown, BaseIsCurrent
  <2>5. QED
    BY <2>3, <2>4
<1>5. ASSUME NEW q \in Products \ raced' PROVE stock'[q] = InitialStock - sold'[q] + credited[q]
  <2>1. /\ stock[q] = InitialStock - sold[q] + credited[q]
        /\ stock[q] \in Int /\ sold[q] \in Nat /\ credited[q] \in Nat /\ InitialStock \in Int
    BY <1>1, BoundsAssumption DEF StockKnown, StockAccounted, TypeOK, ShopTypeOK
  <2>2. QED
    BY <1>2, <1>3, <2>1
<1>6. QED
  BY <1>1, <1>4, <1>5 DEF StockKnown, StockAccounted

\* A step that moves no stock and posts no new restock.
LEMMA PostsNothing ==
  ASSUME TypeOK, StockKnown, UNCHANGED <<stock, sold, credited>>, raced \subseteq raced',
         \A r \in Requests :
           \/ pc'[r] # "writing"
           \/ held'[r].kind # "restock"
           \/ pc[r] = "writing" /\ held'[r] = held[r] /\ base'[r] = base[r]
           \/ held'[r].target \in raced'
           \/ base'[r] = stock[held'[r].target],
         \A w \in late' : w \in late \/ \E r \in Requests : w \in Abandoned(r)
  PROVE  StockKnown'
<1>1. StockAccounted'
  BY DEF StockKnown, StockAccounted
<1>2. \A r \in Requests :
        pc'[r] = "writing" /\ held'[r].kind = "restock" /\ held'[r].target \notin raced'
          => base'[r] = stock'[held'[r].target]
  BY DEF StockKnown, BaseIsCurrent
<1>3. ASSUME NEW w \in late', w.row.kind = "restock", w.row.target \notin raced'
      PROVE  w.base = stock'[w.row.target]
  <2>1. CASE w \in late
    BY <1>3, <2>1 DEF StockKnown, BaseIsCurrent
  <2>2. CASE \E r \in Requests : w \in Abandoned(r)
    <3>1. PICK r \in Requests : w \in Abandoned(r)
      BY <2>2
    <3>2. pc[r] = "writing" /\ w.row = held[r] /\ w.base = base[r]
      BY <3>1 DEF Abandoned
    <3>3. QED
      BY <1>3, <3>2 DEF StockKnown, BaseIsCurrent
  <2>3. QED
    BY <1>3, <2>1, <2>2
<1>4. QED
  BY <1>1, <1>2, <1>3 DEF StockKnown, BaseIsCurrent

LEMMA RequestKnown ==
  ASSUME TypeOK, TypeOK', StockKnown, NEW r \in Requests,
         NewRequest(r) \/ Staging(r) \/ Applying(r)
  PROVE  StockKnown'
<1> DEFINE Others == \A s \in Requests : s # r => /\ pc'[s] = pc[s] /\ held'[s] = held[s]
                                                 /\ base'[s] = base[s]
           Calm == UNCHANGED <<stock, sold, credited>> /\ raced \subseteq raced'
<1>1. ASSUME Answer(r), Calm, late' \subseteq late \cup Abandoned(r) PROVE StockKnown'
  <2>1. Others /\ pc'[r] = "idle"
    BY <1>1 DEF Answer, TypeOK, RequestsTypeOK
  <2>2. QED
    BY <1>1, <2>1, PostsNothing
<1>2. ASSUME NEW kind, NEW p, NEW q, Draft(r, kind, p, q) PROVE StockKnown'
  <2>1. Others /\ pc'[r] = "preview" /\ Calm /\ late' = late
    BY <1>2 DEF Draft, shopVars, TypeOK, RequestsTypeOK
  <2>2. QED
    BY <2>1, PostsNothing
<1>3. ASSUME NEW c \in Ids, ApplyBegin(r, c) PROVE StockKnown'
  <2>1. Others /\ (pc'[r] # "writing" \/ held'[r].kind # "restock") /\ Calm /\ late' = late
    BY <1>3 DEF ApplyBegin, shopVars, TypeOK, RequestsTypeOK
  <2>2. QED
    BY <2>1, PostsNothing
<1>4. ASSUME NEW c \in Ids, Discard(r, c) PROVE StockKnown'
  BY <1>4, PostsNothing DEF Discard, shopVars
<1>5. CASE Rebase(r)
  <2>1. Others /\ held' = held /\ base'[r] = stock[held[r].target] /\ Calm /\ late' = late
    BY <1>5 DEF Rebase, shopVars, TypeOK, RequestsTypeOK
  <2>2. QED
    BY <2>1, PostsNothing
<1>6. CASE WriteLands(r)
  <2>1. on[r] \in Ids /\ held[r] \in Row /\ base[r] \in Int /\ pc[r] = "writing"
    BY <1>6 DEF WriteLands, TypeOK, RequestsTypeOK
  <2>2. \A s \in Requests : pc'[s] = "writing" => pc[s] = "writing"
    BY <1>6 DEF WriteLands, TypeOK, RequestsTypeOK
  <2>3. held[r].kind = "restock" /\ held[r].target \notin raced => base[r] = stock[held[r].target]
    BY <2>1 DEF StockKnown, BaseIsCurrent
  <2>4. QED
    BY <1>6, <2>1, <2>2, <2>3, LandKnown DEF WriteLands
<1>7. CASE Repost(r)
  <2>1. Others /\ held' = held /\ base' = base /\ Calm /\ late' \subseteq late \cup Abandoned(r)
    BY <1>7 DEF Repost, TypeOK, RequestsTypeOK
  <2>2. pc[r] = "writing" \/ held[r].kind # "restock" \/ held[r].target \in raced'
    BY <1>7 DEF Repost
  <2>3. QED
    BY <2>1, <2>2, PostsNothing
<1>8. CASE AnswerLost(r)
  BY <1>1, <1>8 DEF AnswerLost
<1>9. CASE Staging(r) \/ RebaseFails(r) \/ WriteRejected(r) \/ ApplyCommitted(r) \/ ApplyTooLate(r)
  BY <1>1, <1>9 DEF Staging, StageAccepted, StageRefused, RebaseFails, WriteRejected,
     ApplyCommitted, ApplyTooLate, shopVars
<1>10. QED
  BY <1>2, <1>3, <1>4, <1>5, <1>6, <1>7, <1>8, <1>9
     DEF NewRequest, StageReplay, StageRestock, Applying, Writing

LEMMA EnvironmentKnown ==
  ASSUME TypeOK, TypeOK', StockKnown, Environment
  PROVE  StockKnown'
<1>1. CASE LateLands
  <2>1. PICK w \in late : /\ late' = late \ {w}
                          /\ UNCHANGED requestVars
                          /\ Land(w.change, w.row, w.base)
    BY <1>1 DEF LateLands
  <2>2. w.change \in Ids /\ w.row \in Row /\ w.base \in Int
    BY DEF TypeOK, ShopTypeOK, Late
  <2>3. w.row.kind = "restock" /\ w.row.target \notin raced => w.base = stock[w.row.target]
    BY DEF StockKnown, BaseIsCurrent
  <2>4. QED
    BY <2>1, <2>2, <2>3, LandKnown DEF requestVars
<1>2. CASE Down
  BY <1>2, PostsNothing DEF Down
<1>3. CASE LateDropped
  BY <1>3, PostsNothing DEF LateDropped, requestVars
<1>4. ASSUME NEW c \in Ids, RowGoesBad(c) PROVE StockKnown'
  BY <1>4, PostsNothing DEF RowGoesBad, requestVars, shopVars
<1>5. CASE Restart
  BY <1>5, PostsNothing DEF Restart, requestVars, shopVars
<1>6. QED
  BY <1>1, <1>2, <1>3, <1>4, <1>5, SaleKnown DEF Environment, Crash, CrashInStage

LEMMA NextKnown ==
  ASSUME TypeOK, TypeOK', StockKnown, [Next]_vars
  PROVE  StockKnown'
<1>1. CASE UNCHANGED vars
  BY <1>1, PostsNothing DEF vars, requestVars, shopVars
<1>2. QED
  BY <1>1, RequestKnown, EnvironmentKnown DEF Next

\* The stock of a product is the initial level less the sales plus every persisted
\* restock, unless it moved between a restock's read and its write.
THEOREM StockAccountedAlways == Spec => []StockAccounted
<1>1. Init => StockKnown
  <2>1. Init => StockAccounted
    BY BoundsAssumption DEF Init, StockAccounted
  <2>2. Init => BaseIsCurrent
    BY DEF Init, BaseIsCurrent
  <2>3. QED
    BY <2>1, <2>2 DEF StockKnown
<1>2. TypeOK /\ TypeOK' /\ StockKnown /\ [Next]_vars => StockKnown'
  BY NextKnown
<1>3. StockKnown => StockAccounted
  BY DEF StockKnown
<1>4. QED
  BY <1>1, <1>2, <1>3, TypeCorrect, PTL DEF Spec

-----------------------------------------------------------------------------
(***************************************************************************)
(* Facts shared by the steps.                                              *)
(***************************************************************************)
LEMMA NobodyOn ==
  ASSUME NEW c
  PROVE  Outstanding(c) = {} <=> \A r \in Requests : on[r] # c
BY DEF Outstanding

LEMMA NobodyOnNext ==
  ASSUME NEW c
  PROVE  Outstanding(c)' = {} <=> \A r \in Requests : on'[r] # c
BY DEF Outstanding

\* A step that leaves the ledger alone keeps what is known of it.
LEMMA LedgerKept ==
  ASSUME MemoryIsDisk, IdsInOrder, UNCHANGED ledgerVars
  PROVE  MemoryIsDisk' /\ IdsInOrder' /\ \A c : HandedOut(c)' <=> HandedOut(c)
BY DEF MemoryIsDisk, IdsInOrder, HandedOut, ledgerVars

LEMMA AppliedKept ==
  ASSUME AppliedHasLanded, UNCHANGED <<disk, landed>>
  PROVE  AppliedHasLanded'
BY DEF AppliedHasLanded

\* An answered request carries nothing; the others carry what they did.
LEMMA AnsweredCarry ==
  ASSUME TypeOK, RequestsCarry, NEW r \in Requests, Answer(r),
         \A c \in Ids : disk[c].status # "none" /\ disk[c].plan
                         => disk'[c].status # "none" /\ disk'[c].plan,
         landed' = landed
  PROVE  RequestsCarry'
<1>1. SUFFICES ASSUME NEW s \in Requests
               PROVE  /\ pc'[s] = "preview" => held'[s].status = "staged"
                      /\ on'[s] \in Ids => disk'[on'[s]].status # "none" /\ disk'[on'[s]].plan
                      /\ pc'[s] = "written" => landed'[on'[s]] >= 1
  BY DEF RequestsCarry, HandedOut
<1>2. CASE s = r
  BY <1>2, IdsType DEF Answer, TypeOK, RequestsTypeOK
<1>3. CASE s # r
  <2>1. pc'[s] = pc[s] /\ on'[s] = on[s] /\ held'[s] = held[s]
    BY <1>3 DEF Answer, TypeOK, RequestsTypeOK
  <2>2. QED
    BY <2>1 DEF RequestsCarry, HandedOut
<1>4. QED
  BY <1>2, <1>3

\* A request that gives up before its write has landed leaves its change as it found it.
LEMMA AnsweredOneAtATime ==
  ASSUME TypeOK, NEW r \in Requests, Answer(r), UNCHANGED <<disk, landed, late>>,
         NEW c \in Ids, OneAtATime(c), on[r] = c => pc[r] # "written"
  PROVE  OneAtATime(c)'
<1>1. ~CutOff(c)'
  BY DEF OneAtATime, CutOff
<1>2. \A s \in Requests : on'[s] = c => s # r /\ on[s] = c /\ pc'[s] = pc[s]
  BY IdsType DEF Answer, TypeOK, RequestsTypeOK
<1>3. CASE on[r] = c
  <2>1. /\ disk[c].status = "staged"
        /\ landed[c] = 0
        /\ \A s \in Requests : on[s] = c => s = r
    BY <1>3 DEF OneAtATime, Outstanding
  <2>2. Outstanding(c)' = {}
    BY <1>2, <2>1 DEF Outstanding
  <2>3. QED
    BY <1>1, <2>1, <2>2 DEF OneAtATime
<1>4. CASE on[r] # c
  <2>1. \A s \in Requests : on'[s] = c <=> on[s] = c
    BY <1>2, <1>4 DEF Answer, TypeOK, RequestsTypeOK
  <2>2. Outstanding(c)' = Outstanding(c)
    BY <2>1 DEF Outstanding
  <2>3. \A s \in Outstanding(c) : pc'[s] = pc[s]
    BY <1>2, <2>1 DEF Outstanding
  <2>4. QED
    BY <1>1, <2>2, <2>3 DEF OneAtATime
<1>5. QED
  BY <1>3, <1>4

\* Nothing that concerns c moves.
LEMMA SameOneAtATime ==
  ASSUME NEW c \in Ids, OneAtATime(c),
         disk'[c] = disk[c], landed'[c] = landed[c],
         CutOff(c)' => CutOff(c),
         \A r \in Requests : on'[r] = c <=> on[r] = c,
         \A r \in Requests : on[r] = c => (pc'[r] = "written" <=> pc[r] = "written")
  PROVE  OneAtATime(c)'
<1>1. Outstanding(c)' = Outstanding(c)
  BY DEF Outstanding
<1>2. \A r \in Outstanding(c) : pc'[r] = "written" <=> pc[r] = "written"
  BY DEF Outstanding
<1>3. QED
  BY <1>1, <1>2 DEF OneAtATime

-----------------------------------------------------------------------------
LEMMA InitBookkeeping == Init => Bookkeeping
<1>1. SUFFICES ASSUME Init PROVE Bookkeeping
  OBVIOUS
<1>2. \A c \in Ids : disk[c].status = "none"
  BY <1>1 DEF Init, NoRow
<1>3. DownIsIdle /\ MemoryIsDisk
  BY <1>1 DEF Init, DownIsIdle, MemoryIsDisk
<1>4. IdsInOrder
  BY <1>1, <1>2 DEF Init, IdsInOrder, HandedOut, Ids
<1>5. RequestsCarry
  BY <1>1, IdsType DEF Init, RequestsCarry
<1>6. AppliedHasLanded
  BY <1>2 DEF AppliedHasLanded
<1>7. ASSUME NEW c \in Ids PROVE OneAtATime(c)
  BY <1>1, <1>2, IdsType DEF Init, OneAtATime, CutOff, Outstanding
<1>8. QED
  BY <1>3, <1>4, <1>5, <1>6, <1>7 DEF Bookkeeping

-----------------------------------------------------------------------------
(***************************************************************************)
(* Every step keeps Bookkeeping.                                           *)
(***************************************************************************)
LEMMA UpWhileBusy ==
  ASSUME Bookkeeping, NEW r \in Requests, pc[r] # "idle"
  PROVE  up /\ ledger = disk
BY DEF Bookkeeping, DownIsIdle, MemoryIsDisk

\* The steps of a request that only answer it, nothing having been written for it.
LEMMA AnswerKeeps ==
  ASSUME TypeOK, Bookkeeping, NEW r \in Requests, Answer(r),
         UNCHANGED <<ledgerVars, landed, late, excused>>,
         on[r] \in Ids \ excused => pc[r] # "written"
  PROVE  Bookkeeping'
<1>1. disk' = disk /\ up' = up /\ landed' = landed /\ late' = late
  BY DEF ledgerVars
<1>2. DownIsIdle'
  BY <1>1 DEF Bookkeeping, DownIsIdle, Answer, TypeOK, RequestsTypeOK
<1>3. MemoryIsDisk' /\ IdsInOrder' /\ AppliedHasLanded'
  BY <1>1, LedgerKept, AppliedKept DEF Bookkeeping
<1>4. RequestsCarry'
  BY <1>1, AnsweredCarry DEF Bookkeeping
<1>5. \A c \in Ids \ excused : OneAtATime(c)'
  BY <1>1, AnsweredOneAtATime DEF Bookkeeping
<1>6. QED
  BY <1>2, <1>3, <1>4, <1>5 DEF Bookkeeping

LEMMA DraftKeeps ==
  ASSUME TypeOK, Bookkeeping, NEW r \in Requests, NEW kind, NEW p, NEW q, Draft(r, kind, p, q)
  PROVE  Bookkeeping'
<1>1. disk' = disk /\ up' = up /\ landed' = landed /\ late' = late /\ on' = on
      /\ excused' = excused /\ up
  BY DEF Draft, ledgerVars, shopVars
<1>2. MemoryIsDisk' /\ IdsInOrder' /\ AppliedHasLanded'
  BY <1>1, LedgerKept, AppliedKept DEF Bookkeeping, Draft
<1>3. DownIsIdle'
  BY <1>1 DEF DownIsIdle
<1>4. on[r] \notin Ids /\ pc[r] = "idle"
  BY DEF Draft, TypeOK, RequestsTypeOK
<1>5. pc' = [pc EXCEPT ![r] = "preview"] /\ held'[r].status = "staged"
      /\ \A s \in Requests : s # r => held'[s] = held[s]
  BY DEF Draft, TypeOK, RequestsTypeOK
<1>6. RequestsCarry'
  BY <1>1, <1>4, <1>5 DEF Bookkeeping, RequestsCarry, HandedOut, TypeOK, RequestsTypeOK
<1>7. \A c \in Ids \ excused : OneAtATime(c)'
  BY <1>1, <1>4, <1>5, SameOneAtATime DEF Bookkeeping, CutOff, TypeOK, RequestsTypeOK
<1>8. QED
  BY <1>1, <1>2, <1>3, <1>6, <1>7 DEF Bookkeeping

LEMMA ApplyBeginKeeps ==
  ASSUME TypeOK, Bookkeeping, NEW r \in Requests, NEW c \in Ids, ApplyBegin(r, c)
  PROVE  Bookkeeping'
<1>1. /\ disk' = disk /\ up' = up /\ landed' = landed /\ late' = late /\ up
      /\ excused' = IF Quiet(c) THEN excused ELSE excused \cup {c}
      /\ on' = [on EXCEPT ![r] = c]
  BY DEF ApplyBegin, ledgerVars, shopVars
<1>2. pc[r] = "idle" /\ pc'[r] \in {"rebase", "writing"}
      /\ \A s \in Requests : s # r => pc'[s] = pc[s] /\ held'[s] = held[s] /\ on'[s] = on[s]
  BY DEF ApplyBegin, TypeOK, RequestsTypeOK
<1>3. disk[c].status = "staged" /\ disk[c].plan
  BY <1>1 DEF ApplyBegin, Bookkeeping, MemoryIsDisk
<1>4. MemoryIsDisk' /\ IdsInOrder' /\ AppliedHasLanded'
  BY <1>1, LedgerKept, AppliedKept DEF Bookkeeping, ApplyBegin
<1>5. on'[r] = c
  BY <1>1 DEF TypeOK, RequestsTypeOK
<1>6. RequestsCarry'
  BY <1>1, <1>2, <1>3, <1>5 DEF Bookkeeping, RequestsCarry, HandedOut
<1>7. ASSUME NEW d \in Ids \ excused' PROVE OneAtATime(d)'
  <2>1. d \in Ids \ excused /\ OneAtATime(d)
    BY <1>1, <1>7 DEF Bookkeeping
  <2>2. on[r] # d
    BY <1>2 DEF TypeOK, RequestsTypeOK
  <2>3. CASE d = c
    <3>1. Outstanding(c) = {}
      BY <1>1, <1>7, <2>3 DEF Quiet
    <3>2. \A s \in Requests : on[s] # c
      BY <3>1, NobodyOn
    <3>3. landed[c] = 0
      BY <1>3, <2>1, <2>3, <3>1 DEF OneAtATime
    <3>4. Outstanding(c)' = {r}
      BY <1>1, <1>5, <3>2 DEF Outstanding, TypeOK, RequestsTypeOK
    <3>5. ~CutOff(c)'
      BY <1>1, <2>1, <2>3 DEF OneAtATime, CutOff
    <3>6. QED
      BY <1>1, <1>2, <1>3, <2>3, <3>3, <3>4, <3>5 DEF OneAtATime
  <2>4. CASE d # c
    BY <1>1, <1>2, <1>5, <2>1, <2>2, <2>4, SameOneAtATime DEF CutOff
  <2>5. QED
    BY <2>3, <2>4
<1>8. DownIsIdle'
  BY <1>1 DEF DownIsIdle
<1>9. QED
  BY <1>4, <1>6, <1>7, <1>8 DEF Bookkeeping

LEMMA DiscardKeeps ==
  ASSUME TypeOK, Bookkeeping, NEW r \in Requests, NEW c \in Ids, Discard(r, c)
  PROVE  Bookkeeping'
<1>1. /\ up /\ up' = up /\ bad' = bad /\ given' = given /\ sequence' = sequence
      /\ pc' = pc /\ on' = on /\ held' = held /\ late' = late /\ landed' = landed
      /\ excused' = IF Quiet(c) THEN excused ELSE excused \cup {c}
  BY DEF Discard, shopVars
<1>2. ledger = disk /\ disk[c].status = "staged"
  BY <1>1 DEF Discard, Bookkeeping, MemoryIsDisk
<1>3. ledger' = disk'
  BY <1>2 DEF Discard, TypeOK, LedgerTypeOK
<1>4. /\ disk'[c].status = "discarded" /\ disk'[c].plan = disk[c].plan
      /\ \A d \in Ids : d # c => disk'[d] = disk[d]
  BY <1>2 DEF Discard, TypeOK, LedgerTypeOK, Row
<1>5. \A d \in Ids : HandedOut(d)' <=> HandedOut(d)
  BY <1>2, <1>4 DEF HandedOut
<1>6. DownIsIdle' /\ MemoryIsDisk'
  BY <1>1, <1>2, <1>3, <1>4 DEF Bookkeeping, DownIsIdle, MemoryIsDisk, HandedOut
<1>7. IdsInOrder'
  BY <1>1, <1>5 DEF Bookkeeping, IdsInOrder
<1>8. RequestsCarry'
  BY <1>1, <1>2, <1>4 DEF Bookkeeping, RequestsCarry, HandedOut
<1>9. AppliedHasLanded'
  BY <1>1, <1>2, <1>4 DEF Bookkeeping, AppliedHasLanded
<1>10. ASSUME NEW d \in Ids \ excused' PROVE OneAtATime(d)'
  <2>1. d \in Ids \ excused /\ OneAtATime(d)
    BY <1>1, <1>10 DEF Bookkeeping
  <2>2. CASE d = c
    <3>1. Outstanding(c) = {} /\ ~CutOff(c)
      BY <1>1, <1>10, <2>2 DEF Quiet
    <3>2. Outstanding(c)' = {} /\ ~CutOff(c)'
      BY <1>1, <3>1, NobodyOn, NobodyOnNext DEF CutOff
    <3>3. landed[c] = 0
      BY <1>2, <2>1, <2>2, <3>1 DEF OneAtATime
    <3>4. QED
      BY <1>1, <1>4, <2>2, <3>2, <3>3 DEF OneAtATime
  <2>3. CASE d # c
    BY <1>1, <1>4, <2>1, <2>3, SameOneAtATime DEF CutOff
  <2>4. QED
    BY <2>2, <2>3
<1>11. QED
  BY <1>6, <1>7, <1>8, <1>9, <1>10 DEF Bookkeeping

\* The next id is a fresh one, and nothing is known of it yet.
LEMMA NextIdIsFresh ==
  ASSUME TypeOK, Bookkeeping, up, NEW r \in Requests, NEW stored \in Row,
         stored.status = "staged", HandOut(r, stored)
  PROVE  /\ sequence + 1 \in Ids
         /\ disk[sequence + 1].status = "none"
         /\ disk'[sequence + 1] = stored
         /\ \A d \in Ids : d # sequence + 1 => disk'[d] = disk[d]
         /\ bad' = {}
         /\ \A d \in Ids : given'[d] = IF HandedOut(d)' THEN 1 ELSE 0
         /\ \A d \in Ids : HandedOut(d)' <=> d <= sequence + 1
<1>1. sequence + 1 \in Ids /\ sequence \in Nat /\ Ids \subseteq Nat
  BY DEF HandOut, TypeOK, LedgerTypeOK, Ids
<1>2. \A d \in Ids : HandedOut(d) <=> d <= sequence
  BY DEF Bookkeeping, IdsInOrder
<1>3. disk[sequence + 1].status = "none"
  BY <1>1, <1>2 DEF HandedOut
<1>4. /\ disk'[sequence + 1] = stored
      /\ \A d \in Ids : d # sequence + 1 => disk'[d] = disk[d]
  BY <1>1 DEF HandOut, TypeOK, LedgerTypeOK
<1>5. bad' = {}
  BY DEF HandOut, Bookkeeping, MemoryIsDisk
<1>6. \A d \in Ids : HandedOut(d)' <=> d <= sequence + 1
  <2>1. SUFFICES ASSUME NEW d \in Ids PROVE disk'[d].status # "none" <=> d <= sequence + 1
    BY DEF HandedOut
  <2>2. CASE d = sequence + 1
    BY <1>1, <1>4, <2>2
  <2>3. CASE d # sequence + 1
    BY <1>1, <1>2, <1>4, <2>3 DEF HandedOut
  <2>4. QED
    BY <2>2, <2>3
<1>7. ASSUME NEW d \in Ids PROVE given'[d] = IF HandedOut(d)' THEN 1 ELSE 0
  <2>1. given[d] = IF HandedOut(d) THEN 1 ELSE 0
    BY DEF Bookkeeping, IdsInOrder
  <2>2. given' = [given EXCEPT ![sequence + 1] = @ + 1]
    BY DEF HandOut
  <2>3. CASE d = sequence + 1
    BY <1>1, <1>3, <1>6, <2>1, <2>2, <2>3 DEF HandedOut, TypeOK, LedgerTypeOK
  <2>4. CASE d # sequence + 1
    BY <1>1, <1>4, <2>1, <2>2, <2>4 DEF HandedOut, TypeOK, LedgerTypeOK
  <2>5. QED
    BY <2>3, <2>4
<1>8. QED
  BY <1>1, <1>3, <1>4, <1>5, <1>6, <1>7

\* No request and no landed write belongs to an id that was never handed out.
LEMMA FreshIsUntouched ==
  ASSUME TypeOK, Bookkeeping, NEW c \in Ids, disk[c].status = "none"
  PROVE  /\ \A r \in Requests : on[r] # c
         /\ c \notin excused => landed[c] = 0 /\ ~CutOff(c)
<1>1. \A r \in Requests : on[r] # c
  BY DEF Bookkeeping, RequestsCarry, HandedOut
<1>2. ASSUME c \notin excused PROVE landed[c] = 0 /\ ~CutOff(c)
  BY <1>1, <1>2, NobodyOn DEF Bookkeeping, OneAtATime
<1>3. QED
  BY <1>1, <1>2

LEMMA StageAcceptedKeeps ==
  ASSUME TypeOK, Bookkeeping, NEW r \in Requests, StageAccepted(r)
  PROVE  Bookkeeping'
<1> DEFINE row == [held[r] EXCEPT !.plan = TRUE]
<1>1. row \in Row /\ row.status = "staged" /\ HandOut(r, row) /\ Answer(r) /\ pc[r] = "preview"
  <2>1. HandOut(r, row) /\ Answer(r) /\ pc[r] = "preview"
    BY DEF StageAccepted
  <2>2. held[r] \in Row /\ held[r].status = "staged"
    BY <2>1 DEF Bookkeeping, RequestsCarry, TypeOK, RequestsTypeOK
  <2>3. QED
    BY <2>1, <2>2 DEF Row
<1>2. up /\ ledger = disk
  BY <1>1, UpWhileBusy
<1>3. /\ sequence + 1 \in Ids
      /\ disk[sequence + 1].status = "none"
      /\ disk'[sequence + 1] = row
      /\ \A d \in Ids : d # sequence + 1 => disk'[d] = disk[d]
      /\ bad' = {}
      /\ \A d \in Ids : given'[d] = IF HandedOut(d)' THEN 1 ELSE 0
      /\ \A d \in Ids : HandedOut(d)' <=> d <= sequence + 1
  BY <1>1, <1>2, NextIdIsFresh
<1>4. /\ up' = up /\ sequence' = sequence + 1 /\ landed' = landed /\ late' = late
      /\ excused' = excused
      /\ ledger' = [ledger EXCEPT ![sequence + 1] = row]
      /\ disk' = [disk EXCEPT ![sequence + 1] = row]
  BY DEF StageAccepted, shopVars, HandOut
<1>5. DownIsIdle' /\ MemoryIsDisk'
  <2>1. \A c \in Ids : disk'[c].status # "none" \/ disk'[c] = NoRow
    BY <1>1, <1>3 DEF Bookkeeping, MemoryIsDisk, HandedOut
  <2>2. ledger' = disk'
    BY <1>2, <1>4
  <2>3. QED
    BY <1>2, <1>3, <1>4, <2>1, <2>2 DEF DownIsIdle, MemoryIsDisk, HandedOut
<1>6. IdsInOrder'
  BY <1>3, <1>4 DEF IdsInOrder, TypeOK, LedgerTypeOK, Ids
<1>7. RequestsCarry'
  <2>1. \A c \in Ids : disk[c].status # "none" /\ disk[c].plan
                       => disk'[c].status # "none" /\ disk'[c].plan
    BY <1>3
  <2>2. QED
    BY <1>1, <1>4, <2>1, AnsweredCarry DEF Bookkeeping
<1>8. AppliedHasLanded'
  <2>1. \A c \in Ids : disk'[c].status = "applied" => disk'[c] = disk[c]
    BY <1>1, <1>3
  <2>2. QED
    BY <1>4, <2>1 DEF Bookkeeping, AppliedHasLanded
<1>9. ASSUME NEW c \in Ids \ excused' PROVE OneAtATime(c)'
  <2>1. c \in Ids \ excused /\ OneAtATime(c)
    BY <1>4, <1>9 DEF Bookkeeping
  <2>2. on'[r] = 0 /\ on[r] \notin Ids
        /\ \A s \in Requests : s # r => on'[s] = on[s] /\ pc'[s] = pc[s]
    BY <1>1 DEF Answer, TypeOK, RequestsTypeOK
  <2>3. CASE c = sequence + 1
    <3>1. (\A s \in Requests : on[s] # c) /\ landed[c] = 0 /\ ~CutOff(c)
      BY <1>3, <2>1, <2>3, FreshIsUntouched
    <3>2. Outstanding(c)' = {}
      BY <2>1, <2>2, <3>1, IdsType, NobodyOnNext
    <3>3. QED
      BY <1>1, <1>3, <1>4, <2>3, <3>1, <3>2 DEF OneAtATime, CutOff
  <2>4. CASE c # sequence + 1
    BY <1>3, <1>4, <2>1, <2>2, <2>4, IdsType, SameOneAtATime DEF CutOff
  <2>5. QED
    BY <2>3, <2>4
<1>10. QED
  BY <1>5, <1>6, <1>7, <1>8, <1>9 DEF Bookkeeping

\* The stock of the shop is no part of Bookkeeping.
LEMMA MoveKeeps ==
  ASSUME TypeOK, Bookkeeping, NEW r \in Requests, pc[r] \in {"rebase", "writing"},
         pc' = [pc EXCEPT ![r] = "writing"],
         UNCHANGED <<ledgerVars, on, held, landed, late, excused>>
  PROVE  Bookkeeping'
<1>1. disk' = disk /\ up' = up /\ landed' = landed /\ late' = late
  BY DEF ledgerVars
<1>2. DownIsIdle' /\ MemoryIsDisk' /\ IdsInOrder' /\ AppliedHasLanded'
  BY <1>1, UpWhileBusy, LedgerKept, AppliedKept DEF Bookkeeping, DownIsIdle
<1>3. \A s \in Requests : /\ pc'[s] = "written" <=> pc[s] = "written"
                          /\ pc'[s] = "preview" <=> pc[s] = "preview"
  BY DEF TypeOK, RequestsTypeOK
<1>4. RequestsCarry'
  BY <1>1, <1>3 DEF Bookkeeping, RequestsCarry, HandedOut
<1>5. \A c \in Ids \ excused : OneAtATime(c)'
  BY <1>1, <1>3, SameOneAtATime DEF Bookkeeping, CutOff
<1>6. QED
  BY <1>2, <1>4, <1>5 DEF Bookkeeping

LEMMA WriteLandsKeeps ==
  ASSUME TypeOK, Bookkeeping, NEW r \in Requests, WriteLands(r)
  PROVE  Bookkeeping'
<1>1. pc[r] = "writing" /\ on[r] \in Ids
  BY DEF WriteLands, TypeOK, RequestsTypeOK
<1>2. /\ UNCHANGED ledgerVars /\ disk' = disk /\ up' = up
      /\ on' = on /\ held' = held /\ late' = late /\ excused' = excused
      /\ pc' = [pc EXCEPT ![r] = "written"]
  BY DEF WriteLands, ledgerVars
<1>3. /\ landed'[on[r]] = landed[on[r]] + 1
      /\ \A c \in Ids : c # on[r] => landed'[c] = landed[c]
      /\ landed \in [Ids -> Nat]
  BY <1>1 DEF WriteLands, Land, TypeOK, ShopTypeOK
<1>4. DownIsIdle' /\ MemoryIsDisk' /\ IdsInOrder'
  BY <1>1, <1>2, UpWhileBusy, LedgerKept DEF Bookkeeping, DownIsIdle
<1>5. AppliedHasLanded'
  BY <1>1, <1>2, <1>3 DEF Bookkeeping, AppliedHasLanded
<1>6. \A s \in Requests : s # r => pc'[s] = pc[s]
  BY <1>2 DEF TypeOK, RequestsTypeOK
<1>7. pc'[r] = "written"
  BY <1>2 DEF TypeOK, RequestsTypeOK
<1>8. RequestsCarry'
  <2>1. SUFFICES ASSUME NEW s \in Requests
                 PROVE  /\ pc'[s] = "preview" => held[s].status = "staged"
                        /\ on[s] \in Ids => disk[on[s]].status # "none" /\ disk[on[s]].plan
                        /\ pc'[s] = "written" => landed'[on[s]] >= 1
    BY <1>2 DEF RequestsCarry, HandedOut
  <2>2. CASE s = r
    BY <1>1, <1>3, <1>7, <2>2 DEF Bookkeeping, RequestsCarry, HandedOut
  <2>3. CASE s # r
    <3>1. pc'[s] = "written" => on[s] \in Ids /\ landed[on[s]] >= 1
      BY <1>6, <2>3 DEF Bookkeeping, RequestsCarry, TypeOK, RequestsTypeOK
    <3>2. pc'[s] = "written" => landed'[on[s]] >= 1
      BY <1>1, <1>3, <3>1
    <3>3. QED
      BY <1>6, <2>3, <3>2 DEF Bookkeeping, RequestsCarry, HandedOut
  <2>4. QED
    BY <2>2, <2>3
<1>9. ASSUME NEW c \in Ids \ excused PROVE OneAtATime(c)'
  <2>1. OneAtATime(c)
    BY DEF Bookkeeping
  <2>2. CASE on[r] = c
    <3>1. Outstanding(c) = {r}
      BY <2>1, <2>2 DEF OneAtATime, Outstanding
    <3>2. disk[c].status = "staged" /\ landed[c] = 0
      BY <1>1, <2>1, <3>1 DEF OneAtATime
    <3>3. Outstanding(c)' = {r}
      BY <1>2, <3>1 DEF Outstanding
    <3>4. QED
      BY <1>2, <1>3, <1>7, <2>1, <2>2, <3>2, <3>3 DEF OneAtATime, CutOff
  <2>3. CASE on[r] # c
    BY <1>2, <1>3, <1>6, <2>1, <2>3, SameOneAtATime DEF CutOff
  <2>4. QED
    BY <2>2, <2>3
<1>10. QED
  BY <1>2, <1>4, <1>5, <1>8, <1>9 DEF Bookkeeping

\* Giving a write up excuses its change; nothing else moves.
LEMMA RepostKeeps ==
  ASSUME TypeOK, Bookkeeping, NEW r \in Requests, Repost(r)
  PROVE  Bookkeeping'
<1>1. pc[r] \in {"writing", "written"}
  BY DEF Repost
<1>2. /\ UNCHANGED ledgerVars /\ disk' = disk /\ up' = up
      /\ on' = on /\ held' = held /\ landed' = landed
      /\ late' = late \cup Abandoned(r)
      /\ excused' = excused \cup {on[r]}
      /\ pc' = [pc EXCEPT ![r] = "writing"]
  BY DEF Repost, ledgerVars
<1>3. DownIsIdle' /\ MemoryIsDisk' /\ IdsInOrder' /\ AppliedHasLanded'
  BY <1>1, <1>2, UpWhileBusy, LedgerKept, AppliedKept DEF Bookkeeping, DownIsIdle
<1>4. \A s \in Requests : (s # r => pc'[s] = pc[s]) /\ (s = r => pc'[s] = "writing")
  BY <1>2 DEF TypeOK, RequestsTypeOK
<1>5. RequestsCarry'
  BY <1>2, <1>4 DEF Bookkeeping, RequestsCarry, HandedOut
<1>6. ASSUME NEW c \in Ids \ excused' PROVE OneAtATime(c)'
  <2>1. OneAtATime(c) /\ on[r] # c
    BY <1>2, <1>6 DEF Bookkeeping
  <2>2. CutOff(c)' => CutOff(c)
    BY <1>2, <2>1 DEF CutOff, Abandoned
  <2>3. QED
    BY <1>2, <1>4, <2>1, <2>2, SameOneAtATime
<1>7. QED
  BY <1>3, <1>5, <1>6 DEF Bookkeeping

LEMMA AnswerLostKeeps ==
  ASSUME TypeOK, Bookkeeping, NEW r \in Requests, AnswerLost(r)
  PROVE  Bookkeeping'
<1>1. pc[r] \in {"writing", "written"} /\ Answer(r)
  BY DEF AnswerLost
<1>2. /\ UNCHANGED ledgerVars /\ disk' = disk /\ up' = up /\ landed' = landed
      /\ late' = late \cup Abandoned(r)
      /\ excused' = excused \cup {on[r]}
  BY DEF AnswerLost, ledgerVars
<1>3. DownIsIdle' /\ MemoryIsDisk' /\ IdsInOrder' /\ AppliedHasLanded'
  BY <1>1, <1>2, UpWhileBusy, LedgerKept, AppliedKept DEF Bookkeeping, DownIsIdle
<1>4. RequestsCarry'
  BY <1>1, <1>2, AnsweredCarry DEF Bookkeeping
<1>5. ASSUME NEW c \in Ids \ excused' PROVE OneAtATime(c)'
  <2>1. OneAtATime(c) /\ on[r] # c
    BY <1>2, <1>5 DEF Bookkeeping
  <2>2. CutOff(c)' => CutOff(c)
    BY <1>2, <2>1 DEF CutOff, Abandoned
  <2>3. \A s \in Requests : /\ on'[s] = c <=> on[s] = c
                            /\ on[s] = c => pc'[s] = pc[s]
    BY <1>1, <2>1, IdsType DEF Answer, TypeOK, RequestsTypeOK
  <2>4. QED
    BY <1>2, <2>1, <2>2, <2>3, SameOneAtATime
<1>6. QED
  BY <1>3, <1>4, <1>5 DEF Bookkeeping

LEMMA ApplyCommittedKeeps ==
  ASSUME TypeOK, Bookkeeping, NEW r \in Requests, ApplyCommitted(r)
  PROVE  Bookkeeping'
<1> DEFINE d == on[r]
<1>1. pc[r] = "written" /\ d \in Ids /\ Answer(r) /\ landed[d] >= 1
  BY DEF ApplyCommitted, Bookkeeping, RequestsCarry, TypeOK, RequestsTypeOK
<1>2. up /\ ledger = disk /\ disk[d].status = "staged" /\ disk[d].plan
  <2>1. up /\ ledger = disk
    BY <1>1, UpWhileBusy
  <2>2. QED
    BY <1>1, <2>1 DEF ApplyCommitted, Bookkeeping, RequestsCarry
<1>3. /\ up' = up /\ sequence' = sequence /\ bad' = bad /\ given' = given
      /\ landed' = landed /\ late' = late /\ excused' = excused
  BY DEF ApplyCommitted, shopVars
<1>4. /\ ledger' = [disk EXCEPT ![d].status = "applied"]
      /\ disk' = [disk EXCEPT ![d].status = "applied", ![d].plan = disk[d].plan]
  BY <1>2 DEF ApplyCommitted
<1>5. /\ disk'[d] = [disk[d] EXCEPT !.status = "applied"]
      /\ disk'[d].status = "applied" /\ disk'[d].plan = disk[d].plan
      /\ \A c \in Ids : c # d => disk'[c] = disk[c]
  BY <1>1, <1>4 DEF TypeOK, LedgerTypeOK, Row
<1>6. ledger' = disk'
  <2>1. ledger'[d] = disk'[d] /\ \A c \in Ids : c # d => ledger'[c] = disk'[c]
    BY <1>1, <1>4, <1>5 DEF TypeOK, LedgerTypeOK
  <2>2. ledger' \in [Ids -> Row] /\ disk' \in [Ids -> Row]
    BY <1>1, <1>4 DEF TypeOK, LedgerTypeOK, Row, Status
  <2>3. QED
    BY <2>1, <2>2
<1>7. DownIsIdle' /\ MemoryIsDisk'
  BY <1>2, <1>3, <1>5, <1>6 DEF Bookkeeping, DownIsIdle, MemoryIsDisk, HandedOut
<1>8. \A c \in Ids : HandedOut(c)' <=> HandedOut(c)
  BY <1>2, <1>5 DEF HandedOut
<1>9. IdsInOrder'
  BY <1>3, <1>8 DEF Bookkeeping, IdsInOrder
<1>10. RequestsCarry'
  <2>1. \A c \in Ids : disk[c].status # "none" /\ disk[c].plan
                       => disk'[c].status # "none" /\ disk'[c].plan
    BY <1>2, <1>5
  <2>2. QED
    BY <1>1, <1>3, <2>1, AnsweredCarry DEF Bookkeeping
<1>11. AppliedHasLanded'
  BY <1>1, <1>2, <1>3, <1>5 DEF Bookkeeping, AppliedHasLanded
<1>12. ASSUME NEW c \in Ids \ excused PROVE OneAtATime(c)'
  <2>1. OneAtATime(c)
    BY DEF Bookkeeping
  <2>2. \A s \in Requests : on'[s] = c <=> s # r /\ on[s] = c
    BY <1>1, IdsType DEF Answer, TypeOK, RequestsTypeOK
  <2>3. CASE c = d
    <3>1. \A s \in Requests : on[s] = c => s = r
      BY <2>1, <2>3 DEF OneAtATime, Outstanding
    <3>2. Outstanding(c)' = {}
      BY <2>2, <3>1, NobodyOnNext
    <3>3. landed[c] = 1
      BY <1>1, <2>1, <2>3 DEF OneAtATime, Outstanding
    <3>4. QED
      BY <1>3, <1>5, <2>1, <2>3, <3>2, <3>3 DEF OneAtATime, CutOff
  <2>4. CASE c # d
    <3>1. \A s \in Requests : /\ on'[s] = c <=> on[s] = c
                              /\ on[s] = c => pc'[s] = pc[s]
      BY <1>1, <2>2, <2>4 DEF Answer, TypeOK, RequestsTypeOK
    <3>2. QED
      BY <1>3, <1>5, <2>1, <2>4, <3>1, SameOneAtATime DEF CutOff
  <2>5. QED
    BY <2>3, <2>4
<1>13. QED
  BY <1>3, <1>7, <1>9, <1>10, <1>11, <1>12 DEF Bookkeeping

\* A change whose abandoned write lands late was excused when it was abandoned.
LEMMA LateLandsKeeps ==
  ASSUME TypeOK, Bookkeeping, LateLands
  PROVE  Bookkeeping'
<1>1. PICK w \in late : /\ late' = late \ {w}
                        /\ Land(w.change, w.row, w.base)
                        /\ UNCHANGED <<ledgerVars, requestVars, excused, applies>>
  BY DEF LateLands
<1>2. w.change \in Ids
  BY DEF TypeOK, ShopTypeOK, Late
<1>3. /\ disk' = disk /\ up' = up /\ pc' = pc /\ on' = on /\ held' = held
      /\ excused' = excused
  BY <1>1 DEF ledgerVars, requestVars
<1>4. /\ \A c \in Ids : landed'[c] >= landed[c] /\ (c # w.change => landed'[c] = landed[c])
      /\ landed \in [Ids -> Nat] /\ landed' \in [Ids -> Nat]
  BY <1>1, <1>2 DEF Land, TypeOK, ShopTypeOK
<1>5. DownIsIdle' /\ MemoryIsDisk' /\ IdsInOrder'
  BY <1>1, <1>3, LedgerKept DEF Bookkeeping, DownIsIdle
<1>6. RequestsCarry'
  <2>1. \A r \in Requests : pc[r] = "written" => landed'[on[r]] >= 1
    <3>1. ASSUME NEW r \in Requests, pc[r] = "written" PROVE landed'[on[r]] >= 1
      <4>1. on[r] \in Ids /\ landed[on[r]] >= 1
        BY <3>1 DEF Bookkeeping, RequestsCarry, TypeOK, RequestsTypeOK
      <4>2. QED
        BY <1>4, <4>1
    <3>2. QED
      BY <3>1
  <2>2. QED
    BY <1>3, <2>1 DEF Bookkeeping, RequestsCarry, HandedOut
<1>7. AppliedHasLanded'
  BY <1>3, <1>4 DEF Bookkeeping, AppliedHasLanded
<1>8. ASSUME NEW c \in Ids \ excused PROVE OneAtATime(c)'
  <2>1. OneAtATime(c) /\ ~CutOff(c)
    BY DEF Bookkeeping, OneAtATime
  <2>2. c # w.change
    BY <2>1 DEF CutOff
  <2>3. CutOff(c)' => CutOff(c)
    BY <1>1 DEF CutOff
  <2>4. QED
    BY <1>3, <1>4, <2>1, <2>2, <2>3, SameOneAtATime
<1>9. QED
  BY <1>3, <1>5, <1>6, <1>7, <1>8 DEF Bookkeeping

\* Steps that leave the ledger, the requests and the landed writes alone.
LEMMA ShopKeeps ==
  ASSUME Bookkeeping, UNCHANGED <<ledgerVars, requestVars, landed, excused>>,
         late' \subseteq late
  PROVE  Bookkeeping'
<1>1. disk' = disk /\ up' = up /\ pc' = pc /\ on' = on /\ held' = held /\ landed' = landed
  BY DEF ledgerVars, requestVars
<1>2. DownIsIdle' /\ MemoryIsDisk' /\ IdsInOrder' /\ AppliedHasLanded'
  BY <1>1, LedgerKept, AppliedKept DEF Bookkeeping, DownIsIdle
<1>3. RequestsCarry'
  BY <1>1 DEF Bookkeeping, RequestsCarry, HandedOut
<1>4. \A c \in Ids \ excused : OneAtATime(c)'
  BY <1>1, SameOneAtATime DEF Bookkeeping, CutOff
<1>5. QED
  BY <1>2, <1>3, <1>4 DEF Bookkeeping

\* A request lost in a crash either had not written, and its change is as it was found,
\* or its change is excused.
LEMMA DownOneAtATime ==
  ASSUME TypeOK, Bookkeeping, Down, NEW c \in Ids \ excused', disk'[c] = disk[c]
  PROVE  OneAtATime(c)'
<1>1. c \notin excused /\ OneAtATime(c) /\ landed' = landed
  BY DEF Down, Bookkeeping
<1>2. \A r \in Requests : on[r] = c => pc[r] = "rebase"
  BY DEF Down, TypeOK, RequestsTypeOK
<1>3. ~CutOff(c)'
  <2>1. \A w \in late' : w \in late \/ \E r \in Requests : w \in Abandoned(r)
    BY DEF Down
  <2>2. \A r \in Requests : \A w \in Abandoned(r) : w.change # c
    BY <1>2 DEF Abandoned
  <2>3. QED
    BY <1>1, <2>1, <2>2 DEF OneAtATime, CutOff
<1>4. Outstanding(c)' = {}
  BY IdsType, NobodyOnNext DEF Down
<1>5. landed[c] = IF disk[c].status = "applied" THEN 1 ELSE 0
  <2>1. CASE Outstanding(c) = {}
    BY <1>1, <2>1 DEF OneAtATime
  <2>2. CASE Outstanding(c) # {}
    <3>1. PICK r \in Outstanding(c) : TRUE
      BY <2>2
    <3>2. disk[c].status = "staged" /\ landed[c] = 0
      BY <1>1, <1>2, <3>1 DEF OneAtATime, Outstanding
    <3>3. QED
      BY <3>2
  <2>3. QED
    BY <2>1, <2>2
<1>6. QED
  BY <1>1, <1>3, <1>4, <1>5 DEF OneAtATime

LEMMA CrashKeeps ==
  ASSUME TypeOK, Bookkeeping, Crash
  PROVE  Bookkeeping'
<1>1. /\ Down /\ disk' = disk /\ bad' = bad /\ given' = given /\ up' = FALSE
      /\ landed' = landed
      /\ \A r \in Requests : pc'[r] = "idle" /\ on'[r] \notin Ids
  BY IdsType DEF Crash, Down
<1>2. DownIsIdle' /\ MemoryIsDisk'
  BY <1>1 DEF Bookkeeping, DownIsIdle, MemoryIsDisk, HandedOut
<1>3. IdsInOrder'
  BY <1>1 DEF Bookkeeping, IdsInOrder, HandedOut
<1>4. RequestsCarry'
  BY <1>1 DEF RequestsCarry
<1>5. AppliedHasLanded'
  BY <1>1, AppliedKept DEF Bookkeeping
<1>6. \A c \in Ids \ excused' : OneAtATime(c)'
  BY <1>1, DownOneAtATime
<1>7. QED
  BY <1>2, <1>3, <1>4, <1>5, <1>6 DEF Bookkeeping

LEMMA CrashInStageKeeps ==
  ASSUME TypeOK, Bookkeeping, NEW r \in Requests, CrashInStage(r)
  PROVE  Bookkeeping'
<1> DEFINE n == sequence + 1
<1>1. /\ HandOut(r, held[r]) /\ Down /\ up
      /\ held[r] \in Row /\ held[r].status = "staged"
  BY DEF CrashInStage, Down, Bookkeeping, RequestsCarry, TypeOK, RequestsTypeOK
<1>2. /\ n \in Ids /\ disk[n].status = "none" /\ disk'[n] = held[r]
      /\ \A d \in Ids : d # n => disk'[d] = disk[d]
      /\ bad' = {}
      /\ \A d \in Ids : given'[d] = IF HandedOut(d)' THEN 1 ELSE 0
      /\ \A d \in Ids : HandedOut(d)' <=> d <= n
  BY <1>1, NextIdIsFresh
<1>3. /\ up' = FALSE /\ landed' = landed
      /\ \A s \in Requests : pc'[s] = "idle" /\ on'[s] \notin Ids
  BY <1>1, IdsType DEF Down
<1>4. DownIsIdle' /\ MemoryIsDisk'
  <2>1. \A c \in Ids : disk'[c].status # "none" \/ disk'[c] = NoRow
    BY <1>1, <1>2 DEF Bookkeeping, MemoryIsDisk, HandedOut
  <2>2. QED
    BY <1>2, <1>3, <2>1 DEF DownIsIdle, MemoryIsDisk, HandedOut
<1>5. IdsInOrder'
  BY <1>2, <1>3 DEF IdsInOrder, TypeOK, LedgerTypeOK, Ids
<1>6. RequestsCarry'
  BY <1>3 DEF RequestsCarry
<1>7. AppliedHasLanded'
  <2>1. \A c \in Ids : disk'[c].status = "applied" => disk'[c] = disk[c]
    BY <1>1, <1>2
  <2>2. QED
    BY <1>3, <2>1 DEF Bookkeeping, AppliedHasLanded
<1>8. ASSUME NEW c \in Ids \ excused' PROVE OneAtATime(c)'
  <2>1. CASE c = n
    <3>1. c \notin excused
      BY <1>1 DEF Down
    <3>2. (\A s \in Requests : on[s] # c) /\ landed[c] = 0 /\ ~CutOff(c)
      BY <1>2, <2>1, <3>1, FreshIsUntouched
    <3>3. Outstanding(c)' = {}
      BY <1>3, NobodyOnNext
    <3>4. ~CutOff(c)'
      BY <1>1, <3>2 DEF Down, CutOff, Abandoned
    <3>5. QED
      BY <1>1, <1>2, <1>3, <2>1, <3>2, <3>3, <3>4 DEF OneAtATime
  <2>2. CASE c # n
    BY <1>1, <1>2, <2>2, DownOneAtATime
  <2>3. QED
    BY <2>1, <2>2
<1>9. QED
  BY <1>4, <1>5, <1>6, <1>7, <1>8 DEF Bookkeeping

LEMMA RestartKeeps ==
  ASSUME TypeOK, Bookkeeping, Restart
  PROVE  Bookkeeping'
<1>1. /\ ~up /\ up' /\ disk' = disk /\ bad' = bad /\ bad = {} /\ given' = given
      /\ pc' = pc /\ on' = on /\ held' = held /\ landed' = landed /\ late' = late
      /\ excused' = excused
  BY DEF Restart, requestVars, shopVars, Bookkeeping, MemoryIsDisk
<1>2. \A c \in Ids : c \in Readable <=> HandedOut(c)
  BY <1>1 DEF Readable, HandedOut
<1>3. ledger' = disk
  BY <1>2 DEF Restart, TypeOK, LedgerTypeOK, Bookkeeping, MemoryIsDisk
<1>4. DownIsIdle' /\ MemoryIsDisk'
  BY <1>1, <1>3 DEF Bookkeeping, DownIsIdle, MemoryIsDisk, HandedOut
<1>5. \A c \in Ids : HandedOut(c) <=> c <= sequence'
  <2>1. ASSUME NEW c \in Ids PROVE HandedOut(c) <=> c <= sequence'
    <3>1. HandedOut(c) => c <= sequence'
      BY <1>2, <2>1 DEF Restart
    <3>2. ASSUME c <= sequence' PROVE HandedOut(c)
      <4>1. sequence' \in Ids /\ HandedOut(sequence')
        BY <1>2, <3>2 DEF Restart, Readable, Ids
      <4>2. c = sequence' \/ c < sequence'
        BY <3>2, <4>1 DEF Ids
      <4>3. QED
        BY <4>1, <4>2 DEF Bookkeeping, IdsInOrder
    <3>3. QED
      BY <3>1, <3>2
  <2>2. QED
    BY <2>1
<1>6. IdsInOrder'
  BY <1>1, <1>5 DEF Bookkeeping, IdsInOrder, HandedOut
<1>7. RequestsCarry' /\ AppliedHasLanded'
  BY <1>1 DEF Bookkeeping, RequestsCarry, HandedOut, AppliedHasLanded
<1>8. \A c \in Ids \ excused : OneAtATime(c)'
  BY <1>1, SameOneAtATime DEF Bookkeeping, CutOff
<1>9. QED
  BY <1>1, <1>4, <1>6, <1>7, <1>8 DEF Bookkeeping

LEMMA ApplyingKeeps ==
  ASSUME TypeOK, Bookkeeping, NEW r \in Requests, Applying(r)
  PROVE  Bookkeeping'
<1>1. CASE Rebase(r)
  BY <1>1, MoveKeeps DEF Rebase, shopVars
<1>2. CASE RebaseFails(r)
  BY <1>2, AnswerKeeps DEF RebaseFails, shopVars
<1>3. CASE WriteRejected(r)
  BY <1>3, AnswerKeeps DEF WriteRejected, shopVars
<1>4. CASE ApplyTooLate(r)
  <2>1. up /\ ledger = disk
    BY <1>4, UpWhileBusy DEF ApplyTooLate
  <2>2. on[r] \in Ids => on[r] \in excused
    BY <1>4, <2>1 DEF ApplyTooLate, Bookkeeping, OneAtATime, Outstanding
  <2>3. QED
    BY <1>4, <2>2, AnswerKeeps DEF ApplyTooLate, shopVars
<1>5. QED
  BY <1>1, <1>2, <1>3, <1>4, WriteLandsKeeps, RepostKeeps, AnswerLostKeeps,
     ApplyCommittedKeeps DEF Applying, Writing

LEMMA RequestKeeps ==
  ASSUME TypeOK, Bookkeeping, NEW r \in Requests, NewRequest(r) \/ Staging(r)
  PROVE  Bookkeeping'
<1>1. CASE NewRequest(r)
  BY <1>1, DraftKeeps, ApplyBeginKeeps, DiscardKeeps DEF NewRequest, StageReplay, StageRestock
<1>2. CASE StageRefused(r)
  BY <1>2, AnswerKeeps DEF StageRefused, shopVars
<1>3. QED
  BY <1>1, <1>2, StageAcceptedKeeps DEF Staging

LEMMA EnvironmentKeeps ==
  ASSUME ~RowsMayGoBad, TypeOK, Bookkeeping, Environment
  PROVE  Bookkeeping'
<1>1. CASE LateDropped
  BY <1>1, ShopKeeps DEF LateDropped
<1>2. ASSUME NEW p \in Products, Sale(p) PROVE Bookkeeping'
  BY <1>2, ShopKeeps DEF Sale
<1>3. QED
  BY <1>1, <1>2, LateLandsKeeps, CrashKeeps, CrashInStageKeeps, RestartKeeps
     DEF Environment, RowGoesBad

LEMMA NextKeeps ==
  ASSUME ~RowsMayGoBad, TypeOK, Bookkeeping, [Next]_vars
  PROVE  Bookkeeping'
<1>1. CASE UNCHANGED vars
  BY <1>1, ShopKeeps DEF vars, shopVars
<1>2. QED
  BY <1>1, RequestKeeps, ApplyingKeeps, EnvironmentKeeps DEF Next

-----------------------------------------------------------------------------
(***************************************************************************)
(* The safety properties.                                                  *)
(***************************************************************************)
\* The inductive invariant: the running host agrees with SQLite, ids are 1 .. n, and a
\* change nobody disturbed has landed exactly as often as its state says.
THEOREM BookkeepingAlways == ASSUME ~RowsMayGoBad PROVE Spec => []Bookkeeping
<1>1. TypeOK /\ Bookkeeping /\ [Next]_vars => Bookkeeping'
  BY NextKeeps
<1>2. QED
  BY InitBookkeeping, <1>1, TypeCorrect, PTL DEF Spec

\* What the running host believes of a change is what a restart would read.
THEOREM LedgerMatchesDiskAlways == ASSUME ~RowsMayGoBad PROVE Spec => []LedgerMatchesDisk
<1>1. Bookkeeping => LedgerMatchesDisk
  BY DEF Bookkeeping, MemoryIsDisk, LedgerMatchesDisk
<1>2. QED
  BY <1>1, BookkeepingAlways, PTL

\* No change id is handed out twice, restarts and crashes included.
THEOREM IdsOnceAlways == ASSUME ~RowsMayGoBad PROVE Spec => []IdsOnce
<1>1. Bookkeeping => IdsOnce
  BY DEF Bookkeeping, IdsInOrder, IdsOnce
<1>2. QED
  BY <1>1, BookkeepingAlways, PTL

\* A change the ledger calls applied was written to the shop, from a stored plan.
THEOREM AppliedHasLandedAlways == ASSUME ~RowsMayGoBad PROVE Spec => []AppliedHasLanded
<1>1. Bookkeeping => AppliedHasLanded
  BY DEF Bookkeeping
<1>2. QED
  BY <1>1, BookkeepingAlways, PTL

\* A change handled by one request at a time, its write never cut off, lands at most once,
\* and exactly when the ledger says applied.
THEOREM ExactlyOnceAlways == ASSUME ~RowsMayGoBad PROVE Spec => []ExactlyOnce
<1>1. ASSUME Bookkeeping, NEW c \in Ids \ excused
      PROVE  /\ landed[c] <= 1
             /\ Outstanding(c) = {} => (landed[c] = 1 <=> disk[c].status = "applied")
  BY <1>1 DEF Bookkeeping, OneAtATime
<1>2. Bookkeeping => ExactlyOnce
  BY <1>1 DEF ExactlyOnce
<1>3. QED
  BY <1>2, BookkeepingAlways, PTL

-----------------------------------------------------------------------------
(***************************************************************************)
(* ChangeWorkflow implements ChangeLifecycle, and a settled change is      *)
(* final.                                                                  *)
(***************************************************************************)
\* The statuses ChangeLifecycle sees.
statuses == [c \in Ids |-> disk[c].status]

-----------------------------------------------------------------------------
(***************************************************************************)
(* What a step may do to the durable rows.                                 *)
(***************************************************************************)
\* The next id gets its row.
Hands == \E c \in Ids :
  /\ disk[c].status = "none"
  /\ \A d \in Ids : d < c => disk[d].status # "none"
  /\ disk'[c].status = "staged"
  /\ \A d \in Ids : d # c => disk'[d] = disk[d]

\* A staged change is decided by an answered request or discarded.
Decides == \E c \in Ids, decision \in {"applied", "discarded"} :
  /\ disk[c].status = "staged"
  /\ disk'[c].status = decision
  /\ \A d \in Ids : d # c => disk'[d] = disk[d]

\* Handing out an id is the only way a row appears.
LEMMA HandOutHands ==
  ASSUME TypeOK, Bookkeeping, up, NEW r \in Requests, NEW stored \in Row,
         stored.status = "staged", HandOut(r, stored)
  PROVE  Hands
<1>1. /\ sequence + 1 \in Ids
      /\ disk[sequence + 1].status = "none"
      /\ disk'[sequence + 1] = stored
      /\ \A d \in Ids : d # sequence + 1 => disk'[d] = disk[d]
  BY NextIdIsFresh
<1>2. \A d \in Ids : d < sequence + 1 => disk[d].status # "none"
  BY DEF Bookkeeping, IdsInOrder, HandedOut, TypeOK, LedgerTypeOK, Ids
<1>3. QED
  BY <1>1, <1>2 DEF Hands

LEMMA DiskSteps ==
  ASSUME ~RowsMayGoBad, TypeOK, Bookkeeping, [Next]_vars
  PROVE  Hands \/ Decides \/ UNCHANGED disk
<1>1. ASSUME NEW r \in Requests, StageAccepted(r) PROVE Hands
  <2>1. pc[r] = "preview" /\ HandOut(r, [held[r] EXCEPT !.plan = TRUE])
    BY <1>1 DEF StageAccepted
  <2>2. up /\ held[r] \in Row /\ held[r].status = "staged"
    BY <2>1, UpWhileBusy DEF Bookkeeping, RequestsCarry, TypeOK, RequestsTypeOK
  <2>3. [held[r] EXCEPT !.plan = TRUE] \in Row /\ [held[r] EXCEPT !.plan = TRUE].status = "staged"
    BY <2>2 DEF Row
  <2>4. QED
    BY <2>1, <2>2, <2>3, HandOutHands
<1>2. ASSUME NEW r \in Requests, CrashInStage(r) PROVE Hands
  <2>1. HandOut(r, held[r]) /\ up /\ held[r] \in Row /\ held[r].status = "staged"
    BY <1>2 DEF CrashInStage, Down, Bookkeeping, RequestsCarry, TypeOK, RequestsTypeOK
  <2>2. QED
    BY <2>1, HandOutHands
<1>3. ASSUME NEW r \in Requests, ApplyCommitted(r) PROVE Decides
  <2>1. on[r] \in Ids /\ ledger = disk
    BY <1>3, UpWhileBusy DEF ApplyCommitted, TypeOK, RequestsTypeOK
  <2>2. /\ disk[on[r]].status = "staged"
        /\ disk'[on[r]].status = "applied"
        /\ \A d \in Ids : d # on[r] => disk'[d] = disk[d]
    BY <1>3, <2>1 DEF ApplyCommitted, TypeOK, LedgerTypeOK, Row
  <2>3. QED
    BY <2>1, <2>2 DEF Decides
<1>4. ASSUME NEW r \in Requests, NEW c \in Ids, Discard(r, c) PROVE Decides
  <2>1. ledger = disk
    BY <1>4 DEF Discard, Bookkeeping, MemoryIsDisk
  <2>2. /\ disk[c].status = "staged"
        /\ disk'[c].status = "discarded"
        /\ \A d \in Ids : d # c => disk'[d] = disk[d]
    BY <1>4, <2>1 DEF Discard, TypeOK, LedgerTypeOK, Row
  <2>3. QED
    BY <2>2 DEF Decides
<1>5. ASSUME NEW r \in Requests, NewRequest(r) \/ Staging(r) \/ Applying(r),
             ~StageAccepted(r), ~ApplyCommitted(r), \A c \in Ids : ~Discard(r, c)
      PROVE  UNCHANGED disk
  BY <1>5 DEF NewRequest, StageReplay, StageRestock, Draft, ApplyBegin, Staging,
     StageRefused, Applying, Rebase, RebaseFails, Writing, WriteLands, WriteRejected,
     Repost, AnswerLost, ApplyTooLate, ledgerVars
<1>6. ASSUME Environment, \A r \in Requests : ~CrashInStage(r)
      PROVE  UNCHANGED disk
  BY <1>6 DEF Environment, LateLands, LateDropped, Sale, Crash, RowGoesBad, Restart, ledgerVars
<1>7. CASE UNCHANGED vars
  BY <1>7 DEF vars, ledgerVars
<1>8. QED
  BY <1>1, <1>2, <1>3, <1>4, <1>5, <1>6, <1>7 DEF Next

-----------------------------------------------------------------------------
LEMMA StepsRefine ==
  ASSUME ~RowsMayGoBad, TypeOK, Bookkeeping, [Next]_vars
  PROVE  [Lifecycle!Next]_statuses
<1>1. CASE Hands
  <2>1. PICK c \in Ids : /\ disk[c].status = "none"
                         /\ \A d \in Ids : d < c => disk[d].status # "none"
                         /\ disk'[c].status = "staged"
                         /\ \A d \in Ids : d # c => disk'[d] = disk[d]
    BY <1>1 DEF Hands
  <2>2. statuses' = [statuses EXCEPT ![c] = "staged"]
    BY <2>1 DEF statuses
  <2>3. Lifecycle!Stage(c)
    BY <2>1, <2>2 DEF Lifecycle!Stage, Lifecycle!Ids, Ids, statuses
  <2>4. QED
    BY <2>1, <2>3 DEF Lifecycle!Next, Lifecycle!Ids, Ids
<1>2. CASE Decides
  <2>1. PICK c \in Ids, decision \in {"applied", "discarded"} :
          /\ disk[c].status = "staged"
          /\ disk'[c].status = decision
          /\ \A d \in Ids : d # c => disk'[d] = disk[d]
    BY <1>2 DEF Decides
  <2>2. statuses' = [statuses EXCEPT ![c] = decision]
    BY <2>1 DEF statuses
  <2>3. Lifecycle!Decide(c, decision)
    BY <2>1, <2>2 DEF Lifecycle!Decide, statuses
  <2>4. QED
    BY <2>1, <2>3 DEF Lifecycle!Next, Lifecycle!Ids, Ids, Lifecycle!Decisions
<1>3. CASE UNCHANGED disk
  BY <1>3 DEF statuses
<1>4. QED
  BY <1>1, <1>2, <1>3, DiskSteps

\* The host implements the promised life cycle: ids in order, one decision, final.
THEOREM Refinement == ASSUME ~RowsMayGoBad PROVE Spec => LifecycleSpec
<1>1. Init => Lifecycle!Init
  BY DEF Init, NoRow, Lifecycle!Init, Lifecycle!Ids, Ids
<1>2. TypeOK /\ Bookkeeping /\ [Next]_vars => [Lifecycle!Next]_statuses
  BY StepsRefine
<1>3. QED
  BY <1>1, <1>2, TypeCorrect, BookkeepingAlways, PTL
     DEF Spec, LifecycleSpec, Lifecycle!Spec, statuses

-----------------------------------------------------------------------------
\* A request or a write comes to concern a change only while the change is staged.
LEMMA StaysQuiet ==
  ASSUME ~RowsMayGoBad, TypeOK, Bookkeeping, [Next]_vars, NEW c \in Ids, Settled(c)
  PROVE  Quiet(c)' /\ landed'[c] = landed[c]
<1>1. /\ disk[c].status # "staged"
      /\ \A r \in Requests : on[r] # c
      /\ \A w \in late : w.change # c
  BY NobodyOn DEF Settled, Quiet, CutOff
<1> DEFINE Still == /\ \A r \in Requests : on'[r] # c
                    /\ \A w \in late' : w.change # c
                    /\ landed'[c] = landed[c]
<1>2. SUFFICES Still
  BY NobodyOnNext DEF Quiet, CutOff
<1>3. ASSUME UNCHANGED <<on, late, landed>> PROVE Still
  BY <1>1, <1>3
<1>4. ASSUME NEW r \in Requests, Answer(r), landed' = landed, late' \subseteq late \cup Abandoned(r)
      PROVE  Still
  <2>1. \A s \in Requests : on'[s] # c
    BY <1>1, <1>4, IdsType DEF Answer, TypeOK, RequestsTypeOK
  <2>2. \A w \in Abandoned(r) : w.change # c
    BY <1>1 DEF Abandoned
  <2>3. QED
    BY <1>1, <1>4, <2>1, <2>2
<1>5. ASSUME NEW r \in Requests, NEW d \in Ids, ApplyBegin(r, d) PROVE Still
  <2>1. d # c
    BY <1>1, <1>5 DEF ApplyBegin, Bookkeeping, MemoryIsDisk
  <2>2. on' = [on EXCEPT ![r] = d] /\ late' = late /\ landed' = landed
    BY <1>5 DEF ApplyBegin, shopVars
  <2>3. QED
    BY <1>1, <2>1, <2>2 DEF TypeOK, RequestsTypeOK
<1>6. ASSUME NEW r \in Requests, NewRequest(r) PROVE Still
  BY <1>3, <1>5, <1>6 DEF NewRequest, StageReplay, StageRestock, Draft, Discard, shopVars
<1>7. ASSUME NEW r \in Requests, Staging(r) PROVE Still
  BY <1>4, <1>7 DEF Staging, StageAccepted, StageRefused, shopVars
<1>8. ASSUME NEW r \in Requests, Applying(r) PROVE Still
  <2>1. CASE WriteLands(r)
    <3>1. on[r] \in Ids /\ on[r] # c
      BY <1>1, <2>1 DEF WriteLands, TypeOK, RequestsTypeOK
    <3>2. landed'[c] = landed[c]
      BY <2>1, <3>1 DEF WriteLands, Land, TypeOK, ShopTypeOK
    <3>3. QED
      BY <1>1, <2>1, <3>2 DEF WriteLands
  <2>2. CASE Repost(r)
    <3>1. \A w \in Abandoned(r) : w.change # c
      BY <1>1 DEF Abandoned
    <3>2. QED
      BY <1>1, <2>2, <3>1 DEF Repost
  <2>3. CASE Rebase(r)
    BY <1>3, <2>3 DEF Rebase, shopVars
  <2>4. QED
    BY <1>4, <1>8, <2>1, <2>2, <2>3 DEF Applying, RebaseFails, Writing, WriteRejected,
       AnswerLost, ApplyCommitted, ApplyTooLate, shopVars
<1>9. CASE LateLands
  <2>1. PICK w \in late : /\ late' = late \ {w}
                          /\ Land(w.change, w.row, w.base)
                          /\ UNCHANGED requestVars
    BY <1>9 DEF LateLands
  <2>2. w.change \in Ids /\ w.change # c
    BY <1>1 DEF TypeOK, ShopTypeOK, Late
  <2>3. landed'[c] = landed[c]
    BY <2>1, <2>2 DEF Land, TypeOK, ShopTypeOK
  <2>4. QED
    BY <1>1, <2>1, <2>3 DEF requestVars
<1>10. CASE Down
  <2>1. \A r \in Requests : \A w \in Abandoned(r) : w.change # c
    BY <1>1 DEF Abandoned
  <2>2. \A w \in late' : w.change # c
    BY <1>1, <1>10, <2>1 DEF Down
  <2>3. QED
    BY <1>10, <2>2, IdsType DEF Down
<1>11. CASE Environment
  <2>1. CASE LateDropped
    BY <1>1, <2>1 DEF LateDropped, requestVars
  <2>2. ASSUME NEW p \in Products, Sale(p) PROVE Still
    BY <1>3, <2>2 DEF Sale, requestVars
  <2>3. CASE Restart
    BY <1>3, <2>3 DEF Restart, requestVars, shopVars
  <2>4. QED
    BY <1>9, <1>10, <1>11, <2>1, <2>2, <2>3 DEF Environment, Crash, CrashInStage, RowGoesBad
<1>12. CASE UNCHANGED vars
  BY <1>3, <1>12 DEF vars, requestVars, shopVars
<1>13. QED
  BY <1>6, <1>7, <1>8, <1>11, <1>12 DEF Next

\* A decided change with no request and no abandoned write on it is never written or
\* decided again.
THEOREM SettledIsFinalAlways == ASSUME ~RowsMayGoBad PROVE Spec => SettledIsFinal
<1>1. ASSUME TypeOK, Bookkeeping, [Next]_vars, NEW c \in Ids, Settled(c)
      PROVE  Settled(c)' /\ landed'[c] = landed[c] /\ disk'[c] = disk[c]
  <2>1. Quiet(c)' /\ landed'[c] = landed[c]
    BY <1>1, StaysQuiet
  <2>2. disk'[c] = disk[c]
    BY <1>1, DiskSteps DEF Settled, Hands, Decides
  <2>3. QED
    BY <1>1, <2>1, <2>2 DEF Settled
<1>2. TypeOK /\ Bookkeeping /\ [Next]_vars
        => [\A c \in Ids : Settled(c) => /\ Settled(c)'
                                        /\ landed'[c] = landed[c]
                                        /\ disk'[c] = disk[c]]_vars
  BY <1>1
<1>3. QED
  BY <1>2, TypeCorrect, BookkeepingAlways, PTL DEF Spec, SettledIsFinal
=============================================================================
