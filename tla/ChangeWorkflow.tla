--------------------------- MODULE ChangeWorkflow ---------------------------
(***************************************************************************)
(* The merchant host's staged-change workflow: ShopwareMerchantBackend     *)
(* stages, applies and discards changes, SqliteChangeLedger keeps them in  *)
(* memory and in SQLite, and ShopwareWriter performs the one live write.   *)
(*                                                                         *)
(* The host is one asyncio process: a request handler runs alone between   *)
(* two awaits and interleaves with the others at each of them.  A handler  *)
(* is therefore split into one action per await (the live stock read, the  *)
(* upsert, its answer); everything without an await is one action.  The    *)
(* process may crash at any await and between two SQLite commits of one    *)
(* synchronous section; the shop answers late, refuses, or loses an        *)
(* answer; sales move the stock at any time.                               *)
(*                                                                         *)
(* A change has one row: the server writes the rows of a payload in one    *)
(* transaction and each row is rebased on its own.  A "restock" row        *)
(* carries a delta; every other kind (price, listing, pause, promotion) is *)
(* a "replay", written exactly as staged.                                  *)
(***************************************************************************)
EXTENDS Integers, FiniteSets

CONSTANTS
  Products,       \* the products whose stock a change may raise
  Requests,       \* the slots for requests the host handles at once
  Quantities,     \* the quantities a restock may ask for
  InitialStock,   \* the stock of every product at the start
  MaxChanges,     \* bound: ids the ledger hands out
  MaxApplies,     \* bound: apply requests ever started
  MaxSales,       \* bound: units of a product sold
  MayCrash,       \* whether the process may crash
  MayLoseAnswers, \* whether an answer of the shop may be lost or late
  RowsMayGoBad    \* whether a stored row may become unreadable

ASSUME ProductsAssumption == Products # {}
ASSUME QuantitiesAssumption == Quantities \subseteq Nat \ {0}
ASSUME BoundsAssumption ==
  /\ InitialStock \in Int
  /\ MaxChanges \in Nat \ {0}
  /\ MaxApplies \in Nat
  /\ MaxSales \in Nat
ASSUME FaultsAssumption == {MayCrash, MayLoseAnswers, RowsMayGoBad} \subseteq BOOLEAN

VARIABLES
  up,        \* the host process is running
  ledger,    \* the ledger in memory: ledger[c] is the row of change c
  sequence,  \* the last id handed out, in memory
  disk,      \* the durable rows in SQLite
  bad,       \* the ids whose durable row no longer parses
  pc,        \* pc[r]: which await request r stands at
  on,        \* on[r]: the change request r applies, 0 for none
  held,      \* held[r]: the change as request r read or drafted it
  base,      \* base[r]: the stock level r's restock payload builds on
  again,     \* again[r]: the transport has re-posted r's write once
  late,      \* writes whose caller gave up and the shop may still perform (one of equal ones)
  stock      \* the live stock in the shop

VARIABLES      \* history, read by properties only
  given,     \* given[c]: how often id c was handed out
  landed,    \* landed[c]: how often a live write of change c was persisted
  excused,   \* changes two requests handled at once, or whose write was cut off
  credited,  \* credited[p]: the restocks persisted for product p
  sold,      \* sold[p]: units of product p sold
  raced,     \* products whose stock moved between a restock's read and its write
  applies    \* apply requests started

ledgerVars  == <<up, ledger, sequence, disk, bad, given>>
requestVars == <<pc, on, held, base, again>>
shopVars    == <<late, stock, landed, credited, sold, raced>>
vars == <<ledgerVars, requestVars, shopVars, excused, applies>>

-----------------------------------------------------------------------------
Ids    == 1 .. MaxChanges
Status == {"none", "staged", "applied", "discarded"}
Kinds  == {"restock", "replay"}
Steps  == {"idle", "preview", "rebase", "writing", "written"}

\* A ledger row.  "plan" tells whether a write plan is stored with the change;
\* "before" is the stock the change was staged against.
Row == [status: Status, plan: BOOLEAN, kind: Kinds, target: Products, qty: Nat, before: Int]

NoRow == [status |-> "none", plan |-> FALSE, kind |-> "replay",
          target |-> CHOOSE p \in Products : TRUE, qty |-> 0, before |-> 0]

Late == [change: Ids, row: Row, base: Int]

Init ==
  /\ up = TRUE
  /\ ledger = [c \in Ids |-> NoRow]
  /\ disk = [c \in Ids |-> NoRow]
  /\ sequence = 0
  /\ bad = {}
  /\ pc = [r \in Requests |-> "idle"]
  /\ on = [r \in Requests |-> 0]
  /\ held = [r \in Requests |-> NoRow]
  /\ base = [r \in Requests |-> 0]
  /\ again = [r \in Requests |-> FALSE]
  /\ late = {}
  /\ stock = [p \in Products |-> InitialStock]
  /\ given = [c \in Ids |-> 0]
  /\ landed = [c \in Ids |-> 0]
  /\ excused = {}
  /\ credited = [p \in Products |-> 0]
  /\ sold = [p \in Products |-> 0]
  /\ raced = {}
  /\ applies = 0

\* Request r leaves its slot with an answer.
Answer(r) ==
  /\ pc' = [pc EXCEPT ![r] = "idle"]
  /\ on' = [on EXCEPT ![r] = 0]
  /\ held' = [held EXCEPT ![r] = NoRow]
  /\ base' = [base EXCEPT ![r] = 0]
  /\ again' = [again EXCEPT ![r] = FALSE]

\* A restock of p has read the stock it builds on and is not performed yet.
Pending(p) ==
  \/ \E r \in Requests : pc[r] = "writing" /\ held[r].kind = "restock" /\ held[r].target = p
  \/ \E w \in late : w.row.kind = "restock" /\ w.row.target = p

\* History: the stock of p moves; the restocks still pending after the step build on a
\* stock that is gone.
Moves(p) == raced' = IF Pending(p)' THEN raced \cup {p} ELSE raced

\* The live write of row with the given stock base, for change c, takes effect in
\* the shop.  A restock stores an absolute level: whatever moved since is lost.
Land(c, row, b) ==
  /\ landed' = [landed EXCEPT ![c] = @ + 1]
  /\ \/ /\ row.kind = "restock"
        /\ stock' = [stock EXCEPT ![row.target] = b + row.qty]
        /\ credited' = [credited EXCEPT ![row.target] = @ + row.qty]
        /\ Moves(row.target)
     \/ /\ row.kind = "replay"
        /\ UNCHANGED <<stock, credited, raced>>
  /\ UNCHANGED sold

-----------------------------------------------------------------------------
(***************************************************************************)
(* Staging: guardrails and the fresh read, the server's dry run, then the  *)
(* ledger.                                                                 *)
(***************************************************************************)
Draft(r, kind, p, q) ==
  /\ up
  /\ pc[r] = "idle"
  /\ pc' = [pc EXCEPT ![r] = "preview"]
  /\ held' = [held EXCEPT ![r] = [status |-> "staged", plan |-> FALSE, kind |-> kind,
                                  target |-> p, qty |-> q, before |-> stock[p]]]
  /\ UNCHANGED <<ledgerVars, on, base, again, shopVars, excused, applies>>

\* stage_inventory_action with a restock: the delta and the level it was staged against.
StageRestock(r, p, q) == Draft(r, "restock", p, q)

\* Prices, listings, pause and activate, promotions.  A campaign is always refused.
StageReplay(r, p) == Draft(r, "replay", p, 0)

\* ledger.stage: the next id, in memory and in SQLite; the plan is not stored yet.
HandOut(r, stored) ==
  LET c == sequence + 1 IN
  /\ c \in Ids
  /\ disk' = [disk EXCEPT ![c] = stored]
  /\ bad' = bad \ {c}
  /\ given' = [given EXCEPT ![c] = @ + 1]

\* The dry run is accepted: ledger.stage, then ledger.set_payloads.
StageAccepted(r) ==
  LET row == [held[r] EXCEPT !.plan = TRUE] IN
  /\ pc[r] = "preview"
  /\ HandOut(r, row)
  /\ ledger' = [ledger EXCEPT ![sequence + 1] = row]
  /\ sequence' = sequence + 1
  /\ Answer(r)
  /\ UNCHANGED <<up, shopVars, excused, applies>>

\* The dry run is refused, or the call fails: nothing reaches the ledger.
StageRefused(r) ==
  /\ pc[r] = "preview"
  /\ Answer(r)
  /\ UNCHANGED <<ledgerVars, shopVars, excused, applies>>

-----------------------------------------------------------------------------
(***************************************************************************)
(* Applying.                                                               *)
(***************************************************************************)
\* History: the requests that apply c now, and whether an abandoned write of c remains.
Outstanding(c) == {r \in Requests : on[r] = c}
CutOff(c) == \E w \in late : w.change = c
Quiet(c) == Outstanding(c) = {} /\ ~CutOff(c)

\* Mutant: the status is not checked before the write.
ApplyBeginUnchecked(r, c) ==
  /\ up /\ pc[r] = "idle" /\ applies < MaxApplies
  /\ ledger[c].status # "none" /\ ledger[c].plan
  /\ pc' = [pc EXCEPT ![r] = IF ledger[c].kind = "restock" THEN "rebase" ELSE "writing"]
  /\ on' = [on EXCEPT ![r] = c]
  /\ held' = [held EXCEPT ![r] = ledger[c]]
  /\ base' = [base EXCEPT ![r] = ledger[c].before]
  /\ excused' = IF Quiet(c) THEN excused ELSE excused \cup {c}
  /\ applies' = applies + 1
  /\ UNCHANGED <<ledgerVars, again, shopVars>>

\* Mutant: a restock is replayed with the level it was staged against.
ApplyBeginAsStaged(r, c) ==
  /\ up /\ pc[r] = "idle" /\ applies < MaxApplies
  /\ ledger[c].status = "staged" /\ ledger[c].plan
  /\ pc' = [pc EXCEPT ![r] = "writing"]
  /\ on' = [on EXCEPT ![r] = c]
  /\ held' = [held EXCEPT ![r] = ledger[c]]
  /\ base' = [base EXCEPT ![r] = ledger[c].before]
  /\ excused' = IF Quiet(c) THEN excused ELSE excused \cup {c}
  /\ applies' = applies + 1
  /\ UNCHANGED <<ledgerVars, again, shopVars>>

\* apply_change up to its first await: the change is staged, within the guardrails
\* and has a write plan.  Otherwise the request is refused and nothing changes.
ApplyBegin(r, c) ==
  /\ up
  /\ pc[r] = "idle"
  /\ applies < MaxApplies
  /\ ledger[c].status = "staged"
  /\ ledger[c].plan
  /\ pc' = [pc EXCEPT ![r] = IF ledger[c].kind = "restock" THEN "rebase" ELSE "writing"]
  /\ on' = [on EXCEPT ![r] = c]
  /\ held' = [held EXCEPT ![r] = ledger[c]]
  /\ base' = [base EXCEPT ![r] = ledger[c].before]
  /\ excused' = IF Quiet(c) THEN excused ELSE excused \cup {c}
  /\ applies' = applies + 1
  /\ UNCHANGED <<ledgerVars, again, shopVars>>

\* The live stock is read and the payload rebased on it.
Rebase(r) ==
  /\ pc[r] = "rebase"
  /\ pc' = [pc EXCEPT ![r] = "writing"]
  /\ base' = [base EXCEPT ![r] = stock[held[r].target]]
  /\ UNCHANGED <<ledgerVars, on, held, again, shopVars, excused, applies>>

\* The product is gone (WriteFailed), or the read fails: an error of the read is raised
\* outside the writer's try block and reaches the caller as it is.
RebaseFails(r) ==
  /\ pc[r] = "rebase"
  /\ Answer(r)
  /\ UNCHANGED <<ledgerVars, shopVars, excused, applies>>

\* The shop persists the write; the answer is on its way.
WriteLands(r) ==
  /\ pc[r] = "writing"
  /\ pc' = [pc EXCEPT ![r] = "written"]
  /\ UNCHANGED <<ledgerVars, on, held, base, again, late, excused, applies>>
  /\ Land(on[r], held[r], base[r])

\* Mutant: an answer that is not a persisted write is taken for one.
WriteRejectedBelieved(r) ==
  /\ pc[r] = "writing"
  /\ pc' = [pc EXCEPT ![r] = "written"]
  /\ UNCHANGED <<ledgerVars, on, held, base, again, shopVars, excused, applies>>

\* The shop rejects the write, or answers it as a preview: nothing is persisted.
WriteRejected(r) ==
  /\ pc[r] = "writing"
  /\ Answer(r)
  /\ UNCHANGED <<ledgerVars, shopVars, excused, applies>>

\* The write r waits for, should the shop perform it after r has given up.
Abandoned(r) ==
  IF pc[r] = "writing" THEN {[change |-> on[r], row |-> held[r], base |-> base[r]]} ELSE {}

\* A transient HTTP status: the transport posts the same body a second time.
Repost(r) ==
  /\ MayLoseAnswers
  /\ pc[r] \in {"writing", "written"}
  /\ ~again[r]
  /\ late' = late \cup Abandoned(r)
  /\ pc' = [pc EXCEPT ![r] = "writing"]
  /\ again' = [again EXCEPT ![r] = TRUE]
  /\ excused' = excused \cup {on[r]}
  /\ raced' = IF pc[r] = "written" /\ held[r].kind = "restock"
               THEN raced \cup {held[r].target} ELSE raced
  /\ UNCHANGED <<ledgerVars, on, held, base, stock, landed, credited, sold, applies>>

\* No answer arrives.  An AdminAPIError becomes "It is still staged"; a timeout below the
\* MCP client is no AdminAPIError and reaches the caller as it is.
AnswerLost(r) ==
  /\ MayLoseAnswers
  /\ pc[r] \in {"writing", "written"}
  /\ late' = late \cup Abandoned(r)
  /\ excused' = excused \cup {on[r]}
  /\ Answer(r)
  /\ UNCHANGED <<ledgerVars, stock, landed, credited, sold, raced, applies>>

\* The write came back persisted and the catalog is refreshed: ledger.apply and annotate.
ApplyCommitted(r) ==
  /\ pc[r] = "written"
  /\ ledger[on[r]].status = "staged"
  /\ ledger' = [ledger EXCEPT ![on[r]].status = "applied"]
  /\ disk' = [disk EXCEPT ![on[r]].status = "applied", ![on[r]].plan = ledger[on[r]].plan]
  /\ Answer(r)
  /\ UNCHANGED <<up, sequence, bad, given, shopVars, excused, applies>>

\* Mutant: the change is marked applied over the other decision.
ApplyTooLateOverwrites(r) ==
  /\ pc[r] = "written"
  /\ ledger[on[r]].status # "staged"
  /\ ledger' = [ledger EXCEPT ![on[r]].status = "applied"]
  /\ disk' = [disk EXCEPT ![on[r]].status = "applied"]
  /\ Answer(r)
  /\ UNCHANGED <<up, sequence, bad, given, shopVars, excused, applies>>

\* Mutant: the refusal is swallowed and the request waits for ever.
ApplyTooLateSwallowed(r) ==
  /\ pc[r] = "written"
  /\ ledger[on[r]].status # "staged"
  /\ UNCHANGED vars

\* The change was decided while the write was under way: the ledger refuses.
ApplyTooLate(r) ==
  /\ pc[r] = "written"
  /\ ledger[on[r]].status # "staged"
  /\ Answer(r)
  /\ UNCHANGED <<ledgerVars, shopVars, excused, applies>>

-----------------------------------------------------------------------------

\* discard_change has no await: check, transition and commit are one step.
Discard(r, c) ==
  /\ up
  /\ pc[r] = "idle"
  /\ ledger[c].status = "staged"
  /\ ledger' = [ledger EXCEPT ![c].status = "discarded"]
  /\ disk' = [disk EXCEPT ![c] = ledger'[c]]
  /\ excused' = IF Quiet(c) THEN excused ELSE excused \cup {c}
  /\ UNCHANGED <<up, sequence, bad, given, pc, on, held, base, again, shopVars, applies>>

-----------------------------------------------------------------------------
(***************************************************************************)
(* The environment: the shop, sales, crashes and restarts.                 *)
(***************************************************************************)
LateLands ==
  \E w \in late :
    /\ late' = late \ {w}
    /\ UNCHANGED <<ledgerVars, requestVars, excused, applies>>
    /\ Land(w.change, w.row, w.base)

LateDropped ==
  \E w \in late :
    /\ late' = late \ {w}
    /\ UNCHANGED <<ledgerVars, requestVars, stock, landed, credited, sold, raced, excused,
                   applies>>

Sale(p) ==
  /\ sold[p] < MaxSales
  /\ stock' = [stock EXCEPT ![p] = @ - 1]
  /\ sold' = [sold EXCEPT ![p] = @ + 1]
  /\ UNCHANGED <<ledgerVars, requestVars, late, landed, credited, excused, applies>>
  /\ Moves(p)

\* Memory and every request are gone; a write that was posted may still be performed.
Down ==
  /\ MayCrash
  /\ up
  /\ up' = FALSE
  /\ ledger' = [c \in Ids |-> NoRow]
  /\ sequence' = 0
  /\ pc' = [r \in Requests |-> "idle"]
  /\ on' = [r \in Requests |-> 0]
  /\ held' = [r \in Requests |-> NoRow]
  /\ base' = [r \in Requests |-> 0]
  /\ again' = [r \in Requests |-> FALSE]
  /\ late' = late \cup UNION {Abandoned(r) : r \in Requests}
  /\ excused' = excused \cup {on[r] : r \in {s \in Requests : pc[s] \in {"writing", "written"}}}
  /\ UNCHANGED <<stock, landed, credited, sold, raced, applies>>

Crash ==
  /\ Down
  /\ UNCHANGED <<disk, bad, given>>

\* A crash between the commit of ledger.stage and the commit of set_payloads.
CrashInStage(r) ==
  /\ pc[r] = "preview"
  /\ HandOut(r, held[r])
  /\ Down

\* A row written by another release of the model may not parse any more.
\* Bound: at most one row of each id goes bad.
RowGoesBad(c) ==
  /\ RowsMayGoBad
  /\ ~up
  /\ disk[c].status # "none"
  /\ given[c] = 1
  /\ bad' = bad \cup {c}
  /\ UNCHANGED <<up, ledger, sequence, disk, given, requestVars, shopVars, excused, applies>>

\* The rows _load accepts; an unreadable one is skipped, its id too.
Readable == {c \in Ids : disk[c].status # "none"} \ bad

Restart ==
  /\ ~up
  /\ up' = TRUE
  /\ ledger' = [c \in Ids |-> IF c \in Readable THEN disk[c] ELSE NoRow]
  /\ sequence' \in Readable \cup {0}
  /\ \A c \in Readable : c <= sequence'
  /\ UNCHANGED <<disk, bad, given, requestVars, shopVars, excused, applies>>

-----------------------------------------------------------------------------
Staging(r) == StageAccepted(r) \/ StageRefused(r)

Writing(r) == WriteLands(r) \/ WriteRejected(r) \/ Repost(r) \/ AnswerLost(r)

Applying(r) ==
  \/ Rebase(r) \/ RebaseFails(r)
  \/ Writing(r)
  \/ ApplyCommitted(r) \/ ApplyTooLate(r)

NewRequest(r) ==
  \/ \E p \in Products : StageReplay(r, p) \/ \E q \in Quantities : StageRestock(r, p, q)
  \/ \E c \in Ids : ApplyBegin(r, c) \/ Discard(r, c)

Environment ==
  \/ LateLands \/ LateDropped
  \/ \E p \in Products : Sale(p)
  \/ Crash \/ Restart
  \/ \E r \in Requests : CrashInStage(r)
  \/ \E c \in Ids : RowGoesBad(c)

Next ==
  \/ \E r \in Requests : NewRequest(r) \/ Staging(r) \/ Applying(r)
  \/ Environment

Spec == Init /\ [][Next]_vars

(***************************************************************************)
(* The event loop runs every ready handler, and a call to the shop ends    *)
(* (the HTTP clients have timeouts).  A lost answer or a second post may   *)
(* always happen and is never relied on.                                   *)
(***************************************************************************)
Proceeds(r) ==
  \/ Staging(r)
  \/ Rebase(r) \/ RebaseFails(r)
  \/ WriteLands(r) \/ WriteRejected(r)
  \/ ApplyCommitted(r) \/ ApplyTooLate(r)

Fairness == \A r \in Requests : WF_vars(Proceeds(r))

FairSpec == Spec /\ Fairness

-----------------------------------------------------------------------------
(***************************************************************************)
(* Properties.                                                             *)
(***************************************************************************)
LedgerTypeOK ==
  /\ up \in BOOLEAN
  /\ ledger \in [Ids -> Row]
  /\ sequence \in 0 .. MaxChanges
  /\ disk \in [Ids -> Row]
  /\ bad \subseteq Ids
  /\ given \in [Ids -> Nat]

RequestsTypeOK ==
  /\ pc \in [Requests -> Steps]
  /\ on \in [Requests -> Ids \cup {0}]
  /\ held \in [Requests -> Row]
  /\ base \in [Requests -> Int]
  /\ again \in [Requests -> BOOLEAN]
  /\ \A r \in Requests : pc[r] \in {"rebase", "writing", "written"} <=> on[r] \in Ids

ShopTypeOK ==
  /\ late \subseteq Late
  /\ stock \in [Products -> Int]
  /\ landed \in [Ids -> Nat]
  /\ credited \in [Products -> Nat]
  /\ sold \in [Products -> 0 .. MaxSales]
  /\ raced \subseteq Products

\* Types of the state, the bounds of the guarded counters included; a request names a
\* change exactly while it applies one.
TypeOK ==
  /\ LedgerTypeOK
  /\ RequestsTypeOK
  /\ ShopTypeOK
  /\ excused \subseteq Ids
  /\ applies \in 0 .. MaxApplies

\* Every transition is persisted: what the running host believes of a change is what a
\* restart would read (SqliteChangeLedger saves after each transition).
LedgerMatchesDisk == up => \A c \in Ids \ bad : ledger[c] = disk[c]

\* "chg-0007 is never handed out twice" (the ledger's module comment), across restarts.
IdsOnce == \A c \in Ids : given[c] <= 1

\* A change the ledger calls applied had a write plan and was written to the shop:
\* apply_change commits only after a write that came back persisted.
AppliedHasLanded ==
  \A c \in Ids : disk[c].status = "applied" => disk[c].plan /\ landed[c] >= 1

\* Exactly once: unless two requests handled the change at once or its write was cut off
\* by a crash or a lost answer, its write lands at most once, and once the request is
\* answered it has landed if and only if the ledger says applied.
ExactlyOnce ==
  \A c \in Ids \ excused :
    /\ landed[c] <= 1
    /\ Outstanding(c) = {} => (landed[c] = 1 <=> disk[c].status = "applied")

\* The stock is the initial level less the sales plus every persisted restock, unless the
\* product moved between a restock's read of the live level and its write, or a restock was
\* posted twice: the delta is applied to the stock read at apply time, not to the level it
\* was staged against.
StockAccounted ==
  \A p \in Products \ raced : stock[p] = InitialStock - sold[p] + credited[p]

\* A change that was decided, with no request and no abandoned write left on it, is never
\* written or decided again, restarts included.
Settled(c) == disk[c].status \in {"applied", "discarded"} /\ Quiet(c)

SettledIsFinal ==
  [][\A c \in Ids : Settled(c) => /\ Settled(c)'
                                 /\ landed'[c] = landed[c]
                                 /\ disk'[c] = disk[c]]_vars

\* The durable rows follow the promised life cycle: ids in order, one decision, final.
Lifecycle == INSTANCE ChangeLifecycle WITH status <- [c \in Ids |-> disk[c].status]

LifecycleSpec == Lifecycle!Spec

\* Every request is answered (or its connection dies with the process).
EveryRequestAnswered == \A r \in Requests : pc[r] # "idle" ~> pc[r] = "idle"

-----------------------------------------------------------------------------
(***************************************************************************)
(* What the repository says and interleaved requests refute.               *)
(***************************************************************************)
\* staging.py: "so two restocks staged against the same starting level both count".
RestocksBothCount == \A p \in Products : stock[p] = InitialStock - sold[p] + credited[p]

\* apply_change's answer to a failed write: "It is still staged."
SaysStillStaged(r) == RebaseFails(r) \/ WriteRejected(r) \/ AnswerLost(r)

StillStagedIsTrue ==
  [][\A r \in Requests : SaysStillStaged(r) => ledger'[on[r]].status = "staged"]_vars

\* test_apply_refuses_anything_not_staged: "none of the refusals wrote".  A request whose
\* write was persisted must not find its change decided: the ledger would refuse it.
RefusalsWroteNothing ==
  \A r \in Requests : pc[r] = "written" => ledger[on[r]].status = "staged"
=============================================================================
