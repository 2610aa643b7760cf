---------------------------- MODULE StagedChanges ----------------------------
(***************************************************************************)
(* The shop's own staged-change ledger (SwagCommerceAgentTools): the tools *)
(* agent-change-stage, -apply and -discard over StagedChangeService,       *)
(* ChangePlanner and StagedChangeStateMachine.                             *)
(*                                                                         *)
(* A tool call is one PHP worker.  Each of its database accesses is a step *)
(* and the calls interleave between them: nothing locks the ledger row and *)
(* no update names the status it expects.  A worker may die at any step,   *)
(* the live write may fail, products may vanish and sell.                  *)
(*                                                                         *)
(* A dry run is a rolled-back transaction that changes nothing; only the   *)
(* one inside agent-change-stage decides anything and is kept.  A price is *)
(* its gross per currency (the net follows from it).                       *)
(***************************************************************************)
EXTENDS Integers, Sequences, FiniteSets, SequencesExt

CONSTANTS
  Products,    \* the products of the shop
  Currencies,  \* the currencies a product is priced in
  Drafts,      \* the requests for a change: [kind, items]
  Calls,       \* the tool calls under way at once
  MaxChanges,  \* bound: changes recorded
  MaxApplies,  \* bound: live applies begun
  MaxSales,    \* bound: units of a product sold
  MaxFaults    \* bound: workers lost, writes failed, products removed and prices edited

Fields == {"stock", "active", "name"} \cup Currencies

\* Bounds, and drafts of known products and fields.
ASSUME DraftsAssumption ==
  /\ {MaxChanges, MaxApplies, MaxSales, MaxFaults} \subseteq Nat
  /\ \A d \in Drafts : /\ d.kind \in {"inventory_action", "price_update", "listing_update"}
                       /\ d.items # <<>>
                       /\ \A i \in DOMAIN d.items : /\ d.items[i].product \in Products
                                                    /\ d.items[i].field \in Fields

\* A shop runs so many workers and no more.
ASSUME CallsAssumption == IsFiniteSet(Calls)

VARIABLES
  shop,     \* shop[p]: the live fields of product p
  sells,    \* the products that still exist
  ledger,   \* the rows of swag_agent_staged_change, in the order they were created
  call,     \* call[t]: the tool call in slot t
  landed,   \* history: landed[c] counts the live writes of change c
  lost,     \* history: lost[c] counts the workers of c that died between write and status
  together, \* history: together[c], the most calls that handled c at the same moment
  credited, \* history: credited[p], the restocks of p that were written
  sold,     \* history: sold[p]
  raced,    \* history: products that moved between a restock's read and its write
  applies, faults

stagedVars == <<shop, sells, ledger, call, landed, lost, together, credited, sold, raced,
                applies, faults>>
shopVars == <<shop, sells, credited, sold, raced>>
historyVars == <<landed, lost, together>>

-----------------------------------------------------------------------------
(* The planner: what a change writes and what its approver is shown. *)

\* planListingUpdate, planPriceUpdate, planInventoryAction: the fields one item writes.  A
\* price is written whole: the other currencies with the values of the snapshot.
Sets(item, snapshot) ==
  CASE item.field = "stock" -> [f \in {"stock"} |-> snapshot.stock + item.value]
    [] item.field \in Currencies ->
         [f \in Currencies |-> IF f = item.field THEN item.value ELSE snapshot[f]]
    [] OTHER -> [f \in {item.field} |-> item.value]

\* array_merge: the later fields win.
Over(new, old) == [f \in DOMAIN new \cup DOMAIN old |-> IF f \in DOMAIN new THEN new[f] ELSE old[f]]

\* plan: one payload row for each product, its items merged in their order.
Payload(items, snapshots) ==
  [p \in {items[i].product : i \in DOMAIN items} |->
     FoldLeft(LAMBDA fields, item : Over(Sets(item, snapshots[p]), fields),
              <<>>, SelectSeq(items, LAMBDA item : item.product = p))]

\* plan, row: one preview row for each item, before and after.
Preview(items, snapshots) ==
  [i \in DOMAIN items |->
     [target |-> items[i].product, field |-> items[i].field,
      before |-> snapshots[items[i].product][items[i].field],
      after  |-> Sets(items[i], snapshots[items[i].product])[items[i].field]]]

\* The last preview row of a field, and what it asks of the stock.
LastRow(rows, p, f) ==
  LET shown == {i \in DOMAIN rows : rows[i].target = p /\ rows[i].field = f}
  IN  rows[CHOOSE i \in shown : \A j \in shown : j <= i]
Delta(rows, p) == LastRow(rows, p, "stock").after - LastRow(rows, p, "stock").before

\* Mutant: the level that was previewed is written.
RebasedAsStaged(row, stocks) == row.payload

\* rebaseRestock: a restock is its delta on the stock read now.
Rebased(row, stocks) ==
  [p \in DOMAIN row.payload |->
     IF row.kind = "inventory_action" /\ "stock" \in DOMAIN row.payload[p]
     THEN [row.payload[p] EXCEPT !.stock = stocks[p] + Delta(row.preview, p)]
     ELSE row.payload[p]]

-----------------------------------------------------------------------------
Ids == DOMAIN ledger

\* StagedChangeStateMachine: staged is the only status with a way out.
CanTransition(row) == row.status = "staged"

NoCall == [at |-> "idle", change |-> 0]

LedgerInit ==
  /\ shop = [p \in Products |-> [f \in Fields |-> IF f = "stock" THEN MaxSales ELSE 1]]
  /\ sells = Products
  /\ ledger = <<>>
  /\ call = [t \in Calls |-> NoCall]
  /\ landed = [c \in 1 .. MaxChanges |-> 0] /\ lost = [c \in 1 .. MaxChanges |-> 0]
  /\ together = [c \in 1 .. MaxChanges |-> 0]
  /\ credited = [p \in Products |-> 0] /\ sold = [p \in Products |-> 0] /\ raced = {}
  /\ applies = 0 /\ faults = 0

Answer(t) == call' = [call EXCEPT ![t] = NoCall]
Fault == faults < MaxFaults /\ faults' = faults + 1

\* ProductSnapshotLoader: every product named exists.
Loaded(items) == \A i \in DOMAIN items : items[i].product \in sells

\* agent-change-stage: the plan is made from the snapshots; a missing product is refused.
StageLoad(t, d) ==
  /\ call[t] = NoCall
  /\ Len(ledger) < MaxChanges
  /\ Loaded(d.items)
  /\ call' = [call EXCEPT ![t] = [at |-> "preview", change |-> 0, kind |-> d.kind,
                payload |-> Payload(d.items, shop), preview |-> Preview(d.items, shop)]]
  /\ UNCHANGED <<shopVars, ledger, historyVars, applies, faults>>

\* executeWithDryRun: the write is tried and rolled back; a refused one is not recorded.
StagePreview(t) ==
  /\ call[t].at = "preview"
  /\ IF DOMAIN call[t].payload \subseteq sells
     THEN call' = [call EXCEPT ![t].at = "record"]
     ELSE Answer(t)
  /\ UNCHANGED <<shopVars, ledger, historyVars, applies, faults>>

\* stage: the row is created with what was previewed.
StageRecord(t) ==
  /\ call[t].at = "record"
  /\ IF Len(ledger) < MaxChanges
     THEN ledger' = Append(ledger, [status |-> "staged", error |-> FALSE, kind |-> call[t].kind,
                            payload |-> call[t].payload, preview |-> call[t].preview])
     ELSE UNCHANGED ledger      \* beyond the bound: taken for a row that could not be recorded
  /\ Answer(t)
  /\ UNCHANGED <<shopVars, historyVars, applies, faults>>

-----------------------------------------------------------------------------
Handlers(c) == {t \in Calls : call[t].change = c}
Busy(c) == Handlers(c) # {}

\* History: one call more handles c.
Joined(c) ==
  LET now == Cardinality(Handlers(c)) + 1
  IN  together' = [together EXCEPT ![c] = IF @ < now THEN now ELSE @]

\* Mutant: a change is found and its status is not looked at.
FindUnchecked(t, c, next) ==
  /\ call[t] = NoCall
  /\ c \in Ids
  /\ call' = [call EXCEPT ![t] = [at |-> next, change |-> c, row |-> ledger[c]]]
  /\ Joined(c)

\* find, canTransition: the row as it is now; a change that is not staged is refused.  Other
\* calls may have found the same row.
Find(t, c, next) ==
  /\ call[t] = NoCall
  /\ c \in Ids /\ CanTransition(ledger[c])
  /\ call' = [call EXCEPT ![t] = [at |-> next, change |-> c, row |-> ledger[c]]]
  /\ Joined(c)

ApplyFind(t, c) ==
  /\ applies < MaxApplies
  /\ Find(t, c, "rebase")
  /\ applies' = applies + 1
  /\ UNCHANGED <<shopVars, ledger, landed, lost, faults>>

\* The payload of a restock is rebased on the stock of now; a product that is gone throws.
Rebase(t) ==
  LET row == call[t].row IN
  /\ call[t].at = "rebase"
  /\ call' = [call EXCEPT ![t].at =
       IF row.kind = "inventory_action"
          /\ \E p \in DOMAIN row.payload \ sells : "stock" \in DOMAIN row.payload[p]
       THEN "failed" ELSE "write",
       ![t].row.payload = Rebased(row, [p \in Products |-> shop[p].stock])]
  /\ UNCHANGED <<shopVars, ledger, historyVars, applies, faults>>

Restocks(row) == {p \in DOMAIN row.payload : "stock" \in DOMAIN row.payload[p]}

\* History: the restocks of p whose read is older than this step.
Pending(p) == \E t \in Calls : call'[t].at = "write" /\ p \in Restocks(call'[t].row)

\* History: what the items of a change ask for, every row counted.
Asked(rows, p) ==
  FoldLeft(LAMBDA sum, row : IF row.target = p /\ row.field = "stock"
                             THEN sum + row.after - row.before ELSE sum, 0, rows)

\* The upsert: all rows in one transaction.
Write(t) ==
  LET row == call[t].row IN
  /\ call[t].at = "write"
  /\ DOMAIN row.payload \subseteq sells
  /\ call' = [call EXCEPT ![t].at = "written"]
  /\ shop' = [p \in Products |->
       IF p \in DOMAIN row.payload THEN Over(row.payload[p], shop[p]) ELSE shop[p]]
  /\ landed' = [landed EXCEPT ![call[t].change] = @ + 1]
  /\ credited' = [p \in Products |-> credited[p] + Asked(row.preview, p)]
  /\ raced' = raced \cup {p \in Restocks(row) : Pending(p)}
  /\ UNCHANGED <<sells, sold, ledger, lost, together, applies, faults>>

\* A product is gone, or the database refuses: nothing of the payload is written.
WriteFails(t) ==
  /\ call[t].at = "write"
  /\ call' = [call EXCEPT ![t].at = "failed"]
  /\ IF DOMAIN call[t].row.payload \subseteq sells THEN Fault ELSE UNCHANGED faults
  /\ UNCHANGED <<shopVars, ledger, historyVars, applies>>

\* Mutant: a change that could not be written is closed.
RecordErrorCloses(t) ==
  /\ call[t].at = "failed"
  /\ ledger' = [ledger EXCEPT ![call[t].change].error = TRUE, ![call[t].change].status = "applied"]
  /\ Answer(t)
  /\ UNCHANGED <<shopVars, historyVars, applies, faults>>

\* The error is recorded; the status is left as it is.
RecordError(t) ==
  /\ call[t].at = "failed"
  /\ ledger' = [ledger EXCEPT ![call[t].change].error = TRUE]
  /\ Answer(t)
  /\ UNCHANGED <<shopVars, historyVars, applies, faults>>

\* The row becomes applied, whatever its status is by now.
MarkApplied(t) ==
  /\ call[t].at = "written"
  /\ ledger' = [ledger EXCEPT ![call[t].change].status = "applied", ![call[t].change].error = FALSE]
  /\ Answer(t)
  /\ UNCHANGED <<shopVars, historyVars, applies, faults>>

DiscardFind(t, c) ==
  /\ Find(t, c, "discard")
  /\ UNCHANGED <<shopVars, ledger, landed, lost, applies, faults>>

\* The row becomes discarded, whatever its status is by now.
MarkDiscarded(t) ==
  /\ call[t].at = "discard"
  /\ ledger' = [ledger EXCEPT ![call[t].change].status = "discarded"]
  /\ Answer(t)
  /\ UNCHANGED <<shopVars, historyVars, applies, faults>>

-----------------------------------------------------------------------------
\* The worker dies, or an update of the ledger throws: a write that landed stays.
WorkerDies(t) ==
  /\ call[t] # NoCall
  /\ Fault
  /\ lost' = IF call[t].at = "written" THEN [lost EXCEPT ![call[t].change] = @ + 1] ELSE lost
  /\ Answer(t)
  /\ UNCHANGED <<shopVars, ledger, landed, together, applies>>

Sale(p) ==
  /\ p \in sells /\ sold[p] < MaxSales
  /\ sold' = [sold EXCEPT ![p] = @ + 1]
  /\ shop' = [shop EXCEPT ![p].stock = @ - 1]
  /\ UNCHANGED <<sells, credited, ledger, call, historyVars, applies, faults>>
  /\ raced' = IF Pending(p) THEN raced \cup {p} ELSE raced

Vanish(p) ==
  /\ p \in sells
  /\ Fault
  /\ sells' = sells \ {p}
  /\ UNCHANGED <<shop, credited, sold, raced, ledger, call, historyVars, applies>>

\* Staff edit a price themselves.
Reprice(p, c) ==
  /\ p \in sells
  /\ Fault
  /\ shop' = [shop EXCEPT ![p][c] = @ + 1]
  /\ UNCHANGED <<sells, credited, sold, raced, ledger, call, historyVars, applies>>

LedgerNext ==
  \/ \E t \in Calls :
       \/ \E d \in Drafts : StageLoad(t, d)
       \/ StagePreview(t) \/ StageRecord(t)
       \/ \E c \in 1 .. MaxChanges : ApplyFind(t, c) \/ DiscardFind(t, c)
       \/ Rebase(t) \/ Write(t) \/ WriteFails(t) \/ RecordError(t) \/ MarkApplied(t)
       \/ MarkDiscarded(t)
       \/ WorkerDies(t)
  \/ \E p \in Products : Sale(p) \/ Vanish(p) \/ \E c \in Currencies : Reprice(p, c)

LedgerSpec == LedgerInit /\ [][LedgerNext]_stagedVars

-----------------------------------------------------------------------------
(* Properties. *)

\* The writes of c whose worker lived to set the status.
Kept(c) == landed[c] - lost[c]

\* agent-change-apply: a change is written at most once for every call that handled it at the
\* same moment, and once more for each worker lost after its write; so once, if calls follow one
\* another and none is lost.  At rest a staged row means that no write is left behind, an applied
\* row that there was one, and a discarded row hides a write only if calls overlapped.
RowsTellTheWrites ==
  \A c \in Ids :
    /\ Kept(c) <= together[c]
    /\ ~Busy(c) /\ ledger[c].status = "staged" => Kept(c) = 0
    /\ ~Busy(c) /\ ledger[c].status = "applied" => Kept(c) >= 1
    /\ ~Busy(c) /\ ledger[c].status = "discarded" => Kept(c) < together[c]

\* Sales and other restocks between staging and applying are kept: the stock is the opening
\* level less the sales plus every quantity asked for, unless the product moved between a
\* restock's own read and its write.
StockAccounted ==
  \A p \in Products \ raced : shop[p].stock = MaxSales - sold[p] + credited[p]

\* The rows keep the life cycle the host's ledger promises, if a decision counts from when no
\* call handles the change any longer: until then an overlapping call may still put its own
\* over it, from then on the change is found decided and refused.
Lifecycle == INSTANCE ChangeLifecycle WITH
  status <- [c \in 1 .. MaxChanges |->
               IF c \notin Ids THEN "none" ELSE IF Busy(c) THEN "staged" ELSE ledger[c].status]

LifecycleSpec == Lifecycle!Spec

\* StagedChangeStateMachine: "Applied and discarded are terminal: a change that has been
\* written to the shop or rejected by an approver is never reopened".  The code does not keep
\* to it: a call that found the row staged sets its status whatever it is by then.
NeverReopened ==
  [][\A c \in Ids : ledger[c].status # "staged" => ledger'[c].status = ledger[c].status]_stagedVars
=============================================================================
