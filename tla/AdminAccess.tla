---------------------------- MODULE AdminAccess -----------------------------
(***************************************************************************)
(* The merchant host's two Admin transports in front of one shop: payloads *)
(* are previewed, written and, for what a plan created, deleted again; the *)
(* catalog cache is refreshed page by page.  Staff change the catalogue    *)
(* between any two requests, and the answer to a write can be lost.        *)
(*                                                                         *)
(* McpTransport has a dry run, one call for each write, and results so big *)
(* that the server parks them behind a resource; RestTransport validates   *)
(* nothing in advance and writes one product with PATCH and, when that     *)
(* meets no product, POST.  "fake" is the in-process store.                *)
(***************************************************************************)
EXTENDS LocalStore

CONSTANTS
  Transports,  \* of {"mcp", "rest", "fake"}
  Plans,       \* sets of payloads changes are staged with, [.., many |-> sent as a list]
  Initial,     \* the products at the start
  PageSize,    \* CATALOG_PAGE_SIZE
  MaxEdits,    \* bound: products staff add, remove or sell
  MaxLost      \* bound: answers lost for each write

ASSUME AccessBoundsAssumption ==
  PageSize \in Nat \ {0} /\ {MaxEdits, MaxLost} \subseteq Nat /\ Initial \subseteq Products

ASSUME PlansAssumption ==
  \A plan \in Plans : \A w \in plan : w.entity \in {"product", "promotion", "rule"}

VARIABLES
  transport,
  store,   \* the shop
  job,     \* job[w]: how far payload w has come, for the payloads of one of the Plans
  scan,    \* CatalogCache.refresh and where it stands
  index,   \* the products the cache holds
  edits

vars == <<transport, store, job, scan, index, edits>>

-----------------------------------------------------------------------------
NewJob == [status |-> "new", times |-> 0, lost |-> 0]
NoScan == [at |-> "none"]

Init ==
  /\ transport \in Transports
  /\ store = EmptyStore(Initial)
  /\ \E plan \in Plans : job = [w \in plan |-> NewJob]
  /\ scan = NoScan
  /\ index = {}
  /\ edits = 0

\* What the verdict on w depends on.
Found(w) == IF w.entity = "product" THEN {row.id : row \in w.rows} \cap DOMAIN store.product
            ELSE store.rule \cap {w.rule}

-----------------------------------------------------------------------------
(* Writes. *)

\* RestTransport.upsert(dry_run=True): nothing is asked.
RestPreview(w) ==
  /\ transport = "rest" /\ job[w].status = "new"
  /\ job' = [job EXCEPT ![w].status = "staged"]
  /\ UNCHANGED <<transport, store, scan, index, edits>>

\* ShopwareWriter.preview over the other transports: refused payloads are not staged.
Preview(w) ==
  LET answer == Upsert(store, w, TRUE) IN
  /\ transport # "rest" /\ job[w].status = "new"
  /\ job' = [job EXCEPT ![w] =
               IF answer.ok
               THEN [status |-> "staged", times |-> 0, lost |-> 0, seen |-> Found(w),
                     foreseen |-> answer.written]
               ELSE [@ EXCEPT !.status = "refused"]]
  /\ UNCHANGED <<transport, store, scan, index, edits>>

\* The shop does what result says, and the host is told what answer says.
Answered(w, result, answer) ==
  /\ store' = result.store
  /\ job' = [job EXCEPT ![w] =
              [f \in DOMAIN @ \cup {"ok", "found", "wrote"} |->
               CASE f = "status" -> IF answer.ok THEN "applied" ELSE "failed"
                 [] f = "ok"     -> answer.ok
                 [] f = "times"  -> @.times + (IF result.ok THEN 1 ELSE 0)
                 [] f = "found"  -> Found(w)
                 [] f = "wrote"  -> IF answer.ok THEN answer.written ELSE <<>>
                 [] OTHER -> @[f]]]

\* A failed change can be applied again.
Ready(w) == job[w].status \in {"staged", "failed"}

\* RestTransport.upsert sends lists and promotions through one sync request.
OneRequest(w) == transport # "rest" \/ w.entity # "product" \/ w.many

AtOnce(w) ==
  LET answer == Upsert(store, w, FALSE) IN
  /\ Ready(w)
  /\ Answered(w, answer, answer)
  /\ UNCHANGED <<transport, scan, index, edits>>

ToolCall(w) == transport # "rest" /\ AtOnce(w)
Sync(w) == transport = "rest" /\ OneRequest(w) /\ AtOnce(w)

\* Mutant: a missing product counts as written.
PatchForgiving(w) ==
  /\ Ready(w) /\ ~OneRequest(w)
  /\ Answered(w, Upsert(store, w, FALSE), [ok |-> TRUE, written |-> Written(store, w)])
  /\ UNCHANGED <<transport, scan, index, edits>>

\* PATCH of one product: a 404 leads to the POST.
Patch(w) ==
  LET answer == Upsert(store, w, FALSE) IN
  /\ Ready(w) /\ ~OneRequest(w)
  /\ IF Found(w) = {}
     THEN job' = [job EXCEPT ![w].status = "posting"] /\ store' = store
     ELSE Answered(w, answer, answer)
  /\ UNCHANGED <<transport, scan, index, edits>>

\* POST creates: the shop refuses a row that is not a whole product, or is there by now.
Post(w) ==
  LET tried  == Upsert(store, w, FALSE)
      answer == IF Found(w) = {} THEN tried ELSE [ok |-> FALSE, store |-> store]
  IN
  /\ job[w].status = "posting"
  /\ Answered(w, answer, answer)
  /\ UNCHANGED <<transport, scan, index, edits>>

\* The shop writes and the answer is lost, that of the POST too: AdminAPIError, and the change
\* stays staged.  A tool call the MCP client posts once more is this step and a new attempt.
Lose(w) ==
  LET answer == Upsert(store, w, FALSE) IN
  /\ \/ Ready(w) /\ (OneRequest(w) \/ Found(w) # {})
     \/ job[w].status = "posting" /\ Found(w) = {}
  /\ answer.ok
  /\ job[w].lost < MaxLost
  /\ store' = answer.store
  /\ job' = [job EXCEPT ![w].times = @ + 1, ![w].lost = @ + 1, ![w].status = "failed"]
  /\ UNCHANGED <<transport, scan, index, edits>>

\* ShopwareWriter._rollback deletes what the payload created, by the id it carries.
Rollback(w) ==
  /\ job[w].status = "applied" /\ w.entity \in {"promotion", "rule"}
  /\ store' = IF w.entity = "promotion" THEN WithoutPromotion(store, w.id)
              ELSE WithoutRule(store, w.id)
  /\ job' = [job EXCEPT ![w].status = "undone"]
  /\ UNCHANGED <<transport, scan, index, edits>>

-----------------------------------------------------------------------------
(* CatalogCache.refresh. *)

BeginRefresh ==
  /\ scan.at \in {"none", "done"}
  /\ scan' = [at |-> "page", page |-> 1, rows |-> <<>>,
              first |-> DOMAIN store.product, came |-> {}, gone |-> {}]
  /\ UNCHANGED <<transport, store, job, index, edits>>

\* The loop after one page: it ends on an empty page or when the rows reach the total.
Collected(result) ==
  LET rows == scan.rows \o result.rows
      end  == result.rows = <<>> \/ Len(rows) >= result.total
  IN  /\ scan' = [at |-> IF end THEN "done" ELSE "page", page |-> scan.page + 1, rows |-> rows,
                  first |-> scan.first, came |-> scan.came, gone |-> scan.gone]
      /\ index' = IF end THEN ToSet(rows) ELSE index

NextPage ==
  /\ scan.at = "page"
  /\ Collected(Search(store, PageSize, scan.page))
  /\ UNCHANGED <<transport, store, job, edits>>

ToolPage == transport # "rest" /\ NextPage
RestPage == transport = "rest" /\ NextPage

\* The server answers with data: null and the address of the result it parked.
Park ==
  /\ scan.at = "page" /\ transport = "mcp"
  /\ scan' = [f \in DOMAIN scan \cup {"parked"} |->
                CASE f = "at" -> "parked"
                  [] f = "parked" -> Search(store, PageSize, scan.page)
                  [] OTHER -> scan[f]]
  /\ UNCHANGED <<transport, store, job, index, edits>>

\* Mutant: a parked result is taken for no rows.
CollectNothing ==
  /\ scan.at = "parked"
  /\ Collected([rows |-> <<>>, total |-> 0])
  /\ UNCHANGED <<transport, store, job, edits>>

\* _collect_offloaded: the resource is read back, whatever happened to the shop since.
Collect ==
  /\ scan.at = "parked"
  /\ Collected(scan.parked)
  /\ UNCHANGED <<transport, store, job, edits>>

\* A request or the resource fails: refresh raises and the index stays.
RefreshFails ==
  /\ scan.at \in {"page", "parked"}
  /\ scan' = NoScan
  /\ UNCHANGED <<transport, store, job, index, edits>>

-----------------------------------------------------------------------------
(* Staff. *)

Noted(came, gone) ==
  scan' = IF scan.at \in {"page", "parked"}
          THEN [scan EXCEPT !.came = @ \cup came, !.gone = @ \cup gone] ELSE scan

Add(p) ==
  /\ edits < MaxEdits /\ p \notin DOMAIN store.product
  /\ store' = PersistProducts(store, {[id |-> p, set |-> 0]})
  /\ Noted({p}, {})
  /\ edits' = edits + 1
  /\ UNCHANGED <<transport, job, index>>

Withdraw(p) ==
  /\ edits < MaxEdits /\ p \in DOMAIN store.product
  /\ store' = WithoutProduct(store, p)
  /\ Noted({}, {p})
  /\ edits' = edits + 1
  /\ UNCHANGED <<transport, job, index>>

Next ==
  \/ \E w \in DOMAIN job :
       \/ Preview(w) \/ RestPreview(w)
       \/ ToolCall(w) \/ Sync(w) \/ Patch(w) \/ Post(w) \/ Lose(w) \/ Rollback(w)
  \/ BeginRefresh \/ ToolPage \/ RestPage \/ Park \/ Collect \/ RefreshFails
  \/ \E p \in Products : Add(p) \/ Withdraw(p)

Spec == Init /\ [][Next]_vars

-----------------------------------------------------------------------------
TypeOK ==
  /\ transport \in Transports
  /\ DOMAIN store.product \subseteq Products
  /\ \A w \in DOMAIN job :
       /\ job[w].status \in {"new", "refused", "staged", "posting", "applied", "failed", "undone"}
       /\ job[w].times \in Nat /\ job[w].lost \in 0 .. MaxLost
  /\ scan.at \in {"none", "page", "parked", "done"}
  /\ index \subseteq Products
  /\ edits \in 0 .. MaxEdits

\* A previewed payload is written as previewed, rows and all, as long as nothing it refers to
\* came or went in between (FakeAdmin._upsert: "validates exactly as strictly as the live dry
\* run"); over REST nothing is promised.
PreviewForesees ==
  \A w \in DOMAIN job :
    /\ {"foreseen", "found"} \subseteq DOMAIN job[w]
    /\ job[w].seen = job[w].found
    => job[w].ok /\ job[w].wrote = job[w].foreseen

\* The transport's verdict is what the shop did: of a payload's attempts exactly those
\* whose answer was lost and the one reported as applied were written.
VerdictsAreTrue ==
  \A w \in DOMAIN job :
    job[w].times = job[w].lost + (IF job[w].status \in {"applied", "undone"} THEN 1 ELSE 0)

\* A refresh that ends has every product that was there from its start to its end, unless one
\* before it in the order of the pages was removed meanwhile (CatalogCache.refresh counts rows,
\* McpTransport reads parked pages back).
RefreshMissesOnlyBehindRemoved ==
  scan.at = "done" =>
    \A i \in DOMAIN Shelf :
      Shelf[i] \in scan.first \ (scan.gone \cup ToSet(scan.rows))
      => \E j \in 1 .. i - 1 : Shelf[j] \in scan.gone
=============================================================================
