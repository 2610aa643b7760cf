# Formal models of shopware-claude-commerce

TLA+ specifications of the two commerce hosts in this repository and of what surrounds
them: the merchant host, which stages, approves and applies changes to a Shopware shop, the
storefront host, which keeps a shopping session's cart and hands it over to the shop's
checkout, the shop's two plugins, the consoles and tool servers in front of the hosts, the
scripts that set a shop up and the evaluations that judge the agents. The modules are checked
by TLC on small instances; the theorems are checked by TLAPS for every value of the constants.
`PROJECT.json` maps each definition to the lines it models.

## 1. Inventory

| component | state it keeps | operations | hard behaviour |
|---|---|---|---|
| **Staged-change workflow** `merchant/api/{shopware_backend,ledger,staging}.py` | the ledger in memory (changes, write plans, id sequence), its SQLite rows | `stage_*`, `apply_change`, `discard_change`, `_load` at start | two requests at an await of each other, a crash between two commits, a write persisted whose answer is lost, a plan that fails midway |
| **Admin transports and MCP client** `merchant/api/admin_client.py`, `shopware_common/mcp_client.py` | MCP session id, request counter, two locks | `upsert`, `delete`, `search`; `request`, `initialize` | a transient status re-posts the call; a session that is lost while calls wait; one write as two requests; parked results |
| **Local store** `merchant/api/fake_admin.py` | tables of products, promotions, rules | the Admin operations, in process | validation must foresee the write |
| **Merchant reads and catalog cache** `merchant/api/{catalog,insights,agent_tools,portal}.py` | the catalog index and its age | refresh, dashboard, snapshot, metrics, alerts, order issues | chains of reads while orders move; windows that cut weeks and months; searches cut at a limit |
| **Portal sessions and approval gate** `vendor/demo_common/{sessions,host,merchant}.py` | versioned session state and transcript, notes of clicks | save with compare-and-swap, `write_back`, apply/discard buttons, reset | a turn and a button on one session; a reset during a turn |
| **SwagCommerceAgentTools** (PHP) | staged changes in the shop's database | stage, apply, discard tools | read, check and write without a lock; a worker that dies |
| **Storefront backend** `storefront/api/shopware_backend.py`, routes in `main.py` | per session: cart id, lines, default sizes; product caches | cart operations, `attach_cart`, `reset_session`, product look-ups | chat turns, buttons and page loads interleave without a lock; answers stored after awaits |
| **UCP client and signing** `storefront/api/ucp_client.py`, `shopware_common/http_signing.py` | preferred transport, signer | `call_ucp` over MCP or REST | one call may be sent four times; answers that fail in five ways |
| **Checkout handoff** `storefront/api/handoff.py`, `shopware_common/handoff.py`, `docker/plugins/CommerceAgentsHandoff` | ticket per session; table of consumed codes in the shop | hand out, revoke, mint, verify, consume, purge | single use across PHP workers and clocks; a ticket that outlives its cart |
| **Identity linking** `storefront/api/identity.py` | link per session, tokens with expiry | sign in, refresh, send, drop, sign out | answers of refreshes and of sign-ins that arrive late |
| **Storefront reads** `storefront/api/{store_api,agent_tools,policies,disclosures,catalog_warmup}.py` | caches of policies and disclosures | look-ups | a cache built by two calls at once |
| **Agent-SDK consoles and managed agents** `*/agent-sdk`, `*/managed-agents` | the console's marks and memory of a no; a warm-up flag and lock | turns, y/N questions; tool calls | questions drawn up before approved turns change the ledger; first calls that arrive together |
| **Evaluations** `evals` | tasks, attempts, outcomes, the report | run, retry, grade, gate | time-outs and errors at any point; a verdict about the wrong attempt |
| **Docker bootstrap** `docker` | nothing of its own: rows, keys and files on both sides | seeding scripts, run again after a stop | a stop between any two requests |
| Browser demo, web UIs, Claude Code plugin, docs | none that matters here | presentation and packaging | – |

How they interact. A merchant agent (or the portal's button, or the console) calls
`ShopwareMerchantBackend`; a `stage_*` tool runs a server dry run over the admin transport and
records the change and its write plan in the ledger; an approval calls `apply_change`, which
replays the plan through `ShopwareWriter` and then marks the change applied. Portal requests
share a versioned session. Where the shop has the SwagCommerceAgentTools plugin it keeps a
ledger of its own; the host only looks for the plugin's tools, it does not stage through them.
A shopping agent and the page's buttons call `ShopwareStorefrontBackend`, which talks UCP to
the shop, signed, as a guest or with a linked customer's token; its cart id is the shop's
context token. `HandoffBroker` gives the session a ticket URL; the click mints a signed code for
the session's current cart, which the PHP plugin redeems once.

What makes the parts correct:

- *workflow*: memory is what a restart would read; an id is handed out once; a decision is
  final; a change handled alone is written exactly once; a restock is applied to the live
  level; every request is answered; what is shown is what is written; a failed plan leaves
  nothing behind.
- *access*: a verdict is what the shop did; one MCP call at a time; a lost session is replayed
  once and not noticed; a refresh loses no product.
- *reads*: charts sum up to totals; an issue is missed only behind newer ones.
- *portal, console*: replies follow what they answer, a note is told once and not lost, a reset
  session stays gone; what is applied was approved in that very turn.
- *storefront*: a ticket leads to the cart it was handed out for; an accepted change counts
  once; a living cart stays bound; what is added is what was asked for or a size of it; a signed
  out session stays signed out.
- *handoff codes*: redeemed at most once in time; a customer's own cart is left alone.
- *bootstrap, evaluations*: a finished run can be verified and cuts nobody off; a green gate
  means every safety trial held.

## 2. Modules

| module | models | kind |
|---|---|---|
| `ChangeLifecycle` | what a ledger promises: ids in order, one decision, final | abstract specification |
| `ChangeWorkflow` | the host's workflow with concurrent requests, crashes, late answers, sales | component, implements `ChangeLifecycle` |
| `ChangeWorkflowInvariant`, `ChangeWorkflowProofs` | its inductive invariant and the theorems | invariant, theorems |
| `WritePlans`, `MerchantProofs` | what staging shows and what the writer writes and rolls back, and the theorems | component, theorems |
| `StagedChanges`, `PluginProofs` | the PHP plugin's staged changes, and the theorems | component, implements `ChangeLifecycle`; theorems |
| `LocalStore` | the in-process store, one atomic step per operation | operators |
| `AdminAccess`, `MerchantProofs` | the admin transports over it, catalog refresh, and the theorems | component, theorems |
| `Picking` | the entries of a list at given places, as a filter returns them | operators |
| `McpSession`, `McpProofs` | the MCP client's session and locks, and the theorems | component, theorems |
| `MerchantDashboard`, `MerchantProofs` | dashboard, snapshot, metric queries, order issues, and the theorems | component, theorems |
| `PortalSession`, `PortalProofs` | session store, chat turn, buttons, reset, and the theorems | component, theorems |
| `ConsoleApproval`, `MerchantProofs` | the merchant's console as approval host, and the theorems | component, theorems |
| `HostedTools`, `MerchantProofs` | warm-up of the tool server, building of the policy index, and the theorem | component, theorem |
| `StorefrontCart`, `CartProofs` | one shopping session: cart operations, UCP calls, ticket, and the theorems | component, theorems |
| `StorefrontCatalog`, `StorefrontHostProofs` | the product caches of the storefront host, and the theorem | component, theorem |
| `UcpWire`, `StorefrontHostProofs` | one UCP operation on the wire, and the theorems | component, theorems |
| `IdentityLinking`, `StorefrontHostProofs` | links of sessions to customers, and their tokens, and the theorems | component, theorems |
| `HandoffRedemption`, `PluginProofs` | codes, from the click to the customer's cart, and the theorems | component, theorems |
| `TurnScorers` | the evaluations' deterministic scorers | operators |
| `EvalRuns`, `ToolingProofs` | a run of the evaluations, using `TurnScorers`, and the theorems | component, theorems |
| `ShopBootstrap`, `ToolingProofs` | the scripts of `docker/bootstrap.sh`, and the theorems | component, theorems |
| `MC…` | values of the constants for TLC; three of them put components side by side | instances |

Components that share state are one module (`StorefrontCart` has cart, UCP answer and ticket;
`AdminAccess` extends the store it talks to; `EvalRuns` the scorers it applies). Three instances,
`MCStorefrontHost`, `MCMerchantHost` and `MCShopPlugins`, check several
components that share *no* state in one run. Their next-state relation lets one component move
while the others stay in an initial state: interleaving components that cannot influence each
other adds states and no behaviour of any of them, so it is not done. Where one module extends
several components (these instances, `PluginProofs`, `StorefrontHostProofs`, `MerchantProofs`,
`ToolingProofs`), all but one of them call their initial states, next-state relation and specification by a name of their
own (`LedgerSpec`, `CatalogSpec`, `WireSpec`, `ConsoleSpec`, `HostedSpec`, `WritePlansSpec`, `DashboardSpec`, `EvalSpec`).

### ChangeWorkflow

`ledger`, `sequence` are `SqliteChangeLedger`'s memory, `disk` its rows, `bad` the rows that
no longer parse. `pc[r]`, `on[r]`, `held[r]`, `base[r]` are the locals of a request handler.
The host is one asyncio process, so a handler is one action per await:

| code | actions |
|---|---|
| `_stage` up to the dry run | `StageRestock`, `StageReplay` (through `Draft`) |
| dry run answered; `ledger.stage`, `set_payloads` (two commits) | `StageAccepted`, `StageRefused`; `CrashInStage` between the commits |
| `apply_change` up to its first await | `ApplyBegin` |
| `_current_stock_base` | `Rebase`, `RebaseFails` |
| `admin.upsert(dry_run=False)` | `WriteLands`, `WriteRejected`, `Repost`, `AnswerLost` |
| `ledger.apply` and `annotate` | `ApplyCommitted`, `ApplyTooLate` |
| `discard_change` | `Discard` (no await) |
| `_load` | `Restart` |

`Crash`, `RowGoesBad`, `Sale`, `LateLands` and `LateDropped` are the environment. A write
whose caller gave up goes to `late`; `late` is a set, so equal abandoned writes count as
one. History variables (`given`, `landed`, `excused`, `credited`, `sold`, `raced`) are read
by properties only. A change has one row here; its kind is `restock` (a delta on the live
stock) or `replay` (everything else, written as staged). What a plan contains is `WritePlans`.
The reads that follow a landed write (`catalog.refresh`) are part of the wait for
`ApplyCommitted`; their failure is only logged.

### WritePlans

`live` is the shop, `cache` the catalog index the plan is built from, `change` the change with
what it shows (`items`) and what it will write (`plan`), `writing` the `ShopwareWriter` at work.
`StageProducts` is `stage_price_update`, `stage_inventory_action` and `stage_listing_update`
(`Reprice`, `Restock`, `Toggle`, `Rename` build the items and rows), `StagePromotion` is
`stage_promotion`. `Begin`, `Rebase`, `WriteRows`, `RowsFail`, `Undo`, `Fail`, `Return` are
`ShopwareWriter.apply` and `_rollback`, one action per request; `Refresh` is the cache. One
change is handled at a time, since the requests that interleave are `ChangeWorkflow`'s;
`Edit` (staff, customers) falls between any two steps, under the same bound as the faults
(`Disturbance`). A plan of several payloads is replayed and rolled back although no tool stages one today: the writer is written for it.

### StagedChanges

The plugin's row per change (`ledger`), a PHP worker per tool call (`call`), the shop's products
and the change's write. `StageLoad`/`StagePreview`/`StageRecord` are `ChangeStageTool` with the
planner; `ApplyFind`, `Rebase`, `Write`/`WriteFails`, `MarkApplied`/`RecordError` are
`ChangeApplyTool` and `StagedChangeService::apply`; `DiscardFind`, `MarkDiscarded` the discard
tool. `WorkerDies` loses a worker between any two statements. Nothing keeps two calls off one row:
`Find` only reads it, and `MarkApplied`, `MarkDiscarded` set a status whatever it is by then, as the
updates of `StagedChangeService` do. The histories `landed`, `lost` and `together` count, for each
change, its live writes, the workers that died between write and status, and the most calls that
handled it at one moment; `RowsTellTheWrites` relates them to the status of a row at rest. Seen from
`ChangeLifecycle` a change is decided when no call handles it any longer; that a decided row stays
as it is (`NeverReopened`) is not so, and `decision_overwritten` shows it.

### LocalStore and AdminAccess

A store is a record of tables; `Upsert`, `WithoutPromotion`, `WithoutRule`, `Search` are
`FakeAdmin`'s operations, pure and atomic as the in-process store's are. `AdminAccess` puts the
transports in front of it. `Preview`, `RestPreview` are the dry runs (over REST nothing is
asked), `ToolCall` and `OneRequest` writes that are one request, `Sync`, `Patch`, `Post` those
of `RestTransport`, `Lose` an answer that does not arrive, of a PATCH, a POST or a tool call (a
call the MCP client posts once more is that step and a new attempt), `Rollback` the deletions. `ToolPage`,
`RestPage`, `Park`, `Collect`, `RefreshFails` are `CatalogCache.refresh` page by page; `Add`,
`Withdraw` are staff.

### McpSession

`session`, `lock`, `io` are the client's `_session_id`, `_lock` and `_io_lock`; `live` and
`running` the server's sessions and the calls it works on. `Request`, `EnsureSession`, `Adopt`,
`Initialized`, `Notified`, `HandshakeFails` are `call_tool`, `ensure_session`, `initialize`;
`Acquire`, `Post`, `Lost`, `Reinitialise`, `LostAgain`, `Answer`, `Transient`, `TimeOut`, `End`
are `request` under `_io_lock`. `Receive`, `FinishUnheard`, `Forget` are the server.

### MerchantDashboard

One reading at a time in `read`, one action per awaited call: `Dashboard`,
`GetBusinessSnapshot`, `QueryMetrics` begin one, `Totals`, `Series`, `GetInventoryAlerts`,
`SearchOrders` are its requests, `Show` its answer. `BucketStarts`, `BucketOf`, `SeriesPoints`,
`Period`, `LastDays` are `insights.py`'s arithmetic of days, `IssuesOf`, `Merged`, `FoundBy`
`derive_issues` and its merging, `NewestOf` the cut of a search. `Place`, `Move`, `NextDay` fall between any two.

### PortalSession

`version`, `notes`, `transcript` are the stored session, `req[r]` a request with the record it
loaded. `ReadState`, `ReadMessages` are `require`; `Stream`, `Abandon`, `WriteBack`, `Rebase`,
`WriteBackAgain` are the chat turn (`host.py`); `ChangeAction` is a button, `Reset` the reset
route; `WriteState`, `WriteMessages`, `Save` are the store's two writes, separate steps because a
deployment may put them over its own store.

### ConsoleApproval and HostedTools

`phase` is where the console's loop stands, `approved`, `declined`, `seen`, `queue` its state.
`Say`, `Remind` and the tool calls (`Stage`, `ReadPending`, `DiscardChange`, `ApplyChange`) are a
turn; `DrawUpQuestions`, `PassOver`, `AnswerYes`, `ApprovedTurnEnds`, `AnswerNo`, `AllAsked` are
`confirm_staged_changes`; `ChatGoesOn`, `OnceEnds`, `TurnFails`, `Leave`, `Start` the rest of the
loop and a new process over the same ledger file. In `HostedTools`, `Call`, `AlreadyWarm`,
`TakeLock`, `Detect`, `ReadCatalog`, `ResolveChannel`, `ReadOrders`, `Answer` are
`_Warmup.ensure` around a tool, `SearchPolicies`, `ReadMenu`, `Walk`, `Publish` are
`PolicyIndex.search` and `rebuild`, which take no lock.

### StorefrontCart

`state[o]` are the `_SessionState` objects: 1 is the session's entry, 2 the one
`setdefault` makes after `reset_session` (a session is reset at most once); an operation
keeps the object it fetched when it began. `ticket` records for which cart the live ticket
was handed out; the broker itself only knows the session. `req[r]` is an operation and the
UCP call it waits for. A call is performed by the shop (`PerformGet`, `PerformUpdate`,
`PerformCreate`, `PerformGone`), refused, sent again or given up; then one host action works
up the answer and sends the next call:

| code | actions |
|---|---|
| `get_cart` | `GetCart`, `ReadAnswered` |
| `add_to_cart` | `AddToCart`, `RefreshAnswered`, `UpdateAnswered`, `CreateAnswered` |
| `update_cart_item`, `remove_from_cart` (`_set_line`) | `SetLine`, `RefreshAnswered`, `UpdateAnswered`, `ReadAnswered` |
| `attach_cart` and its routes | `AttachCart`, `AttachAnswered`, `ReadAnswered` |
| `checkout_handoff`, `checkout_url_for` | `CheckoutHandoff`; `Url`, `Respond` |
| `reset_session` | `Reset` |
| `call_ucp`, `_send`, `_rest_send` | `SendAgain`, `GiveUp`, `Refused` |
| `McpClient.request` under `_io_lock` | `Free`: over MCP one answered call at a time; over REST any order |

The id and the lines of a call are fixed before it waits for the lock, so serialising calls
does not serialise a read with the write computed from it. `_map_cart` (`Mapped`) stores the
answer in the object whatever it is bound to by then. What a product id resolves to before the
first cart call is `StorefrontCatalog`; prices and texts are left out.

### StorefrontCatalog

`cache` is the backend's `products`, `variant_of`, `default_variants` and each session's
`default_variant`; `task[t]` a call of a tool or route and the request it waits for. A request
is two steps: `Answer` (the shop) and the action that reads it (`StoreAnswered`,
`RecordAnswered`, `StoreAnsweredAgain`, `ChildrenAnswered`, `RowsAnswered`, `FactsAnswered`,
`CartTakes`). `GetProductDetails`, `GetByTitle`, `SearchProducts`, `AddToCart`, `AskFacts` begin
a call; which of the plugin's tools and the host's own lookups answers `AskFacts` is `Mode`,
decided at startup. A document may name a relative of what was asked for. With `MayFlap = FALSE` the Store
API, once it failed within a call, stays away for the rest of that call.

### UcpWire

One operation: `CallUcp`, then per transport `Send` or `NoRoute`, `Resend` after a transient
answer, `FallBack` to the other transport, `Return`. `Wire` translates the operation into an MCP
tool call (`McpTool`, `McpArguments`) or a REST request (`RestRequest`), `Sign` and `Verify` are
`http_signing`, `ReadMcp`, `ReadRest`, `UnwrapEnvelope`, `MaybeDocumentError`,
`ClassifyMcpError`, `Verdict` read answers back. The shop's `RestEffect` and `McpEffect` say
what a request does.

### IdentityLinking

One session: `linked` names its link object, as `_linked` does; a call keeps the object it found. `SignIn`,
`Authorized`, `Link`, `Attach`, `SignInFails`, `SignOut` are the sign-in and out, `Bearer`,
`RefreshPerformed`, `RefreshAnswered`, `RefreshFails`, `Answered`, `AuthRefused` a call with the
customer's token, `TokenAges` time.

### HandoffRedemption

`Click` mints a code (`Issue`) for a browser, `Forward` carries the page's link to another one;
a browser may submit a code it holds again and again. `Submit`, `Purge`, `Insert`, `Continue` are
the controller and the store, one SQL statement per action. `work[w].now` is the worker's clock when it verified. `offset` is how far
the host's clock is from the shop's.

### TurnScorers and EvalRuns

A scorer is an operator on an `Outcome` record. `EvalRuns` has one task per case: `Begin`,
`BuildHarness`/`BuildFails`/`ImportFails`, `SeedSnapshot`/`SeedRefused`/`Unresolved`, the turn
(`ApplyChange`, `DiscardChange`, `StageChange`, `AddToCart`, `RemoveFromCart` through the
overlay), `EndTurn`, `TurnRaises`, `TimeOut`, `Grade`, `Close`, `FinishAttempt`, then `Report`
with the gates (`GatePasses`) or, with `--no-gate`, without them, and `main`'s exit code
(`ExitCode`). `Cancel` is the end of the process.

### ShopBootstrap

`Calls` is the sequence of requests and commands a run makes; each is an action that looks for
its row and writes what is missing (`EnsureCategory`, `UpsertProduct`, `PlaceOrder`,
`EnsureIntegration`, …). `Fails` is a request that is not performed or whose answer is lost,
`Stop` the end of the run, after which it starts over; `Staff…` and `DropVolume` happen between
two runs.

## 3. Runs

| run | bounds | shows |
|---|---|---|
| `workflow_safety` | 2 requests, 2 changes, 2 applies, 1 sale, crashes, lost answers | `Bookkeeping`, `ExactlyOnce`, `StockAccounted`; implements `ChangeLifecycle` |
| `workflow_liveness` | 2 requests, 1 change, 2 applies, every fault | `EveryRequestAnswered` |
| `merchant_host` | 2 changes, 2 edits or faults, a family of two variants and a plain product, two currencies, seven requests; 3 orders, days 30 and 35, windows of 3 and 7 days, 1 later move; 3 products on pages of 1, five plans of one or two payloads, 2 edits, 1 lost answer per write; 2 changes, 3 messages; 2 connections, 2 faults | `FamilyRepriced`, `ShownIsWritten`, `NothingLeftBehind`; `ChartAddsUp`, `MissedOnlyBehindNewer`; `PreviewForesees`, `VerdictsAreTrue`, `RefreshMissesOnlyBehindRemoved`; `AppliedWasApproved`, `NothingSlipsPast`; `ToolsFindAWarmBackend` |
| `mcp_session` | 3 tasks, 3 calls, 2 forgotten sessions, 2 faults | `OneCallAtATime`, `ReplaysAreSafe`, `CallsEnd` |
| `portal_session` | 1 chat turn at a time, 2 buttons, 5 requests | `RepliesFollow`, `NotesReachTheModel`, `ResetIsFinal` |
| `shop_plugins` | 2 codes, 2 workers, 2 browsers, clocks of -1 to 2 around a skew of 1; 2 tool calls at once, 2 changes, 2 applies, 1 sale, 1 fault | `RedeemedOnceInTime`, `ClocksAreTolerated`, `CustomerKeepsTheCart`; `RowsTellTheWrites`, implements `ChangeLifecycle` |
| `decision_overwritten` | the ledger of `shop_plugins` | **violated**: `NeverReopened` |
| `storefront_cart` | 2 operations at once of 3, 2 carts besides the customer's own, 2 faults | `TicketNamesTheCart`, `ChangesCountOnce`, `LivingCartIsKept` |
| `storefront_host` | 2 calls at once about a product with two sizes and one without, 1 change of stock; 2 calls and 2 sign-ins of 2 customers, 4 tokens; every UCP operation over both transports, clocks up to 2 minutes apart | `WhatIsAsked`; `StoredTokenIsTheirs`, `SignedOutStaysOut`; `AskedIsDone`, `ResendingIsSafe` |
| `catalog_flap` | the catalog of `storefront_host` with `MayFlap` | **violated**: `WhatIsAsked` |
| `eval_runs` | 4 cases in three selections, 2 trials of 2 attempts, 2 at once | `GreenMeansSafe`, `RunEnds` |
| `shop_bootstrap` | 3 runs, 2 faults, 1 change in between | `FinishedIsVerified`, `HistoryIsSeededOnce`, `HostsAreNotCutOff` |

`catalog_flap`: when the first request about a size fails and the next one within the same call
succeeds, `_enrich_variants` lists the children of the size's *parent* and files them under the
size: its siblings become its sizes, and adding the size puts a sibling into the cart. The test
that says this never happens is quoted in `PROJECT.json`.

`decision_overwritten`: two calls find a change staged, one applies it, and the other sets
`discarded` over `applied`. The comment of the state machine says that both are terminal; the
machine is asked about the row each call loaded. Two applies may also both write the change.

### Bounds

`MaxChanges`, `MaxApplies`, `MaxSales` and the like cap ids, calls and environment steps. Two
suffice for each pair the properties speak of: two changes of one product, two applies of one
change, a sale between a read and a write, two edits around a preview. In `ChangeWorkflow` one
row of each id may go bad. In `StorefrontCart` three operations let a slot be reused after two
overlapped; two faults let an edit and a repeated call, or a repeated call and an expired cart,
fall together; a call is sent at most twice, since the code's third and fourth attempts do
nothing to a cart the second does not (`UcpWire` has all four). In `McpSession` three tasks are
needed: one calls, one replays, one finds no session; two faults are two transient answers,
after which a call may have been performed three times. In `PortalSession` a turn loses the race
twice only with two buttons. `HandoffRedemption` takes `Ttl = ClockSkew = 1`, so that a code has
a second of validity, a second of tolerance and one beyond it within `MaxClock = 3`. In
`MerchantDashboard` the windows of 3 and 7 days from days 30 and 35 cut a week and a month, and
`Limit = 1` makes every search overflow with two orders. In `UcpWire` minutes stand for seconds:
`Lifetime = 2`, `Tolerance = 1`, a flight of up to 3. In `ShopBootstrap` two of three sizes and
one of four pages are seeded; three runs allow a stop, a second stop where the first was
repaired, and a finish. The bounds end behaviours, so deadlock is checked only where something
can always go on: `workflow_safety`, `workflow_liveness` and `merchant_host`.

### Fairness

- `EveryRequestAnswered` assumes weak fairness of `Proceeds(r)`: asyncio runs every ready
  handler, and every HTTP call ends because the clients have timeouts. A lost answer, a re-post
  and a restart are allowed, never relied on.
- `CallsEnd` (`McpSession`) assumes weak fairness of every task's `Step`: the event loop, the
  HTTP client's timeout for a call nobody answers, and locks that are handed to a waiting task.
- `RunEnds` (`EvalRuns`) assumes weak fairness of a case's `Progress` and of `Report`: each
  attempt is cut by `TURN_TIMEOUT_S`, and their number by `MAX_ATTEMPTS`.

Everything else is safety, under no fairness.

## 4. Theorems

| theorem | says | assumes |
|---|---|---|
| `TypeCorrect` | `ChangeWorkflow!TypeOK` always | the assumptions on the constants |
| `StockAccountedAlways` | `StockAccounted` always | the same |
| `BookkeepingAlways` | the inductive invariant | also `~RowsMayGoBad` |
| `LedgerMatchesDiskAlways`, `IdsOnceAlways`, `AppliedHasLandedAlways`, `ExactlyOnceAlways` | the safety properties | also `~RowsMayGoBad` |
| `Refinement` | `Spec => Lifecycle!Spec` | also `~RowsMayGoBad` |
| `SettledIsFinalAlways` | `SettledIsFinal` | also `~RowsMayGoBad` |
| `HandoffInvariant` | the inductive invariant of `HandoffRedemption` | lifetimes and clocks are numbers |
| `OneRedemption`, `TolerantClocks`, `RefusalsSpendNothing`, `CustomersCartStays` | the properties of the codes | the same |
| `McpInvariant`, `McpTypes` | the inductive invariant of `McpSession`, its types | bounds are numbers, `"none"` is no task |
| `CallsAreSerialised`, `ReplaysHold` | `OneCallAtATime`, `ReplaysAreSafe` | the same |
| `AddsSendWhatIsAsked` | `WhatIsAsked` of `StorefrontCatalog` | `~MayFlap`; a size is of one product |
| `IdentityInvariant`, `LastCustomersToken`, `SignedOutUntilSignIn` | the inductive invariant of `IdentityLinking`, `StoredTokenIsTheirs`, `SignedOutStaysOut` | nothing |
| `CartInvariant`, `CartTypes` | the inductive invariant of `StorefrontCart`, its types | bounds are numbers, there is a variant |
| `TicketsLead`, `ChangesHold`, `LivingCartStays` | `TicketNamesTheCart`, `ChangesCountOnce`, `LivingCartIsKept` | the same |
| `StagedInvariant`, `WritesMatchRows` | the inductive invariant of `StagedChanges`, `RowsTellTheWrites` | bounds are numbers, finitely many tool calls at once |
| `StagedRefinement` | `LedgerSpec => Lifecycle!Spec`, decisions counted once no call handles the change | the same |
| `PortalTypes`, `ResetStays` | the types of `PortalSession`, `ResetIsFinal` | bounds are numbers, no slot is both a turn's and a button's |
| `RepliesFollowTheirQuestion`, `NotesReach`, `StoredMessagesAreKept` | `RepliesFollow`, `NotesReachTheModel`, `MessagesAreKept` | also `OneTurn` |
| `RollbackIsComplete` | `NothingLeftBehind` of `WritePlans` | bounds are numbers, family and plain product are no variants |
| `FamiliesAreRepriced`, `ShownChangesAreWritten`, `RestocksAreDeltas` | `FamilyRepriced`, `ShownIsWritten`, `RestockIsADelta` of `WritePlans` | also `RequestsAssumption`: finitely many variants; requests name products of the catalog, fields of their tool and no price of 0 |
| `VerdictsHold`, `PreviewsHold` | `VerdictsAreTrue`, `PreviewForesees` of `AdminAccess` | payloads are of the three entities the tools stage |
| `RefreshesAreComplete` | `RefreshMissesOnlyBehindRemoved` | pages are not empty, the shelf is a list without repetition |
| `NothingUnasked`, `AppliesAreApproved` | `NothingSlipsPast`, `AppliedWasApproved` of `ConsoleApproval` | finitely many changes |
| `UntouchedOrdersAreReported` | `MissedOnlyBehindNewer` of `MerchantDashboard` | `DashboardAssumption`: numbers are numbers, a search returns one order at least |
| `ChartsAddUp` | `ChartAddsUp` of `MerchantDashboard` | also `MonthsAssumption`: the calendar has the month a window begins in |
| `ToolsRunWarm` | `ToolsFindAWarmBackend` of `HostedTools` | "nobody" is no connection |
| `ShopDoesTheAsked`, `ResendsAreSafe` | `AskedIsDone`, `ResendingIsSafe` of `UcpWire` | the signer's lifetime is in range, lists of ids are finite |
| `BootInvariant`, `HistoryOnce`, `NobodyIsCutOff` | an inductive invariant of `ShopBootstrap`, `HistoryIsSeededOnce`, `HostsAreNotCutOff` | the plan is a list of strings |
| `FinishIsVerified` | `FinishedIsVerified` of `ShopBootstrap` | the same |
| `EvalInvariant`, `EvalTypes`, `GreenRunsAreSafe` | an inductive invariant of `EvalRuns`, its types, `GreenMeansSafe` | suites are finite sets of cases, `SafetyAssumption` |

*Workflow* (`ChangeWorkflowProofs`). They hold for any sets of products, requests and quantities, any bounds, and with or
without crashes and lost answers. `~RowsMayGoBad` is needed, not convenient: a row that does not
parse is skipped together with its number, which is then handed out again. `StockAccounted` is
not inductive, since it says nothing of the level a waiting write builds on; `BaseIsCurrent` adds
that each pending or abandoned restock of a product that did not race builds on the live stock:
whoever moves the stock marks the product as raced if a restock is still pending (`Moves`).
`Bookkeeping` says that memory equals disk while the host is up (`MemoryIsDisk`), that stored ids
are 1 .. n and memory knows n (`IdsInOrder`), that an applying request names a stored change with
a plan (`RequestsCarry`), and that a change nobody disturbed has one request at most, staged
until it commits, and has landed exactly when the request stands behind its write
(`OneAtATime`). One step lemma per action shows it preserved; the properties are consequences.
For the refinement the durable rows are the abstract status; every step but `StageAccepted`,
`CrashInStage`, `ApplyCommitted` and `Discard` leaves it alone, and these are `Stage` or
`Decide`, because memory, which the guards read, agrees with disk.

*Handoff* (`PluginProofs`). For any codes, browsers, workers, lifetimes and offsets of the clocks.
`RedeemedOnceInTime` says that at most one acceptance of a code falls in its lifetime, and that
every acceptance, whenever its insert comes, is of a worker whose clock, when it verified, was within it.
It does not say that a code is accepted once: a worker that verified in time and inserts late is
accepted after another one (`AcceptedOnce`, section 6). To be inductive it needs to know why a second
insert fails in time. `HandoffInv` adds that a code used and not expired still has its row
(`UsedHasRow`: a purge deletes only what has expired by the clock it read, which is never ahead),
that a worker past the first check belongs to a browser nobody is logged in on
(`NobodyLoggedIn`: PHP locks the session for the length of a request), and that what a worker
holds passed the window when it was read (`CheckedInTime`). `OnlyAcceptanceSpends` is part of it.

*MCP client* (`McpProofs`). For any tasks, calls, forgotten sessions and faults. `OneCallAtATime`
rests on who holds which lock in which phase (`Locks`): a call that runs at the server and was not
given up belongs to the holder of `_io_lock`. `ReplaysAreSafe` needs the numbering of the calls,
how often a holder may still post (the replay on a new session counts its posts anew, hence three
and not two), and what a task may rely on after its handshake: as long as the server forgot
nothing since, the client's session is one the server knows.

*Identity* (`StorefrontHostProofs`). For any customers, sign-ins, calls and lives of tokens. A refresh
writes into the link it read before its await, so `StoredTokenIsTheirs` alone is not inductive.
`LinksAreTheirs` follows every token to a sign-in: the n-th link holds a token issued to the n-th
customer who signed in, and so do both tokens of every refresh of that link.

*Cart* (`CartProofs`). For any variants, operations, carts and faults. `Bindings` says that an
operation under way works on the session's cart unless a binding changed under another operation
(`crossed`); it needs `CartsExist`, that nothing names a cart the shop has not made. `Counts` says
of a cart that it holds what was asked for, and of an operation nobody disturbed that what it read,
or is about to write, is the cart as it stands and its own change. `SentOnce` says where an
operation waits while no call was sent twice, `OneAnswer` that over MCP one answer at most then
waits to be worked up, and `Current` that such an answer, or with none waiting the host, knows the
lines of the cart.

*Plugin* (`PluginProofs`). For any products, drafts and bounds, and any finite number of tool calls that
overlap, fail and die. The calls that handle a change are those that may still write it (`Open`) and
those that have written and not yet said so (`Wrote`). `Tally` is a sum for each row: writes kept (whose
worker was not lost) and calls that may still write are together never more than the most calls that
were there at one moment, because a row is found only while it is staged, and it stays staged only until
the first call says what it did; while it is staged every kept write has a call that stands behind it, once it says
applied some call that wrote has gone, and once it says discarded one that did not. Every step of the
ledger is of one of seven kinds (`Kinds`): nothing of it moves, a call without a change walks on, a row
is created, a call takes a change, goes on with it, writes it, or leaves it. For the refinement a change is decided by the
step with which its last call leaves; every other kind is `Stage` or a stutter.

*Portal* (`PortalProofs`). For any buttons, resets, requests and replies. `ResetStays` holds for any
number of turns at once: after a reset with no turn under way no request can write, since its
version is not 0, and no turn can begin (`Gone`). The other three assume `OneTurn`, one turn of a
session at a time, which is what the page does (`vendor/web-shared/turn.ts:499` sends nothing while
a turn is busy); the store does not enforce it, and section 6 says what two turns do. `RepliesFollow`
looks at what is stored only. `Stored` adds what a turn is about to store: its record ends with its
one question, and the transcript is the record up to it, or empty after a reset (`Continues`), so
the cut of `write_messages` always falls between a question and its reply or at the beginning.
`NotesReachTheModel` needs why a save drops no note: a record whose version is still the stored one
carries the stored notes (`Loaded`), a note a turn's second save overwrites was saved while it
streamed, and what a question carries is neither pending nor told before it is stored (`Reached`);
replies tell nothing (`Telling`). All of it is lost at a reset, as the property says. `Retained` adds,
for `MessagesAreKept`, that a turn's record has every message that is stored, in case its results
were cleared and it is written from the beginning.

*Write plans* (`MerchantProofs`). For any catalog, requests and bounds. That a roll-back leaves nothing
behind is said of its end; `RollbackInv` adds where the writer stands (`Standing`), that a promotion
still staged has nothing in the shop (`FreshStart`), that whatever a promotion under way left there is
remembered, or was answered with an error, or could not be deleted (`Remembered`), and that nothing
that is there was reported as deleted (`ReportSoFar`).

The other three speak of a write and of a staging several steps before it, with edits, sales and refreshes
in between, and of three folds. `UpsertInOrder` gives the upsert of a payload in closed form: of each field
the last row that sets it counts (`Upserted`); `ElementsFlattened` says that the concatenated rows are those
of the asked items, `RowsAreDrawnUp` which those are. `PlansInv` carries from the staging to the write
that rows and items agree place by place (`RowsShow`): same product, same field, the value shown, for a
price the list found at staging with its EUR amount replaced, for a stock a number the rebase has replaced.
With `UpsertInOrder` that is `ShownIsWritten` (`FieldsWritten`). For a price update it also says that the
targets of every price asked for are items, and that there are no others (`PricesAsAsked`), so the variants without a
price of their own have no item, keep inheriting, and their family is priced (`WritesThePrice`).
`FamilyRepriced` excepts a change that asks two prices within one family: of a family and its variant
the later one counts. `RestockIsADelta`, which no run keeps, is about the read before the write: what is sold between the two
is overwritten, like the other restock in section 6.

*Merchant access* (`MerchantProofs`). For any products, plans, page sizes and bounds. A verdict is
computed on the store of one moment and read at a later one. `Foreseen` and `Met` keep of that store
what the verdict depends on, the rows a payload refers to (`VerdictDependsOnFound`): a store exists in
which they are as they were and that gives the verdict. A refresh reads page after page while
products come and go: `BehindThePages` counts, for each product that was there from the beginning with
nothing removed before it, its rank among the products that are there; removal behind it and additions
never lower it below what the pages read so far hold, and `BehindTheParked` says the same of a page
whose result is parked. For the console `ListIsComplete` says, while questions are asked, that each
staged change was asked about, waits in the list, or was staged too late for it, and
`MarkIsOfThisTurn` that a mark never outlives the turn of its yes. For the tool server
`LockIsWithTheWarmer` and `ReadSoFar` say what each place of the warm-up has read.

*Readings* (`MerchantProofs`). For any orders, days, windows and limits. The three searches of a reading see
the shop at three moments. `ReadingInv` says of each search made that an untouched order it would find
now is in its result or behind `Limit` newer ones that are (`NoneMissed`; a cut search leaves out nothing
else, `CutBehindNewer`), and that the row kept for an untouched order is the order as it stands
(`RowsStand`), whichever search brought it.

A chart and its totals are sums over different orders' days. `SumIsCount` turns a sum of numbers into the
cardinality of a set of units (`Units`), one for each unit of each addend; then the sum over disjoint parts
is the sum over their union (`PartsCount`). What has to be shown of the calendar is that every day of a window falls into exactly one
of its buckets, cut weeks and months included (`DaysHaveBuckets`), and that the two windows compared meet
(`TwoWindows`). `ChartInv` says that what a reading took holds of the orders as they stand until one is
touched (`TakenStands`, `ShownStands`), and that a window begins in a month of the calendar.

*Catalog* (`StorefrontHostProofs`). For any products, sizes, sessions and calls, without `MayFlap`
(`catalog_flap` shows that it is needed). A call decides by a cache that other calls rewrite while it
waits, and rewrites it itself from answers to questions it asked earlier. `CatalogInv` says that the
cache is true (`WellKept`): what is filed under a product are sizes of it, `variant_of` names a size's
product, a default is a size of what it stands for, and a product recorded with sizes stands for one.
And it says what a waiting call carries, by the request it waits for (`Stands`): the answer is about
the id the request named, the document kept from the Store API is about the same one, and children are
asked for of a product only. `SendsAsked`, the property, is shown where a call goes on to the cart
(`Onward`). A call whose first look-up failed sends the id it was given; that no family comes back from
a cart as a line is the shop's doing (section 5).

*UCP wire* (`StorefrontHostProofs`). For any operations of the shop's vocabulary, any clocks and flights.
What is under way is what was asked, as this transport writes it, signed when it was sent
(`SentAsAsked`); the shop did nothing but that, under the key of the transport it came over, and once
per key (`PerformedAsAsked`, `KeysCountOnce`); a document answers work done under its key. That each
transport's writing of an operation is read back as that operation is a lemma by cases over the
operations.

*Bootstrap* (`ToolingProofs`). For any plan and bounds. A run decides by what it holds in hand, which
it read several steps before. `BootInv` says that this agrees with shop and host: the handoff secret
(`SecretInHand`), the key to keep, which is an active one and the default one if there is one
(`KeyInHand`), the credentials, which are the ones that open the shop if any do (`CredentialsInHand`),
and the order under way, which is the last one (`OrderInHand`). `ShortOfStops` counts one order short of
its date or state per stopped run at most. Most operations only file rows; one lemma (`PlainKeeps`)
serves them all, the others have one each.

`FinishIsVerified` takes the seed itself. `ShopWell` is true of the shop at any time, whoever wrote
last: each row is where its call puts it and under the row of that call's parent, with one row per
name, one price per method and no id twice (`RowsWell`); the roots that the channel names and the
roles that an integration has are there. `Behind` is true within a run: each call up to `pc` has its
row as it wants it and under its hand (`RowsDone`), and what the other calls were to bring about is
there (`Signed` for secret, keys, agent key and cache, `Linked` for the channel, `Credited` for orders,
integration and files). `SeedInv` joins both with `BootInvariant`'s invariant, and behind the last
call they are `InOrder`. A run may begin on any shop that is `ShopWell`: that is why it finishes after
any number of runs that stopped, after changes of staff, and on a volume that was dropped.

*Evaluations* (`ToolingProofs`). For any cases, suites, agents, faults and numbers of trials and
attempts; `SafetyAssumption` is what `evals/cases` and `gates.yaml` hold to: a case tagged `safety`
looks at each change the host approved with `change_not_applied`, and its floor is 100 percent. A green
exit code is computed from verdicts, of which the agent's deed is several steps away. `InTurn` says that
the outcome of a turn carries the ledger of its own harness, where what was applied was approved and
stays applied; so the case's look at it fails (`AppliedIsSeen`), the trial is no pass (`Clean`), a case
that is done and was not skipped has all its trials (`Stage`), and a floor of 100 lets none of them fail
(`FullRate`). An attempt that is repeated starts on a harness of its own and takes no deed with it.

Only model-checked:

- `EveryRequestAnswered`, `CallsEnd`, `RunEnds`: liveness under fairness, out of the prover's reach;
- what the scorers compute: `GreenMeansSafe` and its theorem speak of what a run does with their
  verdicts, and rest on one of them, `change_not_applied`.

The library's induction theorems take an operator as a parameter, which the provers cannot instantiate.
The few facts about folds the theorems need (`RunningSum`, `UpsertInOrder`, `FlatteningExists`,
`ElementsFlattened`) are proved by a least counterexample instead: among the natural numbers at which a
formula fails there is a least one (`LeastPlace`), and the step before it contradicts it.

## 5. What the models take from outside

- The upstream `ChangeLedger` class is not in the repository. Its `apply` and `discard` are
  taken to refuse a change that is not staged, as `ledger.py` ("lifecycle and guardrails") and
  `vendor/demo_common/tests/contract.py:579` say. Nor is the executor of the merchant tools:
  `apply_change` succeeds only for a change the conversation has met and, with host approval,
  under the host's mark.
- The shop performs a write entirely or not at all, stores a restock as an absolute level, and
  may perform a call after its caller gave up. `update_cart` replaces all lines; `create_cart`
  makes a new cart each time it is performed: the fallback's idempotency key is a new one. A
  request under one `Idempotency-Key` is performed once. A cart takes sizes and products without
  sizes, never a family (`shopware-variants`: "the parent itself is not sellable").
- SQLite commits are atomic and durable; a crash may fall between two of them. A ledger file
  belongs to one host or console.
- PHP locks a browser's session for the length of a request; the table of consumed codes has a
  unique key.
- Codes, states, tokens, keys and secrets cannot be guessed; a signature covers what it says.
- In `ShopBootstrap` a key's id is unique in its channel, and generating one refuses an id that
  is taken.
- In `WritePlans` an amount of 0 stands for no price, so none is asked for; a listing update names
  fields of `LISTING_FIELDS`, which has no stock.

## 6. Disagreements met

Where the repository says something the code does not do. The definitions named are in the
modules and can be checked as invariants or properties; no run keeps them, except for
`catalog_flap` and `decision_overwritten`, which TLC must find violated.

- *Two restocks* (`staging.py:10` "both count", `RestocksBothCount`): two applies read the same
  live level before either writes; the second absolute write overwrites the first.
  `StockAccounted` is what holds. Two rows for one product in one restock keep the last delta
  only (`BothRowsCount` in `WritePlans`).
- *"It is still staged"* (`shopware_backend.py:834`, `StillStagedIsTrue`): said after a failed
  write without reading the status again, although a discard decided the change meanwhile. The
  plugin's `ChangeApplyTool.php:86` says the same when only the update of the status failed.
- *Refusals write nothing* (`merchant/README.md:181`, `RefusalsWroteNothing`): two applies of one
  change both write; the second is refused afterwards.
- *Ids never handed out twice* (`ledger.py:9`): not if a row is unreadable (section 4).
- *Tickets are revoked whenever the binding changes* (`storefront/api/handoff.py:42`,
  `TicketsRevoked`): a first `add_to_cart` is under way when the page attaches another cart; the
  creation's answer rebinds the session and hands out a ticket, then the attached cart's read
  arrives and `_map_cart` binds that one, revoking nothing. `TicketNamesTheCart` holds as long as
  no binding changed under another operation. It happens over MCP as well as REST.
- *One cart per session* (`shopware-mapping.md:85`, `OneCartPerSession`): two first additions at
  once create two carts; the session keeps the second.
- *A code is accepted exactly once* (`ContinueController`, `AcceptedOnce`): a worker that takes
  longer than the rest of a code's life between its check and its insert finds the row purged.
- *Applied and discarded are terminal* (`StagedChangeStateMachine.php:7`, `NeverReopened`): two
  calls of the plugin's tools decide a change twice, and two applies write it twice
  (`decision_overwritten`). `RowsTellTheWrites` and `StagedRefinement` are what holds.
- *Calls follow `notifications/initialized`* (`McpSession`, `CallsAfterHandshake`): a task that
  waited for `_io_lock` uses a session another task's handshake has not announced yet. And after
  a failed second handshake a queued call goes out without a session.
- *A stored message stays* (`PortalSession`, `MessagesAreKept`): with two turns of one session at
  once the later write-back cuts the transcript at the length it loaded. With one it is a theorem.
- *A replayed request must not look new* (`ucp_client.py:318`, `mcp_client.py:391`): `created` is
  in whole seconds and the pause half a second, so a re-post may carry the same value. A redirect
  keeps the signature made for the old target. A JSON-RPC internal error falls back although "a
  transport that answers never falls back", so an operation may be performed once on each.
- *One cart discount* (`staging.py`, `promotion_payload`): a promotion applied again after a lost
  answer gets a second one. The rollback of a promotion leaves its nested rule.
- `catalog.py:235` says `fresh()` feeds what a change shows as before: the prices of inheriting
  variants and the status items come from the cache. `merchant/api/shopware_backend.py:12-19`
  describes staging through the plugin's tools, which the backend only detects.

Behaviour a reader may not expect, promised otherwise by nobody: a failing refresh or a refused
call drops a link made meanwhile, and of two sign-ins at once one may leave its customer's link
with the other's cart; a sold-out check is passed when a slower look-up without sizes overwrites
the product; a known size's availability is read again only with its family; the default size of
a session wins over a newer one of the host; two policy searches at once may replace a live index
by the fallback copy; two catalog refreshes at once: the last to end wins; a payment that is
tried again stays a payment problem; a change staged in an approved turn is asked about after the
operator's next turn; in live mode a retried trial runs against a shop its first attempt wrote;
"any" in `change_applied` and `change_discarded` does not compare with the state before; an order
placed before bootstrap stopped keeps its wrong date or state; a shop whose secret alone changed
is not repaired by bootstrap; console commands that list, retire or delete keys are not asked
whether they worked.

## 7. Not modelled

- *Merchant*: the OAuth token of the integration (`OAuthTokenProvider`), conversion of search
  criteria, aggregations of the local store and its demo data, texts, labels and currencies of
  figures, the cache of recent orders.
- *Storefront*: orders, preferences, fulfilment options and disclosures as texts, prices and
  pictures, the rows of variants `/store-api/search` files as products of their own, the bytes
  of a signature (cryptography), the discovery of profiles.
- *Plugin*: the sales and inventory reports, which only read.
- *Consoles*: the storefront's console, which forwards lines, and the agents and their prompts.
- *Evaluations*: patterns and number formats of the text scorers, fixtures, the layout of
  reports; the judge's marks are any.
- *Bootstrap*: images, plugin installation, the stand-alone checks (`verify.sh`'s own requests;
  `verify_state.py` is `VerifyState`), a handoff secret that is too short, two bootstraps at once.
- *Browser demo, web user interfaces, Claude Code plugin, docs*: presentation and packaging.

What is left: the scorers as functions, proved against a definition of their own.
