------------------------------- MODULE UcpWire -------------------------------
(***************************************************************************)
(* One UCP operation on its way to the shop (UcpClient.call_ucp): written  *)
(* as an MCP tool call or as a REST request, signed (http_signing), sent   *)
(* once more after a transient answer, then over the other transport, and  *)
(* the shop's answers read back.  The shop checks the signature against    *)
(* its own clock and performs a request under one idempotency key once.    *)
(***************************************************************************)
EXTENDS Integers, Sequences, FiniteSets

CONSTANTS
  Asks,         \* the operations asked for: [op, id, under, beside, ids, one, query, filters, lenient]
  Skews,        \* how far the shop's clock may be ahead, in minutes
  Lifetime,     \* RequestSigner.lifetime_seconds, in minutes
  MaxLifetime,  \* MAX_LIFETIME_SECONDS, in minutes
  Tolerance,    \* the clock difference verify() accepts, in minutes
  MaxFlight,    \* bound: the minutes a request is under way
  None

Creating   == {"create_cart", "create_checkout"}
Updating   == {"update_cart", "update_checkout"}
Cancelling == {"cancel_cart", "cancel_checkout"}
Getting    == {"get_cart", "get_checkout", "get_order"}
Mutating   == Creating \cup Updating \cup Cancelling \cup {"complete_checkout", "apply_discount"}

Cartlike == {"create_cart", "update_cart", "get_cart", "cancel_cart"}
Collection(op) ==
  IF op \in Cartlike THEN "carts" ELSE IF op = "get_order" THEN "orders" ELSE "checkout-sessions"

McpTool(op) == IF op = "get_product" THEN "lookup_catalog" ELSE op

-----------------------------------------------------------------------------
(* The operation on the wire *)

DocumentAsGiven(a) == IF a.under # {} THEN a.under ELSE a.beside

\* The document under its own key, or what stands beside the id; never the id itself.
DocumentBody(a) == DocumentAsGiven(a) \ {"id"}

LookupIds(a) == IF a.ids # {} THEN a.ids ELSE IF a.one # None THEN {a.one} ELSE {}

IsOneProduct(a) == a.op = "get_product" /\ Cardinality(LookupIds(a)) = 1

Rest(method, path, body) == [method |-> method, path |-> path, body |-> body]

RestRequest(a) ==
  LET place == Collection(a.op) IN
  CASE a.op = "search_catalog" ->
         Rest("POST", <<"catalog", "search">>, [query |-> a.query, filters |-> a.filters])
    [] IsOneProduct(a) ->
         Rest("GET", <<"catalog", "product", CHOOSE id \in LookupIds(a) : TRUE>>, None)
    [] a.op \in {"get_product", "lookup_catalog"} /\ ~IsOneProduct(a) ->
         Rest("POST", <<"catalog", "lookup">>, LookupIds(a))
    [] a.op \in Creating -> Rest("POST", <<place>>, DocumentBody(a))
    [] a.op \in Getting -> Rest("GET", <<place, a.id>>, None)
    [] a.op \in Updating -> Rest("PATCH", <<place, a.id>>, {"id"} \cup DocumentBody(a))
    [] a.op \in Cancelling -> Rest("POST", <<place, a.id, "cancel">>, {})
    [] a.op = "complete_checkout" -> Rest("POST", <<place, a.id, "complete">>, DocumentBody(a))

\* The discount has no REST route.
OnlyOverMcp(a) == a.op = "apply_discount"

Nothing == [id |-> None, payload |-> {}, ids |-> {}, query |-> None, dryRun |-> FALSE]

McpArguments(a) ==
  CASE a.op = "search_catalog" -> [Nothing EXCEPT !.query = a.query]
    [] a.op \in {"lookup_catalog", "get_product"} -> [Nothing EXCEPT !.ids = LookupIds(a)]
    [] a.op \in Getting \cup Cancelling -> [Nothing EXCEPT !.id = a.id]
    [] a.op \in Creating -> [Nothing EXCEPT !.payload = DocumentBody(a)]
    [] a.op \in Updating \cup {"complete_checkout"} ->
         [Nothing EXCEPT !.id = a.id, !.payload = DocumentBody(a)]
    [] a.op = "apply_discount" -> [Nothing EXCEPT !.id = a.id, !.payload = {"code"}]

\* The URL, method and body that go out, whichever transport carries them.
Wire(t, a) ==
  IF t = "mcp" THEN Rest("POST", <<"mcp">>, [tool |-> McpTool(a.op), arguments |-> McpArguments(a)])
  ELSE RestRequest(a)

-----------------------------------------------------------------------------
(* http_signing: a signature stands for the method, the URL, the digest of *)
(* the body and its own dates; what it stands for is what was signed.      *)

Sign(wire, created) ==
  [over |-> wire, created |-> created, expires |-> created + Lifetime]

Verify(wire, signature, now) ==
  /\ signature.over = wire
  /\ signature.created <= now + Tolerance
  /\ signature.expires >= now - Tolerance
  /\ signature.expires - signature.created <= MaxLifetime

-----------------------------------------------------------------------------
(* The shop, as far as src/ relies on it *)

Effect(does, on, doc, ids, query, filters) ==
  [does |-> does, on |-> on, doc |-> doc, ids |-> ids, query |-> query, filters |-> filters]

RestEffect(w) ==
  LET head == w.path[1]
      last == w.path[Len(w.path)]
      named == CASE head = "carts" -> "cart" [] head = "orders" -> "order"
                 [] OTHER -> "checkout"
      verb == CASE w.method = "GET" -> "get_" [] w.method = "PATCH" -> "update_"
                [] w.method = "POST" /\ last = "cancel" -> "cancel_"
                [] w.method = "POST" /\ last = "complete" -> "complete_"
                [] OTHER -> "create_"
  IN CASE head = "catalog" /\ w.path[2] = "search" ->
            Effect("search_catalog", None, {}, {}, w.body.query, w.body.filters)
       [] head = "catalog" /\ w.path[2] # "search" ->
            Effect("lookup_catalog", None, {}, IF w.method = "GET" THEN {last} ELSE w.body,
                   None, {})
       [] OTHER ->
            Effect(<<verb, named>>, IF Len(w.path) > 1 THEN w.path[2] ELSE None,
                   IF w.method = "GET" THEN {} ELSE w.body \ {"id"}, {}, None, {})

\* The same names for what a tool does: the verb and the kind of document.
Spoken ==
  [create_cart |-> <<"create_", "cart">>, update_cart |-> <<"update_", "cart">>,
   get_cart |-> <<"get_", "cart">>, cancel_cart |-> <<"cancel_", "cart">>,
   create_checkout |-> <<"create_", "checkout">>, update_checkout |-> <<"update_", "checkout">>,
   get_checkout |-> <<"get_", "checkout">>, cancel_checkout |-> <<"cancel_", "checkout">>,
   complete_checkout |-> <<"complete_", "checkout">>, get_order |-> <<"get_", "order">>,
   search_catalog |-> "search_catalog", lookup_catalog |-> "lookup_catalog",
   get_product |-> "lookup_catalog", apply_discount |-> "apply_discount"]

McpEffect(w) ==
  LET args == w.body.arguments IN
  Effect(Spoken[w.body.tool], args.id, args.payload, args.ids, args.query, {})

\* A tool call with dryRun performs nothing.
Performs(t, w) ==
  IF t = "rest" THEN {RestEffect(w)} ELSE IF w.body.arguments.dryRun THEN {} ELSE {McpEffect(w)}

\* RequestSigner.__init__ refuses any other lifetime; a list of ids is finite.
ASSUME WireAssumption ==
  /\ MaxLifetime \in Nat /\ Lifetime \in 1 .. MaxLifetime
  /\ Tolerance \in Nat /\ MaxFlight \in Nat /\ Skews \subseteq Int
  /\ \A a \in Asks : a.op \in DOMAIN Spoken /\ IsFiniteSet(a.ids) /\ a.lenient \in BOOLEAN

-----------------------------------------------------------------------------
VARIABLES
  ask,        \* the operation asked for
  first,      \* UcpClient.transport
  skew,       \* the shop's clock minus this host's
  clock,      \* this host's clock
  step,       \* "idle", "ask", "flying", "answered" or "done"
  transport,  \* the transport being tried
  retried,    \* the request was sent a second time on this transport
  request,    \* what is under way: [wire, signature, key, sent]
  answer,     \* the shop's answer: what it says and in which shape
  performed,  \* what the shop did, in order: [effect, over, key]
  reply       \* what call_ucp returns or raises

wireVars == <<ask, first, skew, clock, step, transport, retried, request, answer, performed, reply>>

Transports == {"mcp", "rest"}
Other(t) == IF t = "mcp" THEN "rest" ELSE "mcp"
NoRequest == [wire |-> None, signature |-> None, key |-> 0, sent |-> 0]

\* What an answer can say, and the shapes a refusal takes over MCP: an error result, a
\* result whose envelope says success: false, a JSON-RPC error.
Sayings == {"document", "error document", "cart gone", "unauthorised", "busy", "no endpoint",
            "broken off", "envelope failure", "invalid params", "internal"}
McpOnly == {"envelope failure", "invalid params", "internal"}
Silence == "nothing yet"

WireTypeOK ==
  /\ ask \in Asks \cup {None} /\ first \in Transports /\ transport \in Transports /\ skew \in Skews \cup {0}
  /\ clock \in Nat /\ retried \in BOOLEAN
  /\ step \in {"idle", "ask", "flying", "answered", "done"}
  /\ answer \in Sayings \cup {Silence, "turned away"}
  /\ reply \in {"none", "document", "refused", "gone", "auth", "unavailable"}

WireInit ==
  /\ ask = None /\ first = "mcp" /\ skew = 0
  /\ clock = 0 /\ step = "idle" /\ transport = "mcp" /\ retried = FALSE
  /\ request = NoRequest /\ answer = Silence /\ performed = <<>> /\ reply = "none"

\* Any operation, on a host configured for either transport.
CallUcp ==
  /\ step = "idle"
  /\ ask' \in Asks /\ first' \in Transports /\ skew' \in Skews
  /\ transport' = first' /\ step' = "ask"
  /\ UNCHANGED <<clock, retried, request, answer, performed, reply>>

\* rest_request raises before anything is sent.
NoRoute ==
  /\ step = "ask" /\ transport = "rest" /\ OnlyOverMcp(ask)
  /\ step' = "done" /\ reply' = "refused"
  /\ UNCHANGED <<ask, first, skew, clock, transport, retried, request, answer, performed>>

\* One key for the call on this transport, and a signature made now.
Send ==
  /\ step = "ask" /\ ~(transport = "rest" /\ OnlyOverMcp(ask))
  /\ LET wire == Wire(transport, ask) IN
     request' = [wire |-> wire, signature |-> Sign(wire, clock),
                 key |-> request.key + 1, sent |-> clock]
  /\ step' = "flying" /\ retried' = FALSE
  /\ UNCHANGED <<ask, first, skew, clock, transport, answer, performed, reply>>

ResentAnew ==
  [request EXCEPT !.signature = Sign(request.wire, clock), !.sent = clock, !.key = @ + 1]

\* The same request with the same headers, under a fresh signature.
Resent ==
  [request EXCEPT !.signature = Sign(request.wire, clock), !.sent = clock]

Resend ==
  /\ step = "answered" /\ answer = "busy" /\ ~retried
  /\ request' = Resent /\ retried' = TRUE
  /\ step' = "flying" /\ answer' = Silence
  /\ UNCHANGED <<ask, first, skew, clock, transport, performed, reply>>

Minute ==
  /\ step = "flying" /\ clock < request.sent + MaxFlight
  /\ clock' = clock + 1
  /\ UNCHANGED <<ask, first, skew, step, transport, retried, request, answer, performed, reply>>

Heard == Verify(request.wire, request.signature, clock + skew)

TurnAway ==
  /\ step = "flying" /\ ~Heard
  /\ answer' = "turned away" /\ step' = "answered"
  /\ UNCHANGED <<ask, first, skew, clock, transport, retried, request, performed, reply>>

\* Performed, unless this key was performed before; the answer may be lost on its way.
Perform ==
  /\ step = "flying" /\ Heard
  /\ performed' =
       IF ask.op \in Mutating /\ \E i \in DOMAIN performed : performed[i].key = request.key
       THEN performed
       ELSE LET done == Performs(transport, request.wire)
            IN IF done = {} THEN performed
               ELSE Append(performed, [effect |-> CHOOSE e \in done : TRUE,
                                       over |-> transport, key |-> request.key])
  /\ answer' \in {"document", "busy", "broken off"}
                   \cup (IF transport = "mcp" THEN {"internal"} ELSE {})
  /\ step' = "answered"
  /\ UNCHANGED <<ask, first, skew, clock, transport, retried, request, reply>>

Refuse ==
  /\ step = "flying" /\ Heard
  /\ answer' \in (IF transport = "mcp" THEN Sayings ELSE Sayings \ McpOnly) \ {"document"}
  /\ step' = "answered"
  /\ UNCHANGED <<ask, first, skew, clock, transport, retried, request, performed, reply>>

-----------------------------------------------------------------------------
(* Reading the answer *)

\* A document that lists errors is handed on where the caller said so.
MaybeDocumentError(saying) ==
  IF saying = "error document" /\ ~ask.lenient THEN "refused" ELSE "document"

\* {"success": false} fails the call whatever else it carries.
UnwrapEnvelope(saying) ==
  IF saying = "envelope failure" THEN "refused" ELSE MaybeDocumentError(saying)

\* JSON-RPC errors, other than over the parameters, are taken for a missing transport.
ClassifyMcpError(saying) ==
  CASE saying \in {"unauthorised", "turned away"} -> "auth"
    [] saying = "invalid params" -> "refused"
    [] OTHER -> "unavailable"

ReadMcp(saying) ==
  CASE saying \in {"unauthorised", "turned away", "invalid params", "internal", "no endpoint",
                   "busy", "broken off"} -> ClassifyMcpError(saying)
    [] saying = "cart gone" -> "gone"
    [] OTHER -> UnwrapEnvelope(saying)

ReadRest(saying) ==
  CASE saying \in {"unauthorised", "turned away"} -> "auth"
    [] saying \in {"no endpoint", "busy", "broken off"} -> "unavailable"
    [] saying = "cart gone" -> "gone"
    [] OTHER -> MaybeDocumentError(saying)

Verdict == IF transport = "mcp" THEN ReadMcp(answer) ELSE ReadRest(answer)

Settled == step = "answered" /\ ~(answer = "busy" /\ ~retried)

\* The other transport, only when this one is unavailable.
FallBack ==
  /\ Settled /\ Verdict = "unavailable" /\ transport = first
  /\ transport' = Other(transport) /\ step' = "ask" /\ answer' = Silence
  /\ UNCHANGED <<ask, first, skew, clock, retried, request, performed, reply>>

Return ==
  /\ Settled /\ (Verdict = "unavailable" => transport # first)
  /\ reply' = Verdict /\ step' = "done"
  /\ UNCHANGED <<ask, first, skew, clock, transport, retried, request, answer, performed>>

WireNext ==
  \/ CallUcp \/ NoRoute \/ Send \/ Resend \/ Minute \/ TurnAway \/ Perform \/ Refuse \/ FallBack \/ Return

WireSpec == WireInit /\ [][WireNext]_wireVars

-----------------------------------------------------------------------------
(* Whatever the shop performs for a call, over whichever transport and on  *)
(* whichever attempt, is the operation asked for, on the document asked    *)
(* for and with the fields given; only the filters of a search may be      *)
(* missing, which MCP has no room for and callers apply themselves.  And a *)
(* caller is handed a document only for something the shop did, or for a   *)
(* document of errors it said it can read: a tool call that failed inside  *)
(* a well-formed result is never taken for done.                           *)
AskedIsDone ==
  /\ \A i \in DOMAIN performed :
       LET e == performed[i].effect IN
       /\ e.does = Spoken[ask.op]
       /\ e.on = (IF ask.op \in Creating \cup {"search_catalog", "lookup_catalog", "get_product"}
                  THEN None ELSE ask.id)
       /\ ask.op \in Creating \cup Updating \cup {"complete_checkout"} =>
            e.doc = (IF ask.under # {} THEN ask.under ELSE ask.beside) \ {"id"}
       /\ ask.op \in {"lookup_catalog", "get_product"} =>
            e.ids = (IF ask.ids # {} THEN ask.ids ELSE {ask.one} \ {None})
       /\ e.query = (IF ask.op = "search_catalog" THEN ask.query ELSE None)
       /\ e.filters \in {{}, ask.filters}
  /\ reply = "document" => \/ answer = "error document" /\ ask.lenient
                           \/ \E i \in DOMAIN performed : performed[i].key = request.key

(* Sending a request again after a transient answer never has a cart or    *)
(* checkout operation performed a second time over the same transport, and *)
(* the request sent again is heard, like any other, by a shop whose clock  *)
(* is within the tolerance when it arrives within its lifetime.            *)
ResendingIsSafe ==
  /\ step # "idle" /\ ask.op \in Mutating =>
       \A i, j \in DOMAIN performed : performed[i].over = performed[j].over => i = j
  /\ answer = "turned away" => \/ skew \notin -Tolerance .. Tolerance
                               \/ clock - request.sent > Lifetime
=============================================================================
