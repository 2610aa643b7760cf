--------------------------- MODULE StorefrontCart ---------------------------
(***************************************************************************)
(* One shopping session of the storefront host: its cart in the shop, the  *)
(* host's record of that cart, and the checkout ticket bound to it         *)
(* (ShopwareStorefrontBackend and HandoffBroker).                          *)
(*                                                                         *)
(* The host is one asyncio process and keeps no lock per session: a chat   *)
(* turn, the buttons and the page's reads of the cart interleave at every  *)
(* await, and the only awaits are the UCP calls.  A call is sent with the  *)
(* cart id and lines known at that moment, performed by the shop, and its  *)
(* answer is worked up by the host in one step that also sends the next    *)
(* call.  Over MCP one call is on the way at a time (McpClient._io_lock);  *)
(* over REST any number.  A call whose transport fails is sent a second    *)
(* time, over the same transport or the other, whether or not the shop     *)
(* performed it.                                                           *)
(***************************************************************************)
EXTENDS Integers, FiniteSets

CONSTANTS
  Variants,   \* the sellable variants
  Requests,   \* the slots for cart operations under way at once
  MaxCarts,   \* bound: carts the shop creates for the session
  MaxOps,     \* bound: cart operations ever started
  MaxFaults   \* bound: carts changed or ended outside the host, and calls sent twice

ASSUME VariantsAssumption == Variants # {}
ASSUME CartBoundsAssumption == {MaxCarts, MaxOps, MaxFaults} \subseteq Nat

VARIABLES
  transport,  \* UcpClient.transport: the transport tried first
  ended,      \* the session was reset
  state,      \* state[o]: the _SessionState object o (a fresh one stands for no entry)
  ticket,     \* the cart the live ticket was handed out for, 0 without a ticket
  req,        \* req[r]: where the operation in slot r stands
  shop,       \* shop[c]: the lines of cart c in the shop
  alive,      \* the carts the shop still accepts
  made,       \* carts created by create_cart
  late        \* updates the host gave up on and the shop may still perform

VARIABLES     \* history, read by properties only
  ops,        \* operations started
  faults,     \* carts changed or ended outside the host, and calls sent twice
  asked,      \* asked[c]: the lines of c if every accepted change counts once
  disturbed,  \* operations under way while another one changed a cart
  clobbered,  \* carts written by a disturbed operation
  crossed,    \* the binding changed while another operation was under way
  resent,     \* a call was sent twice
  drifted     \* a cart changed behind the session since it was last read or written

hostVars    == <<transport, ended, state, ticket>>
shopVars    == <<shop, alive, made, late>>
historyVars == <<ops, faults, asked, disturbed, clobbered, crossed, resent, drifted>>
vars == <<hostVars, req, shopVars, historyVars>>

-----------------------------------------------------------------------------
CustomerCart == MaxCarts + 1   \* the cart of the customer's own context token
Carts == 1 .. MaxCarts + 1
Objects == {1, 2}              \* the session's entry, and the one made after a reset
Entry == IF ended THEN 2 ELSE 1
Lines == [Variants -> Nat]
NoLines == [v \in Variants |-> 0]
Transports == {"mcp", "rest"}

Ops    == {"none", "get", "add", "set", "attach"}
Phases == {"idle", "refresh", "read", "attach", "update", "create"}

\* An operation: the object it holds, the call it waits for and that call's answer
\* ("got" has cart 0 when the shop no longer accepts the cart).
Request == [op: Ops, item: Variants, qty: Nat, obj: {0} \cup Objects,
            phase: Phases, via: Transports, again: BOOLEAN, landed: BOOLEAN,
            cart: {0} \cup Carts, items: Lines,
            answered: BOOLEAN, got: [cart: {0} \cup Carts, lines: Lines]]

Nothing == [cart |-> 0, lines |-> NoLines]

Idle == [op |-> "none", item |-> CHOOSE v \in Variants : TRUE, qty |-> 0, obj |-> 0,
         phase |-> "idle", via |-> "mcp", again |-> FALSE, landed |-> FALSE,
         cart |-> 0, items |-> NoLines, answered |-> FALSE, got |-> Nothing]

Init ==
  /\ transport \in Transports
  /\ ended = FALSE
  /\ state = [o \in Objects |-> Nothing]
  /\ ticket = 0
  /\ req = [r \in Requests |-> Idle]
  /\ shop = [c \in Carts |-> NoLines]
  /\ alive = {CustomerCart}
  /\ made = 0
  /\ late = {}
  /\ ops = 0 /\ faults = 0
  /\ asked = [c \in Carts |-> NoLines]
  /\ disturbed = {} /\ clobbered = {}
  /\ crossed = FALSE /\ resent = FALSE /\ drifted = FALSE

Busy == {r \in Requests : req[r].phase # "idle"}
Bound == state[Entry].cart

\* An operation that holds object o and whose next call is on its way over the first
\* transport.
Sent(op, v, n, o, phase, c, items) ==
  [op |-> op, item |-> v, qty |-> n, obj |-> o,
   phase |-> phase, via |-> transport, again |-> FALSE, landed |-> FALSE,
   cart |-> c, items |-> items, answered |-> FALSE, got |-> Nothing]

\* _line_items: the whole list as the host knows it, with one quantity changed.
LineItems(lines, v, n) == [lines EXCEPT ![v] = n]

\* checkout_url_for: a cart with lines gets the session's ticket, a new one if need be.
\* The state object and the ticket are those after the answer was worked up.
Url(s, t) ==
  IF s[Entry].cart # 0 /\ s[Entry].lines # NoLines /\ t = 0 THEN s[Entry].cart ELSE t

-----------------------------------------------------------------------------
(***************************************************************************)
(* Starting an operation: everything before its first call.                *)
(***************************************************************************)
Begin(r, op, v, n, phase, items) ==
  /\ ops < MaxOps
  /\ req[r].phase = "idle"
  /\ req' = [req EXCEPT ![r] =
               Sent(op, v, n, Entry, phase, state[Entry].cart, items)]
  /\ ops' = ops + 1
  /\ UNCHANGED <<hostVars, shopVars, faults, asked, disturbed, clobbered, crossed, resent, drifted>>

\* get_cart with a cart bound; without one the answer is an empty cart and no call.
GetCart(r) ==
  /\ state[Entry].cart # 0
  /\ Begin(r, "get", Idle.item, 0, "read", NoLines)

\* Mutant: the host's lines are taken for the shop's.
AddToCartUnrefreshed(r, v) ==
  \/ /\ state[Entry].cart # 0
     /\ Begin(r, "add", v, 1, "update",
              LineItems(state[Entry].lines, v, state[Entry].lines[v] + 1))
  \/ /\ state[Entry].cart = 0
     /\ Begin(r, "add", v, 1, "create", LineItems(state[Entry].lines, v, 1))

\* add_to_cart once the variant is resolved and available: read the cart, or create one.
AddToCart(r, v) ==
  \/ /\ state[Entry].cart # 0
     /\ Begin(r, "add", v, 1, "refresh", NoLines)
  \/ /\ state[Entry].cart = 0
     /\ Begin(r, "add", v, 1, "create", LineItems(state[Entry].lines, v, 1))

\* _set_line: update_cart_item, or remove_from_cart with 0.
SetLine(r, v, n) ==
  /\ state[Entry].cart # 0
  /\ Begin(r, "set", v, n, "refresh", NoLines)

\* attach_cart: POST /api/cart/attach, or a login that continues in the customer's cart.
\* The session's entry is looked up when the answer is there.
AttachCart(r, c) ==
  /\ ~ended
  /\ ops < MaxOps
  /\ req[r].phase = "idle"
  /\ req' = [req EXCEPT ![r] = Sent("attach", Idle.item, 0, 0, "attach", c, NoLines)]
  /\ ops' = ops + 1
  /\ UNCHANGED <<hostVars, shopVars, faults, asked, disturbed, clobbered, crossed, resent, drifted>>

\* checkout_handoff, the tool: the ticket URL of the session's cart.
CheckoutHandoff ==
  /\ ticket' = Url(state, ticket)
  /\ UNCHANGED <<transport, ended, state, req, shopVars, historyVars>>

\* /api/reset: the entry and the ticket go; the operations under way keep their object, and
\* a chat turn that is still streaming may start more.
Reset ==
  /\ ~ended
  /\ ended' = TRUE
  /\ ticket' = 0
  /\ drifted' = TRUE
  /\ crossed' = (crossed \/ Busy # {})
  /\ UNCHANGED <<transport, state, req, shopVars, ops, faults, asked, disturbed, clobbered,
                 resent>>

-----------------------------------------------------------------------------
(***************************************************************************)
(* The shop performs a call.                                               *)
(***************************************************************************)
\* What an accepted change adds to the cart it is made in.
Intended(q, lines) ==
  [lines EXCEPT ![q.item] = IF q.op = "add" THEN @ + q.qty ELSE q.qty]

\* History: cart c was written by r, or by nobody the host knows (r = 0).
Wrote(r, c, wanted) ==
  /\ asked' = [asked EXCEPT ![c] = wanted]
  /\ clobbered' = IF r \in disturbed THEN clobbered \cup {c} ELSE clobbered
  /\ disturbed' = disturbed \cup (Busy \ {r})

\* Over MCP no other call is between the shop and the host.
Free(r) ==
  req[r].via = "mcp" => \A s \in Busy \ {r} : ~(req[s].via = "mcp" /\ req[s].answered)

OnTheWay(r, phases) == req[r].phase \in phases /\ ~req[r].answered /\ Free(r)

\* The operation holds an object the session has lost.
Detached(r) == req[r].obj \notin {0, Entry}

Answered(r, c, lines) ==
  req' = [req EXCEPT ![r] = [@ EXCEPT !.answered = TRUE, !.landed = TRUE,
                                      !.got = [cart |-> c, lines |-> lines]]]

PerformGet(r) ==
  /\ OnTheWay(r, {"refresh", "read", "attach"})
  /\ req[r].cart \in alive
  /\ Answered(r, req[r].cart, shop[req[r].cart])
  /\ drifted' = (drifted /\ Detached(r))
  /\ UNCHANGED <<hostVars, shopVars, ops, faults, asked, disturbed, clobbered, crossed, resent>>

\* update_cart replaces all lines of the cart.
PerformUpdate(r) ==
  LET c == req[r].cart IN
  /\ OnTheWay(r, {"update"})
  /\ c \in alive
  /\ shop' = [shop EXCEPT ![c] = req[r].items]
  /\ Answered(r, c, req[r].items)
  /\ Wrote(r, c, IF req[r].landed THEN asked[c] ELSE Intended(req[r], asked[c]))
  /\ drifted' = Detached(r)
  /\ UNCHANGED <<hostVars, alive, made, late, ops, faults, crossed, resent>>

PerformCreate(r) ==
  LET c == made + 1 IN
  /\ OnTheWay(r, {"create"})
  /\ c <= MaxCarts
  /\ made' = c
  /\ alive' = alive \cup {c}
  /\ shop' = [shop EXCEPT ![c] = req[r].items]
  /\ Answered(r, c, req[r].items)
  /\ asked' = [asked EXCEPT ![c] = Intended(req[r], NoLines)]
  /\ disturbed' = disturbed \cup (Busy \ {r})
  /\ drifted' = Detached(r)
  /\ UNCHANGED <<hostVars, late, ops, faults, clobbered, crossed, resent>>

\* The shop answers that it no longer accepts the cart.
PerformGone(r) ==
  /\ OnTheWay(r, {"refresh", "read", "attach", "update"})
  /\ req[r].cart \notin alive
  /\ Answered(r, 0, NoLines)
  /\ UNCHANGED <<hostVars, shopVars, historyVars>>

\* The operation ends without an answer for the customer's page.
Leave(r) ==
  /\ req' = [req EXCEPT ![r] = Idle]
  /\ disturbed' = disturbed \ {r}

\* Mutant: every refusal is taken for a cart that is gone.
RefusedDrops(r) ==
  /\ OnTheWay(r, Phases \ {"idle"})
  /\ Leave(r)
  /\ state' = [state EXCEPT ![IF req[r].obj = 0 THEN Entry ELSE req[r].obj] = Nothing]
  /\ ticket' = 0
  /\ UNCHANGED <<transport, ended, shopVars, ops, faults, asked, clobbered, crossed, resent,
                 drifted>>

\* The shop refuses the call: the error reaches the caller.
Refused(r) ==
  /\ OnTheWay(r, Phases \ {"idle"})
  /\ Leave(r)
  /\ UNCHANGED <<hostVars, shopVars, ops, faults, asked, clobbered, crossed, resent, drifted>>

\* The update r waits for, should the shop perform it after r has given up.  (A create
\* performed late makes a cart nobody knows: nothing here tells it from one never made.)
Abandoned(r) ==
  IF req[r].phase = "update" /\ ~req[r].answered
    THEN {[cart |-> req[r].cart, items |-> req[r].items]} ELSE {}

\* The transport fails before or after the shop performed the call: a transient status posts
\* the same call again, UcpTransportUnavailable tries the other transport.
SendAgain(r) ==
  /\ req[r].phase # "idle"
  /\ ~req[r].again
  /\ faults < MaxFaults
  /\ \E t \in Transports :
       req' = [req EXCEPT ![r] = [@ EXCEPT !.via = t, !.again = TRUE, !.answered = FALSE,
                                           !.got = Nothing]]
  /\ resent' = TRUE
  /\ faults' = faults + 1
  /\ late' = late \cup Abandoned(r)
  /\ UNCHANGED <<hostVars, shop, alive, made, ops, asked, disturbed, clobbered, crossed, drifted>>

\* The second attempt fails too: the error reaches the caller.
GiveUp(r) ==
  /\ req[r].phase # "idle"
  /\ req[r].again
  /\ late' = late \cup Abandoned(r)
  /\ Leave(r)
  /\ UNCHANGED <<hostVars, shop, alive, made, ops, faults, asked, clobbered, crossed, resent,
                 drifted>>

-----------------------------------------------------------------------------
(***************************************************************************)
(* The host works up an answer.  _map_cart stores the cart and the lines   *)
(* of the answer in the object the operation holds, whatever it is bound   *)
(* to by now; a cart that is gone is dropped and the ticket revoked.       *)
(***************************************************************************)
answerVars == <<transport, ended, shopVars, ops, faults, asked, clobbered, resent, drifted>>

HasAnswer(r, phase) == req[r].phase = phase /\ req[r].answered

\* History: the binding changed while another operation was under way.
Rebinds(r) == crossed' = (crossed \/ (Bound' # Bound /\ Busy \ {r} # {}))

Mapped(r) == [state EXCEPT ![req[r].obj] = req[r].got]

Kept(r) == IF req[r].got.cart = 0 THEN 0 ELSE ticket

\* A route answers with the ticket URL, a tool of the agent without it.
Respond(r, s, t) ==
  /\ Leave(r)
  /\ ticket' \in {Url(s, t)} \cup (IF req[r].op = "attach" THEN {} ELSE {t})

Continue(r, phase, c, items) ==
  /\ req' = [req EXCEPT ![r] = Sent(@.op, @.item, @.qty, @.obj, phase, c, items)]
  /\ UNCHANGED disturbed

\* The answer to the page reads the cart of the session's entry of that moment.
ReadAgain(r) ==
  /\ req' = [req EXCEPT ![r] = Sent(@.op, @.item, @.qty, Entry, "read", Bound', NoLines)]
  /\ UNCHANGED disturbed

\* _refresh_lines, then the write computed from the lines just read; a line that is not in
\* the cart is not written, and get_cart answers for the session's entry of that moment.
RefreshAnswered(r) ==
  LET q == req[r]
      c == q.got.cart
      n == q.got.lines[q.item] IN
  /\ HasAnswer(r, "refresh")
  /\ UNCHANGED answerVars
  /\ state' = Mapped(r)
  /\ Rebinds(r)
  /\ \/ /\ q.op = "add" /\ c # 0
        /\ Continue(r, "update", c, LineItems(q.got.lines, q.item, n + q.qty))
        /\ UNCHANGED ticket
     \/ /\ q.op = "add" /\ c = 0
        /\ Continue(r, "create", 0, LineItems(NoLines, q.item, q.qty))
        /\ ticket' = 0
     \/ /\ q.op = "set" /\ n > 0
        /\ Continue(r, "update", c, LineItems(q.got.lines, q.item, q.qty))
        /\ UNCHANGED ticket
     \/ /\ q.op = "set" /\ n = 0 /\ Bound' # 0
        /\ ReadAgain(r)
        /\ ticket' = Kept(r)
     \/ /\ q.op = "set" /\ n = 0 /\ Bound' = 0
        /\ Respond(r, Mapped(r), Kept(r))

ReadAnswered(r) ==
  /\ HasAnswer(r, "read")
  /\ UNCHANGED answerVars
  /\ state' = Mapped(r)
  /\ Rebinds(r)
  /\ Respond(r, Mapped(r), Kept(r))

UpdateAnswered(r) ==
  LET q == req[r] IN
  /\ HasAnswer(r, "update")
  /\ UNCHANGED answerVars
  /\ state' = Mapped(r)
  /\ Rebinds(r)
  /\ \/ /\ q.got.cart = 0 /\ q.op = "add"
        /\ Continue(r, "create", 0, LineItems(NoLines, q.item, q.qty))
        /\ ticket' = 0
     \/ /\ ~(q.got.cart = 0 /\ q.op = "add")
        /\ Respond(r, Mapped(r), Kept(r))

\* A cart was created: the binding changes, the old ticket goes.
CreateAnswered(r) ==
  /\ HasAnswer(r, "create")
  /\ UNCHANGED answerVars
  /\ state' = Mapped(r)
  /\ Rebinds(r)
  /\ Respond(r, Mapped(r), 0)

\* Mutant: the ticket of the cart before stays.
AttachAnsweredUnrevoked(r) ==
  LET q == req[r] IN
  /\ HasAnswer(r, "attach")
  /\ UNCHANGED answerVars
  /\ \/ /\ q.got.cart # 0
        /\ state' = [state EXCEPT ![Entry] = q.got]
        /\ UNCHANGED ticket
        /\ Rebinds(r)
        /\ ReadAgain(r)
     \/ /\ q.got.cart = 0
        /\ Leave(r)
        /\ UNCHANGED <<state, ticket, crossed>>

\* The cart is bound to the session, the old ticket goes, and the answer reads it again.
AttachAnswered(r) ==
  LET q == req[r] IN
  /\ HasAnswer(r, "attach")
  /\ UNCHANGED answerVars
  /\ \/ /\ q.got.cart # 0
        /\ state' = [state EXCEPT ![Entry] = q.got]
        /\ ticket' = 0
        /\ Rebinds(r)
        /\ ReadAgain(r)
     \/ /\ q.got.cart = 0
        /\ Leave(r)
        /\ UNCHANGED <<state, ticket, crossed>>

-----------------------------------------------------------------------------
(***************************************************************************)
(* The rest of the world.                                                  *)
(***************************************************************************)
\* The customer changes the same cart in the shop's own pages.
Edit(c, v) ==
  /\ faults < MaxFaults
  /\ faults' = faults + 1
  /\ c \in alive
  /\ shop' = [shop EXCEPT ![c][v] = @ + 1]
  /\ asked' = [asked EXCEPT ![c][v] = @ + 1]
  /\ disturbed' = disturbed \cup Busy
  /\ drifted' = TRUE
  /\ UNCHANGED <<hostVars, req, alive, made, late, ops, clobbered, crossed, resent>>

\* The cart is ordered or expires.
CartGoes(c) ==
  /\ faults < MaxFaults
  /\ faults' = faults + 1
  /\ c \in alive
  /\ alive' = alive \ {c}
  /\ UNCHANGED <<hostVars, req, shop, made, late, ops, asked, disturbed, clobbered,
                 crossed, resent, drifted>>

\* An update nobody waits for any more is performed; one that never is stays in late.
LateUpdate ==
  \E w \in late :
    /\ w.cart \in alive
    /\ late' = late \ {w}
    /\ shop' = [shop EXCEPT ![w.cart] = w.items]
    /\ clobbered' = clobbered \cup {w.cart}
    /\ disturbed' = disturbed \cup Busy
    /\ UNCHANGED <<hostVars, req, alive, made, ops, faults, asked, crossed, resent, drifted>>

-----------------------------------------------------------------------------
Starts(r) ==
  \/ GetCart(r)
  \/ \E v \in Variants : AddToCart(r, v) \/ \E n \in {0, 2} : SetLine(r, v, n)
  \/ \E c \in alive : AttachCart(r, c)

Calls(r) ==
  \/ PerformGet(r) \/ PerformUpdate(r) \/ PerformCreate(r) \/ PerformGone(r)
  \/ Refused(r) \/ SendAgain(r) \/ GiveUp(r)

Answers(r) ==
  \/ RefreshAnswered(r) \/ ReadAnswered(r) \/ UpdateAnswered(r) \/ CreateAnswered(r)
  \/ AttachAnswered(r)

Next ==
  \/ \E r \in Requests : Starts(r) \/ Calls(r) \/ Answers(r)
  \/ CheckoutHandoff \/ Reset
  \/ \E c \in Carts : CartGoes(c) \/ \E v \in Variants : Edit(c, v)
  \/ LateUpdate

Spec == Init /\ [][Next]_vars

-----------------------------------------------------------------------------
(***************************************************************************)
(* Properties.                                                             *)
(***************************************************************************)
Document == [cart: {0} \cup Carts, lines: Lines]

\* Types of the state; an object without a cart has no lines, and only an answer for a
\* cart that is gone carries none.
TypeOK ==
  /\ transport \in Transports
  /\ ended \in BOOLEAN
  /\ state \in [Objects -> Document]
  /\ \A o \in Objects : state[o].cart = 0 => state[o].lines = NoLines
  /\ ticket \in {0} \cup Carts
  /\ req \in [Requests -> Request]
  /\ shop \in [Carts -> Lines]
  /\ alive \subseteq Carts
  /\ made \in 0 .. MaxCarts
  /\ late \subseteq [cart: Carts, items: Lines]
  /\ ops \in 0 .. MaxOps /\ faults \in 0 .. MaxFaults
  /\ asked \in [Carts -> Lines]
  /\ disturbed \subseteq Requests /\ clobbered \subseteq Carts
  /\ {crossed, resent, drifted} \subseteq BOOLEAN

\* A ticket leads to the cart it was handed out for, as long as the binding never changed
\* while another operation of the session was under way: every change of the binding on
\* its own (create_cart, attach_cart, _drop_cart, reset_session) revokes the ticket.
TicketNamesTheCart == ticket # 0 /\ ~crossed => Bound = ticket

\* Every accepted change of a cart counts exactly once, calls sent twice
\* included, unless another change came between the start of the operation and its write:
\* add_to_cart reads the cart first and then writes the whole list of lines.  And over MCP
\* the lines the host computes the next update from are the cart's lines in the shop, unless
\* a cart changed behind the session or a call was sent twice: answers are worked up in the
\* order the shop gave them (McpClient.request).
ChangesCountOnce ==
  /\ \A c \in Carts \ clobbered : shop[c] = asked[c]
  /\ /\ transport = "mcp" /\ ~resent /\ ~drifted
     /\ Bound # 0
     /\ \A r \in Requests : ~req[r].answered
     => state[Entry].lines = shop[Bound]

\* A session keeps a cart the shop still accepts: on its own, no operation but attach_cart
\* binds it to another one, or to none, whatever the shop refuses or fails to answer.
Attaches == \E r \in Requests : HasAnswer(r, "attach") /\ AttachAnswered(r)

LivingCartIsKept ==
  [][(Bound \in alive /\ ~ended' /\ ~crossed') => (Bound' = Bound \/ Attaches)]_vars

-----------------------------------------------------------------------------
(***************************************************************************)
(* What the repository says and interleaved operations refute.             *)
(***************************************************************************)
\* handoff.py: tickets are "revoked whenever the cart binding changes".
TicketsRevoked == ticket # 0 => Bound = ticket

\* shopware-mapping.md: "One cart per agent session".
OneCartPerSession ==
  [][(Bound \in alive /\ ~ended') => (Bound' = Bound \/ Attaches)]_vars
=============================================================================
