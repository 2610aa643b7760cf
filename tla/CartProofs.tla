----------------------------- MODULE CartProofs -----------------------------
(***************************************************************************)
(* Proofs about StorefrontCart, for any variants, operations, carts and    *)
(* faults: where a ticket leads, how often a change of a cart counts, what *)
(* the host knows of the lines, and that a session keeps its cart.         *)
(*                                                                         *)
(* None of them is inductive.  A ticket leads to the session's cart because*)
(* every operation under way works on that cart (Bindings), which in turn  *)
(* needs that no operation names a cart before the shop made it            *)
(* (CartsExist).  A change counts once because an operation nobody         *)
(* disturbed holds the cart's own lines, or those lines and its change     *)
(* (Counts).  The host knows the lines because at most one answer waits    *)
(* (OneAnswer) and every other cart call has been worked up (Current).     *)
(***************************************************************************)
EXTENDS StorefrontCart, TLAPS

\* The carts there are, or were.
Known == 1 .. made \cup {CustomerCart}

Names(q) == {q.cart, q.got.cart}

CartsExist ==
  /\ alive \subseteq Known
  /\ \A o \in Objects : state[o].cart \in {0} \cup Known
  /\ \A r \in Requests : Names(req[r]) \subseteq {0} \cup Known

\* What an operation holds in which phase.
Shaped(q) ==
  /\ q.got.cart = 0 => q.got.lines = NoLines
  /\ q.phase = "idle" => ~q.answered
  /\ q.phase = "attach" => q.obj = 0
  /\ q.phase \notin {"idle", "attach"} => q.obj # 0
  /\ q.phase = "update" => q.cart # 0
  /\ q.phase = "create" => q.items = Intended(q, NoLines)

Shape == \A r \in Requests : Shaped(req[r])

Reading(q) == q.phase \in {"refresh", "read", "update"}

\* An operation works on what the session is bound to.
Holds(q) ==
  /\ q.obj \in {0, Entry}
  /\ q.phase = "create" => Bound = 0
  /\ Reading(q) => q.cart = Bound
  /\ Reading(q) /\ q.answered => \/ q.got.cart = Bound
                                 \/ q.got.cart = 0 /\ Bound \notin alive

Bindings ==
  ~crossed =>
    /\ ticket # 0 => Bound = ticket
    /\ \A r \in Busy : Holds(req[r])

\* What an operation read, or is about to write, is the cart as it stands and its own change.
Counted(q) ==
  /\ q.phase = "refresh" /\ q.answered /\ q.got.cart # 0 => q.got.lines = shop[q.got.cart]
  /\ q.phase = "update" /\ q.cart \in alive =>
       q.items = IF q.landed THEN shop[q.cart] ELSE Intended(q, shop[q.cart])

Counts ==
  /\ \A c \in Carts \ clobbered : shop[c] = asked[c]
  /\ \A r \in Requests \ disturbed : Counted(req[r])

\* Without a repeated call every operation waits for the first transport.
SentOnce ==
  ~resent =>
    /\ late = {}
    /\ \A r \in Busy : ~req[r].again /\ req[r].via = transport

\* Over MCP at most one answer waits to be worked up.
OneAnswer ==
  ~resent /\ transport = "mcp" =>
    \A r, s \in Requests : req[r].answered /\ req[s].answered => r = s

\* The answer says nothing about the session's cart.
Elsewhere(q) == q.obj \notin {0, Entry} \/ q.got.cart = 0

\* The lines of the session's cart are with the host, or in the answer it has yet to work up.
Current ==
  ~resent /\ transport = "mcp" /\ ~drifted =>
    /\ \A r \in Requests :
         req[r].answered /\ ~Elsewhere(req[r]) => req[r].got.lines = shop[req[r].got.cart]
    /\ (\A r \in Requests : req[r].answered => Elsewhere(req[r])) /\ Bound # 0
         => state[Entry].lines = shop[Bound]

IInv ==
  TypeOK /\ Shape /\ CartsExist /\ Bindings /\ Counts /\ SentOnce /\ OneAnswer /\ Current

-----------------------------------------------------------------------------

LEMMA IdleIs ==
  /\ Idle \in Request
  /\ Idle.phase = "idle" /\ Idle.answered = FALSE /\ Idle.again = FALSE
  /\ Idle.cart = 0 /\ Idle.got = Nothing
  /\ Nothing \in Document /\ Nothing.cart = 0 /\ Nothing.lines = NoLines
  /\ NoLines \in Lines
<1>1. /\ NoLines \in Lines
      /\ Nothing \in Document /\ Nothing.cart = 0 /\ Nothing.lines = NoLines
  BY DEF NoLines, Lines, Nothing, Document
<1>2. (CHOOSE v \in Variants : TRUE) \in Variants
  BY VariantsAssumption
<1> QED
  BY <1>1, <1>2 DEF Idle, Request, Document, Ops, Phases, Transports, Objects

\* An operation whose next call was just sent.
IsSent(q, op, v, n, o, phase, c, items) ==
  /\ q \in Request
  /\ q.op = op /\ q.item = v /\ q.qty = n /\ q.obj = o
  /\ q.phase = phase /\ q.via = transport /\ q.again = FALSE /\ q.landed = FALSE
  /\ q.cart = c /\ q.items = items /\ q.answered = FALSE /\ q.got = Nothing

LEMMA SentIs ==
  ASSUME transport \in Transports,
         NEW op \in Ops, NEW v \in Variants, NEW n \in Nat, NEW o \in {0} \cup Objects,
         NEW phase \in Phases, NEW c \in {0} \cup Carts, NEW items \in Lines
  PROVE  IsSent(Sent(op, v, n, o, phase, c, items), op, v, n, o, phase, c, items)
<1>1. Nothing \in [cart: {0} \cup Carts, lines: Lines]
  BY IdleIs DEF Document
<1> QED
  BY <1>1 DEF IsSent, Sent, Request

\* The fields of the operation that an answer leaves alone.
Same(p, q) ==
  /\ p.op = q.op /\ p.item = q.item /\ p.qty = q.qty /\ p.obj = q.obj
  /\ p.phase = q.phase /\ p.cart = q.cart /\ p.items = q.items

LEMMA AnsweredIs ==
  ASSUME NEW q \in Request, NEW d \in Document
  PROVE  LET p == [q EXCEPT !.answered = TRUE, !.landed = TRUE, !.got = d] IN
         /\ p \in Request
         /\ Same(p, q)
         /\ p.via = q.via /\ p.again = q.again /\ p.landed = TRUE
         /\ p.answered = TRUE /\ p.got = d
<1> DEFINE a == [q EXCEPT !.answered = TRUE]
           b == [a EXCEPT !.landed = TRUE]
           p == [b EXCEPT !.got = d]
<1>1. /\ a \in Request /\ Same(a, q) /\ a.via = q.via /\ a.again = q.again
      /\ a.answered = TRUE
  BY DEF Request, Same
<1> HIDE DEF a
<1>2. /\ b \in Request /\ Same(b, a) /\ b.via = a.via /\ b.again = a.again
      /\ b.answered = TRUE /\ b.landed = TRUE
  BY <1>1 DEF Request, Same
<1> HIDE DEF b
<1>3. /\ p \in Request /\ Same(p, b) /\ p.via = b.via /\ p.again = b.again
      /\ p.answered = TRUE /\ p.landed = TRUE /\ p.got = d
  BY <1>2 DEF Request, Same, Document
<1> HIDE DEF p
<1>4. [q EXCEPT !.answered = TRUE, !.landed = TRUE, !.got = d] = p
  BY DEF p, b, a
<1>5. Same(p, q) /\ p.via = q.via /\ p.again = q.again
  BY <1>1, <1>2, <1>3 DEF Same
<1> QED
  BY <1>3, <1>4, <1>5

LEMMA AgainIs ==
  ASSUME NEW q \in Request, NEW t \in Transports
  PROVE  LET p == [q EXCEPT !.via = t, !.again = TRUE, !.answered = FALSE, !.got = Nothing] IN
         /\ p \in Request
         /\ Same(p, q)
         /\ p.via = t /\ p.again = TRUE /\ p.landed = q.landed
         /\ p.answered = FALSE /\ p.got = Nothing
<1> DEFINE a == [q EXCEPT !.via = t]
           b == [a EXCEPT !.again = TRUE]
           c == [b EXCEPT !.answered = FALSE]
           p == [c EXCEPT !.got = Nothing]
<1>1. a \in Request /\ Same(a, q) /\ a.via = t /\ a.landed = q.landed
  BY DEF Request, Same
<1> HIDE DEF a
<1>2. b \in Request /\ Same(b, a) /\ b.via = t /\ b.landed = a.landed /\ b.again = TRUE
  BY <1>1 DEF Request, Same
<1> HIDE DEF b
<1>3. /\ c \in Request /\ Same(c, b) /\ c.via = t /\ c.landed = b.landed
      /\ c.again = TRUE /\ c.answered = FALSE
  BY <1>2 DEF Request, Same
<1> HIDE DEF c
<1>4. /\ p \in Request /\ Same(p, c) /\ p.via = t /\ p.landed = c.landed
      /\ p.again = TRUE /\ p.answered = FALSE /\ p.got = Nothing
  BY <1>3, IdleIs DEF Request, Same, Document
<1> HIDE DEF p
<1>5. [q EXCEPT !.via = t, !.again = TRUE, !.answered = FALSE, !.got = Nothing] = p
  BY DEF p, c, b, a
<1>6. Same(p, q) /\ p.landed = q.landed
  BY <1>1, <1>2, <1>3, <1>4 DEF Same
<1> QED
  BY <1>4, <1>5, <1>6
LEMMA SameIntent ==
  ASSUME NEW p, NEW q, Same(p, q), NEW lines
  PROVE  Intended(p, lines) = Intended(q, lines)
BY DEF Same, Intended

LEMMA IntentTyped ==
  ASSUME NEW q \in Request, NEW lines \in Lines
  PROVE  Intended(q, lines) \in Lines
BY DEF Intended, Lines, Request

LEMMA FirstLine ==
  ASSUME NEW q \in Request, q.op = "add"
  PROVE  LineItems(NoLines, q.item, q.qty) = Intended(q, NoLines)
<1>1. NoLines[q.item] = 0 /\ q.qty \in Nat
  BY DEF NoLines, Request
<1>2. NoLines[q.item] + q.qty = q.qty
  BY <1>1
<1> QED
  BY <1>2 DEF LineItems, Intended

LEMMA Fields ==
  ASSUME TypeOK, NEW r \in Requests
  PROVE  /\ req[r] \in Request
         /\ req[r].op \in Ops /\ req[r].item \in Variants /\ req[r].qty \in Nat
         /\ req[r].obj \in {0} \cup Objects /\ req[r].phase \in Phases
         /\ req[r].via \in Transports /\ req[r].again \in BOOLEAN /\ req[r].landed \in BOOLEAN
         /\ req[r].cart \in {0} \cup Carts /\ req[r].items \in Lines
         /\ req[r].answered \in BOOLEAN /\ req[r].got \in Document
         /\ req[r].got.cart \in {0} \cup Carts /\ req[r].got.lines \in Lines
<1>1. req[r] \in Request
  BY DEF TypeOK
<1>2. req[r].got \in Document
  BY <1>1 DEF Request, Document
<1> QED
  BY <1>1, <1>2 DEF Request, Document

-----------------------------------------------------------------------------
(* What a step does to the operation in one slot. *)

Turns(r, q) ==
  /\ req' \in [Requests -> Request]
  /\ req'[r] = q
  /\ \A s \in Requests : s # r => req'[s] = req[s]

Goes(r, op, v, n, o, phase, c, items) ==
  \E q \in Request : Turns(r, q) /\ IsSent(q, op, v, n, o, phase, c, items)

\* The operation goes on with its next call.
GoesOn(r, o, phase, c, items) ==
  /\ Goes(r, req[r].op, req[r].item, req[r].qty, o, phase, c, items)
  /\ disturbed' = disturbed

IsAnswered(r, c, lines) ==
  \E q \in Request :
    /\ Turns(r, q) /\ Same(q, req[r])
    /\ q.via = req[r].via /\ q.again = req[r].again /\ q.landed = TRUE
    /\ q.answered = TRUE /\ q.got.cart = c /\ q.got.lines = lines

IsSentAgain(r) ==
  \E q \in Request :
    /\ Turns(r, q) /\ Same(q, req[r])
    /\ q.landed = req[r].landed /\ q.answered = FALSE /\ q.got = Nothing

Ends(r) ==
  /\ Turns(r, Idle)
  /\ disturbed' = disturbed \ {r}

LEMMA Turned ==
  ASSUME TypeOK, NEW r \in Requests, NEW q \in Request, req' = [req EXCEPT ![r] = q]
  PROVE  Turns(r, q)
BY DEF TypeOK, Turns

LEMMA Going ==
  ASSUME TypeOK, NEW r \in Requests,
         NEW op \in Ops, NEW v \in Variants, NEW n \in Nat, NEW o \in {0} \cup Objects,
         NEW phase \in Phases, NEW c \in {0} \cup Carts, NEW items \in Lines,
         req' = [req EXCEPT ![r] = Sent(op, v, n, o, phase, c, items)]
  PROVE  Goes(r, op, v, n, o, phase, c, items)
<1> DEFINE q == Sent(op, v, n, o, phase, c, items)
<1>1. IsSent(q, op, v, n, o, phase, c, items)
  BY SentIs DEF TypeOK
<1>2. q \in Request
  BY <1>1 DEF IsSent
<1> HIDE DEF q
<1>3. req' = [req EXCEPT ![r] = q]
  BY DEF q
<1>4. Turns(r, q)
  BY <1>2, <1>3, Turned
<1> QED
  BY <1>1, <1>2, <1>4 DEF Goes

LEMMA Answering ==
  ASSUME TypeOK, NEW r \in Requests, NEW c \in {0} \cup Carts, NEW lines \in Lines,
         Answered(r, c, lines)
  PROVE  IsAnswered(r, c, lines)
<1> DEFINE d == [cart |-> c, lines |-> lines]
           q == [req[r] EXCEPT !.answered = TRUE, !.landed = TRUE, !.got = d]
<1>1. d \in Document
  BY DEF Document
<1>2. req' = [req EXCEPT ![r] = q]
  BY DEF Answered
<1> HIDE DEF d
<1>3. req[r] \in Request
  BY Fields
<1>4. /\ q \in Request /\ Same(q, req[r])
      /\ q.via = req[r].via /\ q.again = req[r].again /\ q.landed = TRUE
      /\ q.answered = TRUE /\ q.got = d
  BY <1>1, <1>3, AnsweredIs
<1> HIDE DEF q
<1>5. Turns(r, q)
  BY <1>2, <1>4, Turned
<1>6. d.cart = c /\ d.lines = lines
  BY DEF d
<1> QED
  BY <1>4, <1>5, <1>6 DEF IsAnswered

LEMMA Leaving ==
  ASSUME TypeOK, NEW r \in Requests, Leave(r)
  PROVE  Ends(r)
BY IdleIs, Turned DEF Leave, Ends

-----------------------------------------------------------------------------
(* The host works up an answer. *)

LEMMA EntryIs ==
  /\ Entry \in Objects
  /\ ended' = ended => Entry' = Entry
BY DEF Entry, Objects

LEMMA Mapping ==
  ASSUME TypeOK, Shape, NEW r \in Requests, req[r].phase \notin {"idle", "attach"},
         state' = Mapped(r)
  PROVE  /\ req[r].obj \in Objects
         /\ state' \in [Objects -> Document]
         /\ state'[req[r].obj] = req[r].got
         /\ \A o \in Objects : o # req[r].obj => state'[o] = state[o]
         /\ \A o \in Objects : state'[o].cart = 0 => state'[o].lines = NoLines
<1>1. req[r].got \in Document /\ req[r].obj \in Objects
  BY Fields DEF Shape, Shaped
<1>2. req[r].got.cart = 0 => req[r].got.lines = NoLines
  BY DEF Shape, Shaped
<1>3. /\ state \in [Objects -> Document]
      /\ \A o \in Objects : state[o].cart = 0 => state[o].lines = NoLines
  BY DEF TypeOK
<1>4. state' = [state EXCEPT ![req[r].obj] = req[r].got]
  BY DEF Mapped
<1> QED
  BY <1>1, <1>2, <1>3, <1>4

\* What every answer to a tool does: the object is updated, and a ticket that stays is one
\* of a cart that is still there.
Works(r) ==
  /\ req[r].phase \in {"refresh", "read", "update", "create"}
  /\ req[r].answered
  /\ UNCHANGED answerVars
  /\ state' = Mapped(r)
  /\ Rebinds(r)
  /\ ticket' \in {0, ticket, Bound'}
  /\ ticket' # 0 => \/ ticket' = Bound'
                    \/ ticket' = ticket /\ req[r].got.cart # 0 /\ req[r].phase # "create"

Updates(r) ==
  /\ req[r].phase = "refresh" /\ req[r].got.cart # 0
  /\ GoesOn(r, req[r].obj, "update", req[r].got.cart, Intended(req[r], req[r].got.lines))

Creates(r) ==
  /\ req[r].phase \in {"refresh", "update"} /\ req[r].got.cart = 0
  /\ GoesOn(r, req[r].obj, "create", 0, Intended(req[r], NoLines))

Reads(r) ==
  /\ Bound' # 0
  /\ GoesOn(r, Entry, "read", Bound', NoLines)

LEMMA Responding ==
  ASSUME TypeOK, NEW r \in Requests, ended' = ended, state' = Mapped(r),
         NEW t \in {0, ticket}, Respond(r, Mapped(r), t)
  PROVE  /\ Ends(r)
         /\ ticket' \in {t, Bound'}
BY Leaving, EntryIs DEF Respond, Url, Bound

LEMMA Continuing ==
  ASSUME TypeOK, NEW r \in Requests, NEW phase \in Phases, NEW c \in {0} \cup Carts,
         NEW items \in Lines, Continue(r, phase, c, items)
  PROVE  GoesOn(r, req[r].obj, phase, c, items)
<1>1. req' = [req EXCEPT ![r] = Sent(req[r].op, req[r].item, req[r].qty, req[r].obj,
                                     phase, c, items)]
  BY DEF Continue, TypeOK
<1>2. Goes(r, req[r].op, req[r].item, req[r].qty, req[r].obj, phase, c, items)
  BY <1>1, Fields, Going
<1> QED
  BY <1>2 DEF GoesOn, Continue

LEMMA ReadingAgain ==
  ASSUME TypeOK, NEW r \in Requests, Bound' \in {0} \cup Carts, ReadAgain(r)
  PROVE  GoesOn(r, Entry, "read", Bound', NoLines)
<1>1. req' = [req EXCEPT ![r] = Sent(req[r].op, req[r].item, req[r].qty, Entry,
                                     "read", Bound', NoLines)]
  BY DEF ReadAgain, TypeOK
<1>2. /\ Entry \in {0} \cup Objects /\ "read" \in Phases /\ NoLines \in Lines
  BY EntryIs, IdleIs DEF Phases
<1>3. PICK c \in {0} \cup Carts : c = Bound'
  OBVIOUS
<1>4. Goes(r, req[r].op, req[r].item, req[r].qty, Entry, "read", c, NoLines)
  BY <1>1, <1>2, <1>3, Fields, Going
<1> QED
  BY <1>3, <1>4 DEF GoesOn, ReadAgain

LEMMA BoundTyped ==
  ASSUME TypeOK
  PROVE  Bound \in {0} \cup Carts
BY EntryIs DEF TypeOK, Bound, Document

LEMMA Working ==
  ASSUME TypeOK, Shape, NEW r \in Requests,
         RefreshAnswered(r) \/ ReadAnswered(r) \/ UpdateAnswered(r) \/ CreateAnswered(r)
  PROVE  Works(r) /\ (Ends(r) \/ Updates(r) \/ Creates(r) \/ Reads(r))
<1> DEFINE q == req[r]
           c == q.got.cart
           n == q.got.lines[q.item]
<1>1. /\ q.phase \in {"refresh", "read", "update", "create"} /\ q.answered
      /\ UNCHANGED answerVars /\ state' = Mapped(r) /\ Rebinds(r)
  BY DEF RefreshAnswered, ReadAnswered, UpdateAnswered, CreateAnswered, HasAnswer
<1>2. ended' = ended /\ transport' = transport /\ Entry' = Entry
  BY <1>1, EntryIs DEF answerVars
<1>3. /\ q.obj \in Objects /\ state' \in [Objects -> Document]
  BY <1>1, Mapping
<1>4. Bound' \in {0} \cup Carts
  BY <1>2, <1>3, EntryIs DEF Bound, Document
<1>5. /\ c \in {0} \cup Carts /\ q.got.lines \in Lines /\ n \in Nat
      /\ q.qty \in Nat /\ q.item \in Variants /\ q.op \in Ops
      /\ c = 0 => q.got.lines = NoLines
  BY Fields DEF Shape, Shaped, Lines
<1>6. ASSUME Kept(r) = ticket \/ Kept(r) = 0, Respond(r, Mapped(r), Kept(r)),
             q.phase # "create"
      PROVE  Works(r) /\ Ends(r)
  <2>1. Ends(r) /\ ticket' \in {Kept(r), Bound'}
    BY <1>1, <1>2, <1>6, Responding
  <2> QED
    BY <1>1, <1>6, <2>1 DEF Works, Kept
<1>7. Kept(r) = ticket \/ Kept(r) = 0
  BY DEF Kept
<1>8. ASSUME RefreshAnswered(r) PROVE Works(r) /\ (Ends(r) \/ Updates(r) \/ Creates(r) \/ Reads(r))
  <2>0. q.phase = "refresh"
    BY <1>8 DEF RefreshAnswered, HasAnswer
  <2>1. CASE /\ q.op = "add" /\ c # 0
             /\ Continue(r, "update", c, LineItems(q.got.lines, q.item, n + q.qty))
             /\ UNCHANGED ticket
    <3>1. LineItems(q.got.lines, q.item, n + q.qty) = Intended(q, q.got.lines)
      BY <1>5, <2>1 DEF LineItems, Intended, Lines
    <3>2. Intended(q, q.got.lines) \in Lines /\ "update" \in Phases
      BY <1>5, IntentTyped, Fields DEF Phases
    <3>3. GoesOn(r, q.obj, "update", c, Intended(q, q.got.lines))
      BY <1>5, <2>1, <3>1, <3>2, Continuing
    <3> QED
      BY <1>1, <2>0, <2>1, <3>3 DEF Works, Updates
  <2>2. CASE /\ q.op = "add" /\ c = 0
             /\ Continue(r, "create", 0, LineItems(NoLines, q.item, q.qty))
             /\ ticket' = 0
    <3>1. LineItems(NoLines, q.item, q.qty) = Intended(q, NoLines)
      BY <2>2, Fields, FirstLine
    <3>2. Intended(q, NoLines) \in Lines /\ "create" \in Phases
      BY IdleIs, IntentTyped, Fields DEF Phases
    <3>3. GoesOn(r, q.obj, "create", 0, Intended(q, NoLines))
      BY <2>2, <3>1, <3>2, Continuing
    <3> QED
      BY <1>1, <2>0, <2>2, <3>3 DEF Works, Creates
  <2>3. CASE /\ q.op = "set" /\ n > 0
             /\ Continue(r, "update", c, LineItems(q.got.lines, q.item, q.qty))
             /\ UNCHANGED ticket
    <3>0. c # 0
      BY <1>5, <2>3 DEF NoLines
    <3>1. LineItems(q.got.lines, q.item, q.qty) = Intended(q, q.got.lines)
      BY <1>5, <2>3 DEF LineItems, Intended, Lines
    <3>2. Intended(q, q.got.lines) \in Lines /\ "update" \in Phases
      BY <1>5, IntentTyped, Fields DEF Phases
    <3>3. GoesOn(r, q.obj, "update", c, Intended(q, q.got.lines))
      BY <1>5, <2>3, <3>1, <3>2, Continuing
    <3> QED
      BY <1>1, <2>0, <2>3, <3>0, <3>3 DEF Works, Updates
  <2>4. CASE /\ q.op = "set" /\ n = 0 /\ Bound' # 0
             /\ ReadAgain(r)
             /\ ticket' = Kept(r)
    BY <1>1, <1>4, <2>0, <2>4, ReadingAgain DEF Works, Reads, Kept
  <2>5. CASE /\ q.op = "set" /\ n = 0 /\ Bound' = 0
             /\ Respond(r, Mapped(r), Kept(r))
    BY <1>6, <1>7, <2>0, <2>5
  <2> QED
    BY <1>8, <2>1, <2>2, <2>3, <2>4, <2>5 DEF RefreshAnswered
<1>9. ASSUME ReadAnswered(r) PROVE Works(r) /\ Ends(r)
  BY <1>6, <1>7, <1>9 DEF ReadAnswered, HasAnswer
<1>10. ASSUME UpdateAnswered(r) PROVE Works(r) /\ (Ends(r) \/ Creates(r))
  <2>0. q.phase = "update"
    BY <1>10 DEF UpdateAnswered, HasAnswer
  <2>1. CASE /\ c = 0 /\ q.op = "add"
             /\ Continue(r, "create", 0, LineItems(NoLines, q.item, q.qty))
             /\ ticket' = 0
    <3>1. LineItems(NoLines, q.item, q.qty) = Intended(q, NoLines)
      BY <2>1, Fields, FirstLine
    <3>2. Intended(q, NoLines) \in Lines /\ "create" \in Phases
      BY IdleIs, IntentTyped, Fields DEF Phases
    <3>3. GoesOn(r, q.obj, "create", 0, Intended(q, NoLines))
      BY <2>1, <3>1, <3>2, Continuing
    <3> QED
      BY <1>1, <2>0, <2>1, <3>3 DEF Works, Creates
  <2>2. CASE Respond(r, Mapped(r), Kept(r))
    BY <1>6, <1>7, <2>0, <2>2
  <2> QED
    BY <1>10, <2>1, <2>2 DEF UpdateAnswered
<1>11. ASSUME CreateAnswered(r) PROVE Works(r) /\ Ends(r)
  <2>1. Respond(r, Mapped(r), 0)
    BY <1>11 DEF CreateAnswered
  <2>2. Ends(r) /\ ticket' \in {0, Bound'}
    BY <1>1, <1>2, <2>1, Responding
  <2> QED
    BY <1>1, <2>2 DEF Works
<1> QED
  BY <1>8, <1>9, <1>10, <1>11

LEMMA Attaching ==
  ASSUME TypeOK, NEW r \in Requests, AttachAnswered(r)
  PROVE  /\ req[r].phase = "attach" /\ req[r].answered /\ UNCHANGED answerVars
         /\ \/ /\ req[r].got.cart # 0 /\ Bound' = req[r].got.cart
               /\ state' = [state EXCEPT ![Entry] = req[r].got] /\ ticket' = 0
               /\ Rebinds(r) /\ Reads(r)
            \/ /\ req[r].got.cart = 0 /\ Ends(r) /\ UNCHANGED <<state, ticket, crossed>>
<1>1. req[r].phase = "attach" /\ req[r].answered /\ UNCHANGED answerVars
  BY DEF AttachAnswered, HasAnswer
<1>2. Entry' = Entry /\ Entry \in Objects
  BY <1>1, EntryIs DEF answerVars
<1>3. CASE /\ req[r].got.cart # 0 /\ state' = [state EXCEPT ![Entry] = req[r].got]
           /\ ticket' = 0 /\ Rebinds(r) /\ ReadAgain(r)
  <2>1. Bound' = req[r].got.cart
    BY <1>2, <1>3 DEF Bound, TypeOK
  <2>2. Bound' \in {0} \cup Carts
    BY <2>1, Fields
  <2> QED
    BY <1>1, <1>3, <2>1, <2>2, ReadingAgain DEF Reads
<1>4. CASE req[r].got.cart = 0 /\ Leave(r) /\ UNCHANGED <<state, ticket, crossed>>
  BY <1>1, <1>4, Leaving
<1> QED
  BY <1>3, <1>4 DEF AttachAnswered

\* The first call of an operation.
FirstCall(r, op, v, n, o, phase, c, items) ==
  /\ Goes(r, op, v, n, o, phase, c, items)
  /\ \/ phase \in {"refresh", "read"} /\ o = Entry /\ c = Bound
     \/ /\ phase = "create" /\ o = Entry /\ c = 0 /\ Bound = 0
        /\ items = [NoLines EXCEPT ![v] = IF op = "add" THEN @ + n ELSE n]
     \/ phase = "attach" /\ o = 0 /\ c \in alive

Started(r) ==
  /\ req[r].phase = "idle"
  /\ UNCHANGED <<hostVars, shopVars, faults, asked, disturbed, clobbered, crossed, resent, drifted>>
  /\ ops' = ops + 1 /\ ops < MaxOps
  /\ \E op \in Ops, v \in Variants, n \in Nat, o \in {0} \cup Objects, phase \in Phases,
        c \in {0} \cup Carts, items \in Lines : FirstCall(r, op, v, n, o, phase, c, items)

LEMMA Beginning ==
  ASSUME TypeOK, NEW r \in Requests,
         NEW op \in Ops, NEW v \in Variants, NEW n \in Nat, NEW phase \in Phases,
         NEW items \in Lines, Begin(r, op, v, n, phase, items)
  PROVE  /\ req[r].phase = "idle"
         /\ UNCHANGED <<hostVars, shopVars, faults, asked, disturbed, clobbered, crossed,
                        resent, drifted>>
         /\ ops' = ops + 1 /\ ops < MaxOps
         /\ Entry \in {0} \cup Objects /\ Bound \in {0} \cup Carts
         /\ Goes(r, op, v, n, Entry, phase, Bound, items)
<1>1. Entry \in {0} \cup Objects /\ Bound \in {0} \cup Carts
  BY EntryIs, BoundTyped
<1>2. req' = [req EXCEPT ![r] = Sent(op, v, n, Entry, phase, Bound, items)]
  BY DEF Begin, Bound
<1>3. Goes(r, op, v, n, Entry, phase, Bound, items)
  BY <1>1, <1>2, Going
<1> QED
  BY <1>1, <1>3 DEF Begin

LEMMA Starting ==
  ASSUME TypeOK, NEW r \in Requests, Starts(r)
  PROVE  Started(r)
<1>1. NoLines \in Lines /\ Idle.item \in Variants
  BY IdleIs DEF Request
<1>2. ASSUME NEW op \in Ops, NEW v \in Variants, NEW n \in Nat, NEW phase \in {"refresh", "read"},
             Begin(r, op, v, n, phase, NoLines)
      PROVE  Started(r)
  <2>1. phase \in Phases
    BY DEF Phases
  <2>2. /\ req[r].phase = "idle"
        /\ UNCHANGED <<hostVars, shopVars, faults, asked, disturbed, clobbered, crossed,
                       resent, drifted>>
        /\ ops' = ops + 1 /\ ops < MaxOps
        /\ Entry \in {0} \cup Objects /\ Bound \in {0} \cup Carts
        /\ Goes(r, op, v, n, Entry, phase, Bound, NoLines)
    BY <1>1, <1>2, <2>1, Beginning
  <2> QED
    BY <1>1, <2>1, <2>2 DEF Started, FirstCall
<1>3. CASE GetCart(r)
  BY <1>1, <1>2, <1>3 DEF GetCart, Ops
<1>4. ASSUME NEW v \in Variants, AddToCart(r, v) PROVE Started(r)
  <2>1. CASE Begin(r, "add", v, 1, "refresh", NoLines)
    BY <1>2, <2>1 DEF Ops
  <2>2. CASE /\ state[Entry].cart = 0
             /\ Begin(r, "add", v, 1, "create", LineItems(state[Entry].lines, v, 1))
    <3> DEFINE items == LineItems(state[Entry].lines, v, 1)
    <3>1. state[Entry].lines = NoLines
      BY <2>2, EntryIs DEF TypeOK
    <3>2. NoLines[v] + 1 = 1
      BY DEF NoLines
    <3>3. items = [NoLines EXCEPT ![v] = @ + 1]
      BY <3>1, <3>2 DEF LineItems
    <3> HIDE DEF items
    <3>4. items \in Lines
      <4>1. items = [NoLines EXCEPT ![v] = 1]
        BY <3>2, <3>3
      <4> QED
        BY <1>1, <4>1 DEF Lines
    <3>5. Begin(r, "add", v, 1, "create", items)
      BY <2>2 DEF items
    <3>6. "add" \in Ops /\ "create" \in Phases /\ 1 \in Nat
      BY DEF Ops, Phases
    <3>7. Bound = 0
      BY <2>2 DEF Bound
    <3>8. /\ req[r].phase = "idle"
          /\ UNCHANGED <<hostVars, shopVars, faults, asked, disturbed, clobbered, crossed,
                         resent, drifted>>
          /\ ops' = ops + 1 /\ ops < MaxOps
          /\ Entry \in {0} \cup Objects /\ Bound \in {0} \cup Carts
          /\ Goes(r, "add", v, 1, Entry, "create", Bound, items)
      BY <3>4, <3>5, <3>6, Beginning
    <3>9. items = [NoLines EXCEPT ![v] = IF "add" = "add" THEN @ + 1 ELSE 1]
      BY <3>3
    <3> QED
      BY <3>4, <3>6, <3>7, <3>8, <3>9 DEF Started, FirstCall
  <2> QED
    BY <1>4, <2>1, <2>2 DEF AddToCart
<1>5. ASSUME NEW v \in Variants, NEW n \in {0, 2}, SetLine(r, v, n) PROVE Started(r)
  BY <1>2, <1>5 DEF SetLine, Ops
<1>6. ASSUME NEW c \in alive, AttachCart(r, c) PROVE Started(r)
  <2>1. /\ "attach" \in Ops /\ "attach" \in Phases /\ 0 \in Nat /\ 0 \in {0} \cup Objects
        /\ c \in {0} \cup Carts
    BY DEF Ops, Phases, TypeOK
  <2>2. Goes(r, "attach", Idle.item, 0, 0, "attach", c, NoLines)
    BY <1>1, <1>6, <2>1, Going DEF AttachCart
  <2>3. /\ req[r].phase = "idle" /\ ops' = ops + 1 /\ ops < MaxOps
        /\ UNCHANGED <<hostVars, shopVars, faults, asked, disturbed, clobbered, crossed, resent,
                       drifted>>
    BY <1>6 DEF AttachCart
  <2> QED
    BY <1>1, <2>1, <2>2, <2>3 DEF Started, FirstCall
<1> QED
  BY <1>3, <1>4, <1>5, <1>6 DEF Starts

LEMMA Performing ==
  ASSUME TypeOK, NEW r \in Requests
  PROVE  /\ PerformGet(r) => IsAnswered(r, req[r].cart, shop[req[r].cart])
         /\ PerformUpdate(r) => IsAnswered(r, req[r].cart, req[r].items)
         /\ PerformCreate(r) => IsAnswered(r, made + 1, req[r].items)
         /\ PerformGone(r) => IsAnswered(r, 0, NoLines)
<1>1. /\ req[r].cart \in {0} \cup Carts /\ req[r].items \in Lines /\ NoLines \in Lines
      /\ alive \subseteq Carts /\ shop \in [Carts -> Lines]
      /\ made + 1 <= MaxCarts => made + 1 \in {0} \cup Carts
  BY Fields, IdleIs, CartBoundsAssumption DEF TypeOK, Carts
<1>2. ASSUME PerformGet(r) PROVE IsAnswered(r, req[r].cart, shop[req[r].cart])
  <2>1. req[r].cart \in alive /\ Answered(r, req[r].cart, shop[req[r].cart])
    BY <1>2 DEF PerformGet
  <2>2. shop[req[r].cart] \in Lines
    BY <1>1, <2>1
  <2> QED
    BY <1>1, <2>1, <2>2, Answering
<1>3. ASSUME PerformUpdate(r) PROVE IsAnswered(r, req[r].cart, req[r].items)
  BY <1>1, <1>3, Answering DEF PerformUpdate
<1>4. ASSUME PerformCreate(r) PROVE IsAnswered(r, made + 1, req[r].items)
  BY <1>1, <1>4, Answering DEF PerformCreate
<1>5. ASSUME PerformGone(r) PROVE IsAnswered(r, 0, NoLines)
  BY <1>1, <1>5, Answering DEF PerformGone
<1> QED
  BY <1>2, <1>3, <1>4, <1>5

LEMMA SendingAgain ==
  ASSUME TypeOK, NEW r \in Requests, SendAgain(r)
  PROVE  IsSentAgain(r)
<1>1. PICK t \in Transports :
        req' = [req EXCEPT ![r] = [req[r] EXCEPT !.via = t, !.again = TRUE,
                                                 !.answered = FALSE, !.got = Nothing]]
  BY DEF SendAgain, TypeOK
<1> DEFINE q == [req[r] EXCEPT !.via = t, !.again = TRUE, !.answered = FALSE, !.got = Nothing]
<1>2. /\ q \in Request /\ Same(q, req[r])
      /\ q.landed = req[r].landed /\ q.answered = FALSE /\ q.got = Nothing
  BY Fields, AgainIs
<1> HIDE DEF q
<1>3. req' = [req EXCEPT ![r] = q]
  BY <1>1 DEF q
<1>4. Turns(r, q)
  BY <1>2, <1>3, Turned
<1> QED
  BY <1>2, <1>4 DEF IsSentAgain

\* The steps, as the invariants see them.
Step(r) ==
  \/ Started(r)
  \/ PerformGet(r) /\ IsAnswered(r, req[r].cart, shop[req[r].cart])
  \/ PerformUpdate(r) /\ IsAnswered(r, req[r].cart, req[r].items)
  \/ PerformCreate(r) /\ IsAnswered(r, made + 1, req[r].items)
  \/ PerformGone(r) /\ IsAnswered(r, 0, NoLines)
  \/ Refused(r) /\ Ends(r)
  \/ SendAgain(r) /\ IsSentAgain(r)
  \/ GiveUp(r) /\ Ends(r)
  \/ Works(r) /\ (Ends(r) \/ Updates(r) \/ Creates(r) \/ Reads(r))
  \/ AttachAnswered(r)

LEMMA Steps ==
  ASSUME TypeOK, Shape, [Next]_vars
  PROVE  \/ \E r \in Requests : Step(r)
         \/ CheckoutHandoff \/ Reset
         \/ \E c \in Carts : CartGoes(c) \/ \E v \in Variants : Edit(c, v)
         \/ LateUpdate
         \/ UNCHANGED vars
<1>1. ASSUME NEW r \in Requests, Starts(r) PROVE Step(r)
  BY <1>1, Starting DEF Step
<1>2. ASSUME NEW r \in Requests, Calls(r) PROVE Step(r)
  <2>1. Refused(r) => Leave(r)
    BY DEF Refused
  <2>2. GiveUp(r) => Leave(r)
    BY DEF GiveUp
  <2> QED
    BY <1>2, <2>1, <2>2, Performing, SendingAgain, Leaving DEF Calls, Step
<1>3. ASSUME NEW r \in Requests, Answers(r) PROVE Step(r)
  BY <1>3, Working DEF Answers, Step
<1> QED
  BY <1>1, <1>2, <1>3 DEF Next

-----------------------------------------------------------------------------
(* Types. *)

LEMMA TypesKept ==
  ASSUME TypeOK, Shape, [Next]_vars
  PROVE  TypeOK'
<1> USE DEF hostVars, shopVars, historyVars, answerVars
<1>0. MaxCarts \in Nat /\ MaxOps \in Nat /\ MaxFaults \in Nat
  BY CartBoundsAssumption
<1>1. ASSUME NEW r \in Requests, Started(r) PROVE TypeOK'
  BY <1>0, <1>1 DEF TypeOK, Started, FirstCall, Goes, Turns
<1>2. ASSUME NEW r \in Requests, PerformGet(r), IsAnswered(r, req[r].cart, shop[req[r].cart])
      PROVE  TypeOK'
  BY <1>2 DEF TypeOK, PerformGet, IsAnswered, Turns
<1>3. ASSUME NEW r \in Requests, PerformUpdate(r), IsAnswered(r, req[r].cart, req[r].items)
      PROVE  TypeOK'
  <2>1. /\ req[r].cart \in Carts /\ req[r].items \in Lines
        /\ Intended(req[r], asked[req[r].cart]) \in Lines
    BY <1>3, Fields, IntentTyped DEF PerformUpdate, TypeOK
  <2>2. shop' \in [Carts -> Lines] /\ asked' \in [Carts -> Lines]
    BY <1>3, <2>1 DEF PerformUpdate, Wrote, TypeOK
  <2>3. disturbed' \subseteq Requests /\ clobbered' \subseteq Carts
    BY <1>3, <2>1 DEF PerformUpdate, Wrote, TypeOK, Busy
  <2> QED
    BY <1>3, <2>2, <2>3 DEF TypeOK, PerformUpdate, IsAnswered, Turns, Detached
<1>4. ASSUME NEW r \in Requests, PerformCreate(r), IsAnswered(r, made + 1, req[r].items)
      PROVE  TypeOK'
  <2>1. /\ made + 1 \in Carts /\ made' \in 0 .. MaxCarts
        /\ req[r].items \in Lines /\ Intended(req[r], NoLines) \in Lines
    BY <1>0, <1>4, Fields, IntentTyped, IdleIs DEF PerformCreate, TypeOK, Carts
  <2>2. shop' \in [Carts -> Lines] /\ asked' \in [Carts -> Lines] /\ alive' \subseteq Carts
    BY <1>4, <2>1 DEF PerformCreate, TypeOK
  <2>3. disturbed' \subseteq Requests
    BY <1>4 DEF PerformCreate, TypeOK, Busy
  <2> QED
    BY <1>4, <2>1, <2>2, <2>3 DEF TypeOK, PerformCreate, IsAnswered, Turns, Detached
<1>5. ASSUME NEW r \in Requests, PerformGone(r), IsAnswered(r, 0, NoLines)
      PROVE  TypeOK'
  BY <1>5 DEF TypeOK, PerformGone, IsAnswered, Turns
<1>6. ASSUME NEW r \in Requests, Refused(r), Ends(r)
      PROVE  TypeOK'
  BY <1>6 DEF TypeOK, Refused, Ends, Turns
<1>7. ASSUME NEW r \in Requests
      PROVE  Abandoned(r) \subseteq [cart: Carts, items: Lines]
  BY Fields DEF Abandoned, Shape, Shaped
<1>8. ASSUME NEW r \in Requests, SendAgain(r), IsSentAgain(r)
      PROVE  TypeOK'
  BY <1>0, <1>7, <1>8 DEF TypeOK, SendAgain, IsSentAgain, Turns
<1>9. ASSUME NEW r \in Requests, GiveUp(r), Ends(r)
      PROVE  TypeOK'
  BY <1>7, <1>9 DEF TypeOK, GiveUp, Ends, Turns
<1>10. ASSUME NEW r \in Requests, Works(r), Ends(r) \/ Updates(r) \/ Creates(r) \/ Reads(r)
       PROVE  TypeOK'
  <2>1. /\ state' \in [Objects -> Document]
        /\ \A o \in Objects : state'[o].cart = 0 => state'[o].lines = NoLines
    BY <1>10, Mapping DEF Works
  <2>2. Bound' \in {0} \cup Carts
    BY <1>10, <2>1, EntryIs DEF Works, Bound, Document
  <2>3. req' \in [Requests -> Request] /\ disturbed' \subseteq Requests
    BY <1>10 DEF Ends, Updates, Creates, Reads, GoesOn, Goes, Turns, TypeOK
  <2>4. ticket' \in {0} \cup Carts
    BY <1>10, <2>2 DEF Works, TypeOK
  <2>5. crossed' \in BOOLEAN
    BY <1>10 DEF Works, Rebinds, TypeOK
  <2> QED
    BY <1>10, <2>1, <2>3, <2>4, <2>5 DEF TypeOK, Works
<1>11. ASSUME NEW r \in Requests, AttachAnswered(r)
       PROVE  TypeOK'
  <2>1. /\ state' \in [Objects -> Document]
        /\ \A o \in Objects : state'[o].cart = 0 => state'[o].lines = NoLines
    BY <1>11, Attaching, Fields, EntryIs DEF Shape, Shaped, TypeOK
  <2>2. req' \in [Requests -> Request] /\ disturbed' \subseteq Requests
    BY <1>11, Attaching DEF Ends, Reads, GoesOn, Goes, Turns, TypeOK
  <2>3. ticket' \in {0} \cup Carts /\ crossed' \in BOOLEAN
    BY <1>11, Attaching DEF TypeOK, Rebinds
  <2> QED
    BY <1>11, <2>1, <2>2, <2>3, Attaching DEF TypeOK
<1>12. CASE CheckoutHandoff
  <2>1. ticket' \in {0} \cup Carts
    BY <1>12, EntryIs DEF CheckoutHandoff, Url, TypeOK, Document
  <2> QED
    BY <1>12, <2>1 DEF CheckoutHandoff, TypeOK
<1>13. CASE Reset
  BY <1>13 DEF Reset, TypeOK
<1>14. ASSUME NEW c \in Carts, CartGoes(c)
       PROVE  TypeOK'
  BY <1>0, <1>14 DEF CartGoes, TypeOK
<1>15. ASSUME NEW c \in Carts, NEW v \in Variants, Edit(c, v)
       PROVE  TypeOK'
  <2>1. ASSUME NEW f \in [Carts -> Lines]
        PROVE  [f EXCEPT ![c][v] = @ + 1] \in [Carts -> Lines]
    BY DEF Lines
  <2>2. shop' \in [Carts -> Lines] /\ asked' \in [Carts -> Lines]
    BY <1>15, <2>1 DEF Edit, TypeOK
  <2>3. disturbed' \subseteq Requests /\ faults' \in 0 .. MaxFaults
    BY <1>0, <1>15 DEF Edit, TypeOK, Busy
  <2> QED
    BY <1>15, <2>2, <2>3 DEF Edit, TypeOK
<1>16. CASE LateUpdate
  <2>1. PICK w \in late :
          /\ late' = late \ {w} /\ shop' = [shop EXCEPT ![w.cart] = w.items]
          /\ clobbered' = clobbered \cup {w.cart} /\ disturbed' = disturbed \cup Busy
          /\ UNCHANGED <<hostVars, req, alive, made, ops, faults, asked, crossed, resent, drifted>>
    BY <1>16 DEF LateUpdate
  <2>2. w.cart \in Carts /\ w.items \in Lines
    BY <2>1 DEF TypeOK
  <2>3. /\ shop' \in [Carts -> Lines] /\ clobbered' \subseteq Carts /\ disturbed' \subseteq Requests
        /\ late' \subseteq [cart: Carts, items: Lines]
    BY <2>1, <2>2 DEF TypeOK, Busy
  <2> QED
    BY <2>1, <2>3 DEF TypeOK
<1>17. CASE UNCHANGED vars
  BY <1>17 DEF vars, TypeOK
<1> QED
  BY <1>1, <1>2, <1>3, <1>4, <1>5, <1>6, <1>8, <1>9, <1>10, <1>11, <1>12, <1>13, <1>14, <1>15,
     <1>16, <1>17, Steps DEF Step

-----------------------------------------------------------------------------
(* What an operation holds. *)

LEMMA OneShaped ==
  ASSUME Shape, NEW r \in Requests, NEW q, Turns(r, q), Shaped(q)
  PROVE  Shape'
<1>1. ASSUME NEW s \in Requests PROVE Shaped(req'[s])
  BY <1>1 DEF Turns, Shape
<1> QED
  BY <1>1 DEF Shape, Shaped, Intended

LEMMA ShapeKept ==
  ASSUME TypeOK, Shape, [Next]_vars
  PROVE  Shape'
<1>0. req' = req => Shape'
  BY DEF Shape, Shaped, Intended
<1>1. ASSUME NEW r \in Requests, Started(r) PROVE Shape'
  <2>1. PICK op \in Ops, v \in Variants, n \in Nat, o \in {0} \cup Objects, phase \in Phases,
             c \in {0} \cup Carts, items \in Lines :
          FirstCall(r, op, v, n, o, phase, c, items)
    BY <1>1 DEF Started
  <2>2. PICK q \in Request : Turns(r, q) /\ IsSent(q, op, v, n, o, phase, c, items)
    BY <2>1 DEF FirstCall, Goes
  <2>3. Entry # 0
    BY EntryIs DEF Objects
  <2>4. phase = "create" => q.items = Intended(q, NoLines)
    BY <2>1, <2>2 DEF FirstCall, IsSent, Intended
  <2>5. Shaped(q)
    BY <2>1, <2>2, <2>3, <2>4, IdleIs DEF FirstCall, IsSent, Shaped
  <2> QED
    BY <2>2, <2>5, OneShaped
<1>2. ASSUME NEW r \in Requests, NEW c, NEW lines, c = 0 => lines = NoLines,
             req[r].phase # "idle", IsAnswered(r, c, lines)
      PROVE  Shape'
  <2>1. PICK q \in Request :
          /\ Turns(r, q) /\ Same(q, req[r]) /\ q.got.cart = c /\ q.got.lines = lines
    BY <1>2 DEF IsAnswered
  <2>2. Shaped(req[r]) /\ Intended(q, NoLines) = Intended(req[r], NoLines)
    BY <2>1, SameIntent DEF Shape
  <2>3. Shaped(q)
    BY <1>2, <2>1, <2>2 DEF Shaped, Same
  <2> QED
    BY <2>1, <2>3, OneShaped
<1>3. ASSUME NEW r \in Requests, Ends(r) PROVE Shape'
  <2>1. Shaped(Idle)
    BY IdleIs DEF Shaped
  <2> QED
    BY <1>3, <2>1, OneShaped DEF Ends
<1>4. ASSUME NEW r \in Requests, SendAgain(r), IsSentAgain(r) PROVE Shape'
  <2>1. PICK q \in Request :
          /\ Turns(r, q) /\ Same(q, req[r]) /\ q.answered = FALSE /\ q.got = Nothing
    BY <1>4 DEF IsSentAgain
  <2>2. Shaped(req[r]) /\ Intended(q, NoLines) = Intended(req[r], NoLines)
    BY <2>1, SameIntent DEF Shape
  <2>3. Shaped(q)
    BY <2>1, <2>2, IdleIs DEF Shaped, Same
  <2> QED
    BY <2>1, <2>3, OneShaped
<1>5. ASSUME NEW r \in Requests, NEW o, NEW phase, NEW c, NEW items, GoesOn(r, o, phase, c, items),
             o # 0, phase \notin {"idle", "attach"}, phase = "update" => c # 0,
             phase = "create" => items = Intended(req[r], NoLines)
      PROVE  Shape'
  <2>1. PICK q \in Request :
          /\ Turns(r, q)
          /\ IsSent(q, req[r].op, req[r].item, req[r].qty, o, phase, c, items)
    BY <1>5 DEF GoesOn, Goes
  <2>2. phase = "create" => q.items = Intended(q, NoLines)
    BY <1>5, <2>1 DEF IsSent, Intended
  <2>3. Shaped(q)
    BY <1>5, <2>1, <2>2, IdleIs DEF IsSent, Shaped
  <2> QED
    BY <2>1, <2>3, OneShaped
<1>6. Entry # 0
  BY EntryIs DEF Objects
<1>7. ASSUME NEW r \in Requests, Works(r), Ends(r) \/ Updates(r) \/ Creates(r) \/ Reads(r)
      PROVE  Shape'
  <2>1. req[r].obj # 0
    BY <1>7 DEF Works, Shape, Shaped
  <2> QED
    BY <1>3, <1>5, <1>6, <1>7, <2>1 DEF Updates, Creates, Reads
<1>8. ASSUME NEW r \in Requests, AttachAnswered(r) PROVE Shape'
  BY <1>3, <1>5, <1>6, <1>8, Attaching DEF Reads
<1>9. ASSUME NEW r \in Requests, Step(r) PROVE Shape'
  <2>1. CASE PerformGet(r) /\ IsAnswered(r, req[r].cart, shop[req[r].cart])
    <3>1. req[r].cart # 0 /\ req[r].phase # "idle"
      BY <2>1, CartBoundsAssumption DEF PerformGet, OnTheWay, TypeOK, Carts
    <3> QED
      BY <1>2, <2>1, <3>1
  <2>2. CASE PerformUpdate(r) /\ IsAnswered(r, req[r].cart, req[r].items)
    <3>1. req[r].cart # 0 /\ req[r].phase # "idle"
      BY <2>2, CartBoundsAssumption DEF PerformUpdate, OnTheWay, TypeOK, Carts
    <3> QED
      BY <1>2, <2>2, <3>1
  <2>3. CASE PerformCreate(r) /\ IsAnswered(r, made + 1, req[r].items)
    <3>1. made + 1 # 0 /\ req[r].phase # "idle"
      BY <2>3 DEF PerformCreate, OnTheWay, TypeOK
    <3> QED
      BY <1>2, <2>3, <3>1
  <2>4. CASE PerformGone(r) /\ IsAnswered(r, 0, NoLines)
    <3>1. req[r].phase # "idle"
      BY <2>4 DEF PerformGone, OnTheWay
    <3> QED
      BY <1>2, <2>4, <3>1
  <2> QED
    BY <1>1, <1>3, <1>4, <1>7, <1>8, <1>9, <2>1, <2>2, <2>3, <2>4 DEF Step
<1>10. CheckoutHandoff \/ Reset \/ LateUpdate \/ UNCHANGED vars => req' = req
  BY DEF CheckoutHandoff, Reset, LateUpdate, vars
<1>11. \A c \in Carts : CartGoes(c) \/ (\E v \in Variants : Edit(c, v)) => req' = req
  BY DEF CartGoes, Edit
<1> QED
  BY <1>0, <1>9, <1>10, <1>11, Steps

-----------------------------------------------------------------------------
(* No cart is named before the shop made it. *)

LEMMA KnownGrows ==
  ASSUME TypeOK, made' \in {made, made + 1}
  PROVE  Known \subseteq Known'
BY DEF TypeOK, Known, CustomerCart

\* An operation may name what the session is bound to, and what it named already.
LEMMA OneNames ==
  ASSUME TypeOK, CartsExist, made' \in {made, made + 1}, NEW r \in Requests, NEW q, Turns(r, q),
         Names(q) \subseteq {0} \cup Known'
  PROVE  \A s \in Requests : Names(req[s])' \subseteq {0} \cup Known'
<1>1. ASSUME NEW s \in Requests PROVE Names(req'[s]) \subseteq {0} \cup Known'
  BY <1>1, KnownGrows DEF Turns, CartsExist
<1> QED
  BY <1>1 DEF Names

LEMMA CartsKept ==
  ASSUME TypeOK, Shape, CartsExist, [Next]_vars
  PROVE  CartsExist'
<1> USE DEF hostVars, shopVars, answerVars
<1>0. Bound \in {0} \cup Known
  BY EntryIs DEF CartsExist, Bound
<1>1. ASSUME NEW r \in Requests, Started(r) PROVE CartsExist'
  <2>1. PICK op \in Ops, v \in Variants, n \in Nat, o \in {0} \cup Objects, phase \in Phases,
             c \in {0} \cup Carts, items \in Lines :
          FirstCall(r, op, v, n, o, phase, c, items)
    BY <1>1 DEF Started
  <2>2. PICK q \in Request : Turns(r, q) /\ IsSent(q, op, v, n, o, phase, c, items)
    BY <2>1 DEF FirstCall, Goes
  <2>3. made' = made /\ alive' = alive /\ state' = state
    BY <1>1 DEF Started
  <2>4. Known' = Known
    BY <2>3 DEF Known
  <2>5. Names(q) \subseteq {0} \cup Known
    BY <1>0, <2>1, <2>2, IdleIs DEF FirstCall, IsSent, Names, CartsExist
  <2>6. \A s \in Requests : Names(req[s])' \subseteq {0} \cup Known'
    BY <2>2, <2>3, <2>4, <2>5, OneNames
  <2> QED
    BY <2>3, <2>4, <2>6 DEF CartsExist
<1>2. ASSUME NEW r \in Requests, NEW c \in {0} \cup Known', NEW lines, IsAnswered(r, c, lines),
             made' \in {made, made + 1}, alive' \subseteq Known', state' = state
      PROVE  CartsExist'
  <2>1. PICK q \in Request : Turns(r, q) /\ Same(q, req[r]) /\ q.got.cart = c
    BY <1>2 DEF IsAnswered
  <2>2. Names(q) \subseteq {0} \cup Known'
    BY <1>2, <2>1, KnownGrows DEF Same, Names, CartsExist
  <2>3. \A s \in Requests : Names(req[s])' \subseteq {0} \cup Known'
    BY <1>2, <2>1, <2>2, OneNames
  <2> QED
    BY <1>2, <2>3, KnownGrows DEF CartsExist
<1>3. ASSUME NEW r \in Requests, Ends(r), made' = made, alive' = alive,
             \A o \in Objects : state'[o].cart \in {0} \cup Known
      PROVE  CartsExist'
  <2>1. Known' = Known
    BY <1>3 DEF Known
  <2>2. Names(Idle) \subseteq {0} \cup Known'
    BY IdleIs DEF Names
  <2>3. \A s \in Requests : Names(req[s])' \subseteq {0} \cup Known'
    BY <1>3, <2>2, OneNames DEF Ends
  <2> QED
    BY <1>3, <2>1, <2>3 DEF CartsExist
<1>4. ASSUME NEW r \in Requests, SendAgain(r), IsSentAgain(r) PROVE CartsExist'
  <2>1. PICK q \in Request : Turns(r, q) /\ Same(q, req[r]) /\ q.got = Nothing
    BY <1>4 DEF IsSentAgain
  <2>2. made' = made /\ alive' = alive /\ state' = state
    BY <1>4 DEF SendAgain
  <2>3. Known' = Known
    BY <2>2 DEF Known
  <2>4. Names(q) \subseteq {0} \cup Known'
    BY <2>1, <2>3, IdleIs DEF Same, Names, CartsExist
  <2>5. \A s \in Requests : Names(req[s])' \subseteq {0} \cup Known'
    BY <2>1, <2>2, <2>4, OneNames
  <2> QED
    BY <2>2, <2>3, <2>5 DEF CartsExist
<1>5. ASSUME NEW r \in Requests, NEW o, NEW phase, NEW c \in {0} \cup Known, NEW items,
             GoesOn(r, o, phase, c, items), made' = made, alive' = alive,
             \A x \in Objects : state'[x].cart \in {0} \cup Known
      PROVE  CartsExist'
  <2>1. PICK q \in Request :
          /\ Turns(r, q)
          /\ IsSent(q, req[r].op, req[r].item, req[r].qty, o, phase, c, items)
    BY <1>5 DEF GoesOn, Goes
  <2>2. Known' = Known
    BY <1>5 DEF Known
  <2>3. Names(q) \subseteq {0} \cup Known'
    BY <1>5, <2>1, <2>2, IdleIs DEF IsSent, Names
  <2>4. \A s \in Requests : Names(req[s])' \subseteq {0} \cup Known'
    BY <1>5, <2>1, <2>3, OneNames
  <2> QED
    BY <1>5, <2>2, <2>4 DEF CartsExist
<1>6. \A r \in Requests : req[r].got.cart \in {0} \cup Known
  BY DEF CartsExist, Names
<1>7. ASSUME NEW r \in Requests, Works(r), Ends(r) \/ Updates(r) \/ Creates(r) \/ Reads(r)
      PROVE  CartsExist'
  <2>1. made' = made /\ alive' = alive /\ Entry' = Entry
    BY <1>7, EntryIs DEF Works
  <2>2. \A o \in Objects : state'[o].cart \in {0} \cup Known
    BY <1>6, <1>7, Mapping DEF Works, CartsExist
  <2>3. Bound' \in {0} \cup Known
    BY <2>1, <2>2, EntryIs DEF Bound
  <2>4. CASE Ends(r)
    BY <1>3, <2>1, <2>2, <2>4
  <2>5. CASE Updates(r)
    BY <1>5, <1>6, <2>1, <2>2, <2>5 DEF Updates
  <2>6. CASE Creates(r)
    BY <1>5, <2>1, <2>2, <2>6 DEF Creates
  <2>7. CASE Reads(r)
    <3>1. PICK c \in {0} \cup Known : c = Bound'
      BY <2>3
    <3> QED
      BY <1>5, <2>1, <2>2, <2>7, <3>1 DEF Reads
  <2> QED
    BY <1>7, <2>4, <2>5, <2>6, <2>7
<1>8. ASSUME NEW r \in Requests, AttachAnswered(r) PROVE CartsExist'
  <2>1. made' = made /\ alive' = alive
    BY <1>8, Attaching
  <2>2. \A o \in Objects : state'[o].cart \in {0} \cup Known
    BY <1>6, <1>8, Attaching DEF CartsExist, TypeOK
  <2>3. CASE Ends(r)
    BY <1>3, <2>1, <2>2, <2>3
  <2>4. CASE Reads(r) /\ Bound' = req[r].got.cart
    <3>1. PICK c \in {0} \cup Known : c = Bound'
      BY <1>6, <2>4
    <3> QED
      BY <1>5, <2>1, <2>2, <2>4, <3>1 DEF Reads
  <2> QED
    BY <1>8, <2>3, <2>4, Attaching
<1>9. ASSUME NEW r \in Requests, Step(r) PROVE CartsExist'
  <2>1. CASE PerformGet(r) /\ IsAnswered(r, req[r].cart, shop[req[r].cart])
    <3>1. made' = made /\ alive' = alive /\ state' = state
      BY <2>1 DEF PerformGet
    <3>2. Known' = Known /\ req[r].cart \in {0} \cup Known
      BY <3>1 DEF Known, CartsExist, Names
    <3> QED
      BY <1>2, <2>1, <3>1, <3>2 DEF CartsExist
  <2>2. CASE PerformUpdate(r) /\ IsAnswered(r, req[r].cart, req[r].items)
    <3>1. made' = made /\ alive' = alive /\ state' = state
      BY <2>2 DEF PerformUpdate
    <3>2. Known' = Known /\ req[r].cart \in {0} \cup Known
      BY <3>1 DEF Known, CartsExist, Names
    <3> QED
      BY <1>2, <2>2, <3>1, <3>2 DEF CartsExist
  <2>3. CASE PerformCreate(r) /\ IsAnswered(r, made + 1, req[r].items)
    <3>1. made' = made + 1 /\ alive' = alive \cup {made + 1} /\ state' = state
      BY <2>3 DEF PerformCreate
    <3>2. made + 1 \in {0} \cup Known' /\ alive' \subseteq Known'
      BY <3>1, KnownGrows DEF Known, CartsExist, TypeOK
    <3> QED
      BY <1>2, <2>3, <3>1, <3>2
  <2>4. CASE PerformGone(r) /\ IsAnswered(r, 0, NoLines)
    <3>1. made' = made /\ alive' = alive /\ state' = state
      BY <2>4 DEF PerformGone
    <3>2. Known' = Known /\ 0 \in {0} \cup Known'
      BY <3>1 DEF Known
    <3> QED
      BY <1>2, <2>4, <3>1, <3>2 DEF CartsExist
  <2>5. CASE (Refused(r) \/ GiveUp(r)) /\ Ends(r)
    <3>1. made' = made /\ alive' = alive /\ state' = state
      BY <2>5 DEF Refused, GiveUp
    <3> QED
      BY <1>3, <2>5, <3>1 DEF CartsExist
  <2> QED
    BY <1>1, <1>4, <1>7, <1>8, <1>9, <2>1, <2>2, <2>3, <2>4, <2>5 DEF Step
<1>10. ASSUME req' = req, made' = made, state' = state, alive' \subseteq alive
       PROVE  CartsExist'
  BY <1>10 DEF CartsExist, Known, Names
<1>11. CheckoutHandoff \/ Reset \/ LateUpdate \/ UNCHANGED vars =>
         req' = req /\ made' = made /\ state' = state /\ alive' \subseteq alive
  BY DEF CheckoutHandoff, Reset, LateUpdate, vars
<1>12. \A c \in Carts : CartGoes(c) \/ (\E v \in Variants : Edit(c, v)) =>
         req' = req /\ made' = made /\ state' = state /\ alive' \subseteq alive
  BY DEF CartGoes, Edit
<1> QED
  BY <1>9, <1>10, <1>11, <1>12, Steps

-----------------------------------------------------------------------------
(* The binding, as long as no change of it overtook another operation. *)

LEMMA StillHolds ==
  ASSUME ended' = ended, Bound' = Bound, Bound \notin alive => Bound \notin alive',
         NEW q, Holds(q)
  PROVE  Holds(q)'
BY EntryIs DEF Holds, Reading

LEMMA BindingsOn ==
  ASSUME Bindings, NEW r \in Requests, NEW q, Turns(r, q),
         ended' = ended,
         ~crossed' => ~crossed /\ (Bound' = Bound \/ Busy \ {r} = {}),
         Bound' = Bound => (Bound \notin alive => Bound \notin alive'),
         ~crossed' => (ticket' # 0 => Bound' = ticket'),
         ~crossed' /\ q.phase # "idle" => Holds(q)'
  PROVE  Bindings'
<1> SUFFICES ASSUME ~crossed', NEW s \in Busy' PROVE Holds(req[s])'
  BY DEF Bindings
<1>1. PICK p : p = req'[s]
  OBVIOUS
<1>2. s \in Requests /\ p.phase # "idle"
  BY <1>1 DEF Busy
<1>3. Holds(p)'
  <2>1. CASE s = r
    BY <1>1, <1>2, <2>1 DEF Turns
  <2>2. CASE s # r
    <3>1. p = req[s]
      BY <1>1, <1>2, <2>2 DEF Turns
    <3>2. s \in Busy \ {r}
      BY <1>2, <2>2, <3>1 DEF Busy
    <3>3. ~crossed /\ Bound' = Bound
      BY <3>2
    <3>4. Holds(p)
      BY <3>1, <3>2, <3>3 DEF Bindings
    <3> QED
      BY <3>3, <3>4, StillHolds
  <2> QED
    BY <2>1, <2>2
<1> QED
  BY <1>1, <1>3 DEF Holds, Reading

LEMMA BoundKept ==
  ASSUME ended' = ended, state' = state
  PROVE  Bound' = Bound /\ Entry' = Entry
BY EntryIs DEF Bound

LEMMA BindingsKept ==
  ASSUME TypeOK, Shape, CartsExist, Bindings, [Next]_vars
  PROVE  Bindings'
<1> USE DEF hostVars, shopVars, answerVars, historyVars
<1>0. ~crossed => (ticket # 0 => Bound = ticket)
  BY DEF Bindings
<1>1. ASSUME NEW r \in Requests, Started(r) PROVE Bindings'
  <2>1. PICK op \in Ops, v \in Variants, n \in Nat, o \in {0} \cup Objects, phase \in Phases,
             c \in {0} \cup Carts, items \in Lines :
          FirstCall(r, op, v, n, o, phase, c, items)
    BY <1>1 DEF Started
  <2>2. PICK q \in Request : Turns(r, q) /\ IsSent(q, op, v, n, o, phase, c, items)
    BY <2>1 DEF FirstCall, Goes
  <2>3. /\ alive' = alive /\ crossed' = crossed /\ ticket' = ticket /\ ended' = ended
        /\ Bound' = Bound /\ Entry' = Entry
    BY <1>1, BoundKept DEF Started
  <2>4. Holds(q)'
    BY <2>1, <2>2, <2>3 DEF FirstCall, IsSent, Holds, Reading
  <2> QED
    BY <1>0, <2>2, <2>3, <2>4, BindingsOn
<1>2. ASSUME NEW r \in Requests, NEW c, NEW lines, IsAnswered(r, c, lines),
             state' = state, ended' = ended, crossed' = crossed, ticket' = ticket,
             req[r].phase # "idle",
             Bound \notin alive => Bound \notin alive',
             c = req[r].cart \/ (c = 0 /\ req[r].cart \notin alive') \/ req[r].phase = "create"
      PROVE  Bindings'
  <2>1. PICK q \in Request :
          Turns(r, q) /\ Same(q, req[r]) /\ q.answered = TRUE /\ q.got.cart = c
    BY <1>2 DEF IsAnswered
  <2>2. Bound' = Bound /\ Entry' = Entry
    BY <1>2, BoundKept
  <2>3. ~crossed => Holds(req[r])
    BY <1>2 DEF Bindings, Busy
  <2>4. ~crossed' => Holds(q)'
    BY <1>2, <2>1, <2>2, <2>3 DEF Holds, Reading, Same
  <2> QED
    BY <1>0, <1>2, <2>1, <2>2, <2>4, BindingsOn
<1>3. ASSUME NEW r \in Requests, Ends(r), ended' = ended,
             ~crossed' => ~crossed /\ (Bound' = Bound \/ Busy \ {r} = {}),
             alive' = alive,
             ~crossed' => (ticket' # 0 => Bound' = ticket')
      PROVE  Bindings'
  <2>1. PICK q : q = Idle
    OBVIOUS
  <2>2. Turns(r, q) /\ q.phase = "idle"
    BY <1>3, <2>1, IdleIs DEF Ends
  <2> QED
    BY <1>3, <2>2, BindingsOn
<1>4. ASSUME NEW r \in Requests, SendAgain(r), IsSentAgain(r) PROVE Bindings'
  <2>1. PICK q \in Request :
          Turns(r, q) /\ Same(q, req[r]) /\ q.answered = FALSE
    BY <1>4 DEF IsSentAgain
  <2>2. /\ alive' = alive /\ crossed' = crossed /\ ticket' = ticket /\ ended' = ended
        /\ Bound' = Bound /\ Entry' = Entry /\ req[r].phase # "idle"
    BY <1>4, BoundKept DEF SendAgain
  <2>3. ~crossed => Holds(req[r])
    BY <2>2 DEF Bindings, Busy
  <2>4. ~crossed' => Holds(q)'
    BY <2>1, <2>2, <2>3 DEF Holds, Reading, Same
  <2> QED
    BY <1>0, <2>1, <2>2, <2>4, BindingsOn
<1>5. ASSUME NEW r \in Requests, NEW o, NEW phase, NEW c, NEW items, GoesOn(r, o, phase, c, items),
             ended' = ended, ~crossed' => ~crossed /\ (Bound' = Bound \/ Busy \ {r} = {}),
             alive' = alive,
             ~crossed' => /\ ticket' # 0 => Bound' = ticket'
                          /\ o = Entry
                          /\ phase \in {"refresh", "read", "update", "create"}
                          /\ c = Bound' /\ (phase = "create" => c = 0)
      PROVE  Bindings'
  <2>1. PICK q \in Request :
          /\ Turns(r, q)
          /\ IsSent(q, req[r].op, req[r].item, req[r].qty, o, phase, c, items)
    BY <1>5 DEF GoesOn, Goes
  <2>2. Entry' = Entry
    BY <1>5, EntryIs
  <2>3. ~crossed' => Holds(q)'
    BY <1>5, <2>1, <2>2 DEF IsSent, Holds, Reading
  <2> QED
    BY <1>5, <2>1, <2>3, BindingsOn
<1>7. ASSUME NEW r \in Requests, Works(r), Ends(r) \/ Updates(r) \/ Creates(r) \/ Reads(r)
      PROVE  Bindings'
  <2>1. /\ alive' = alive /\ Entry' = Entry /\ ended' = ended
        /\ ~crossed' => ~crossed /\ (Bound' = Bound \/ Busy \ {r} = {})
    BY <1>7, EntryIs DEF Works, Rebinds
  <2>2. ~crossed => Holds(req[r])
    BY <1>7 DEF Works, Bindings, Busy
  <2>3. ~crossed => req[r].obj = Entry /\ Bound' = req[r].got.cart
    BY <1>7, <2>1, <2>2, EntryIs, Mapping DEF Works, Holds, Shape, Shaped, Bound
  <2>4. ~crossed' => (ticket' # 0 => Bound' = ticket')
    BY <1>7, <2>1, <2>2, <2>3 DEF Works, Holds, Reading, Bindings
  <2>5. CASE Ends(r)
    BY <1>3, <2>1, <2>4, <2>5
  <2>6. CASE Updates(r)
    BY <1>5, <2>1, <2>3, <2>4, <2>6 DEF Updates
  <2>7. CASE Creates(r)
    BY <1>5, <2>1, <2>3, <2>4, <2>7 DEF Creates
  <2>8. CASE Reads(r)
    <3>1. PICK c : c = Bound'
      OBVIOUS
    <3>2. GoesOn(r, Entry, "read", c, NoLines)
      BY <2>8, <3>1 DEF Reads
    <3> QED
      BY <1>5, <2>1, <2>4, <3>1, <3>2
  <2> QED
    BY <1>7, <2>5, <2>6, <2>7, <2>8
<1>8. ASSUME NEW r \in Requests, AttachAnswered(r) PROVE Bindings'
  <2>1. alive' = alive /\ ended' = ended
    BY <1>8, Attaching
  <2>2. CASE Ends(r) /\ UNCHANGED <<state, ticket, crossed>>
    <3>1. Bound' = Bound
      BY <2>1, <2>2, BoundKept
    <3> QED
      BY <1>0, <1>3, <2>1, <2>2, <3>1
  <2>3. CASE Reads(r) /\ ticket' = 0 /\ Rebinds(r)
    <3>1. PICK c : c = Bound'
      OBVIOUS
    <3>2. GoesOn(r, Entry, "read", c, NoLines)
      BY <2>3, <3>1 DEF Reads
    <3> QED
      BY <1>5, <2>1, <2>3, <3>1, <3>2 DEF Rebinds
  <2> QED
    BY <1>8, <2>2, <2>3, Attaching
<1>9. ASSUME NEW r \in Requests, Step(r) PROVE Bindings'
  <2>1. CASE PerformGet(r) /\ IsAnswered(r, req[r].cart, shop[req[r].cart])
    <3>1. req[r].phase # "idle"
      BY <2>1 DEF PerformGet, OnTheWay
    <3> QED
      BY <1>2, <2>1, <3>1 DEF PerformGet
  <2>2. CASE PerformUpdate(r) /\ IsAnswered(r, req[r].cart, req[r].items)
    <3>1. req[r].phase # "idle"
      BY <2>2 DEF PerformUpdate, OnTheWay
    <3> QED
      BY <1>2, <2>2, <3>1 DEF PerformUpdate
  <2>3. CASE PerformCreate(r) /\ IsAnswered(r, made + 1, req[r].items)
    <3>1. req[r].phase = "create" /\ made + 1 <= MaxCarts /\ alive' = alive \cup {made + 1}
      BY <2>3 DEF PerformCreate, OnTheWay
    <3>2. Bound # made + 1
      BY <3>1, EntryIs, CartBoundsAssumption DEF CartsExist, Known, CustomerCart, Bound, TypeOK
    <3> QED
      BY <1>2, <2>3, <3>1, <3>2 DEF PerformCreate
  <2>4. CASE PerformGone(r) /\ IsAnswered(r, 0, NoLines)
    <3>1. req[r].phase # "idle"
      BY <2>4 DEF PerformGone, OnTheWay
    <3> QED
      BY <1>2, <2>4, <3>1 DEF PerformGone
  <2>5. CASE (Refused(r) \/ GiveUp(r)) /\ Ends(r)
    <3>1. alive' = alive /\ ended' = ended /\ state' = state /\ ticket' = ticket
          /\ crossed' = crossed
      BY <2>5 DEF Refused, GiveUp
    <3> QED
      BY <1>0, <1>3, <2>5, <3>1, BoundKept
  <2> QED
    BY <1>1, <1>4, <1>7, <1>8, <1>9, <2>1, <2>2, <2>3, <2>4, <2>5 DEF Step
<1>10. ASSUME req' = req, state' = state, ended' = ended, crossed' = crossed,
              alive' \subseteq alive,
              ticket' # 0 => ticket' = ticket \/ ticket' = Bound
       PROVE  Bindings'
  <2>1. Bound' = Bound /\ Entry' = Entry
    BY <1>10, BoundKept
  <2> QED
    BY <1>10, <2>1 DEF Bindings, Busy, Holds, Reading
<1>11. CASE CheckoutHandoff
  BY <1>10, <1>11 DEF CheckoutHandoff, Url, Bound
<1>12. CASE Reset
  <2> SUFFICES ASSUME ~crossed', NEW s \in Busy' PROVE FALSE
    BY <1>12 DEF Reset, Bindings
  <2>1. s \in Busy /\ Busy = {}
    BY <1>12 DEF Reset, Busy
  <2> QED
    BY <2>1
<1>13. LateUpdate \/ UNCHANGED vars =>
         /\ req' = req /\ state' = state /\ ended' = ended /\ crossed' = crossed
         /\ alive' \subseteq alive /\ ticket' = ticket
  BY DEF LateUpdate, vars
<1>14. \A c \in Carts : CartGoes(c) \/ (\E v \in Variants : Edit(c, v)) =>
         /\ req' = req /\ state' = state /\ ended' = ended /\ crossed' = crossed
         /\ alive' \subseteq alive /\ ticket' = ticket
  BY DEF CartGoes, Edit
<1> QED
  BY <1>9, <1>10, <1>11, <1>12, <1>13, <1>14, Steps

-----------------------------------------------------------------------------
(* The lines of the carts. *)

LEMMA StillCounted ==
  ASSUME shop' = shop, alive' \subseteq alive, NEW q, Counted(q)
  PROVE  Counted(q)'
BY DEF Counted, Intended

\* A step of one operation that writes no cart.
LEMMA CountsOn ==
  ASSUME Counts, NEW r \in Requests, NEW q, Turns(r, q),
         shop' = shop, asked' = asked, clobbered' = clobbered, alive' \subseteq alive,
         disturbed \ {r} \subseteq disturbed',
         r \notin disturbed' => Counted(q)'
  PROVE  Counts'
<1>1. \A c \in Carts \ clobbered' : shop'[c] = asked'[c]
  BY DEF Counts
<1>2. ASSUME NEW s \in Requests \ disturbed' PROVE Counted(req[s])'
  <2>1. PICK p : p = req'[s]
    OBVIOUS
  <2>2. Counted(p)'
    <3>1. CASE s = r
      BY <2>1, <3>1 DEF Turns
    <3>2. CASE s # r
      <4>1. p = req[s] /\ s \in Requests \ disturbed
        BY <2>1, <3>2 DEF Turns
      <4>2. Counted(p)
        BY <4>1 DEF Counts
      <4> QED
        BY <4>2, StillCounted
    <3> QED
      BY <3>1, <3>2
  <2> QED
    BY <2>1, <2>2 DEF Counted, Intended
<1> QED
  BY <1>1, <1>2 DEF Counts

\* A step that writes a cart: every other operation under way is disturbed.
LEMMA CountsWritten ==
  ASSUME NEW r \in Requests, NEW q, Turns(r, q),
         \A c \in Carts \ clobbered' : shop'[c] = asked'[c],
         Busy \ {r} \subseteq disturbed',
         r \notin disturbed' => Counted(q)'
  PROVE  Counts'
<1>1. ASSUME NEW s \in Requests \ disturbed' PROVE Counted(req[s])'
  <2>1. PICK p : p = req'[s]
    OBVIOUS
  <2>2. Counted(p)'
    <3>1. CASE s = r
      BY <2>1, <3>1 DEF Turns
    <3>2. CASE s # r
      <4>1. p.phase = "idle"
        BY <2>1, <3>2 DEF Turns, Busy
      <4> QED
        BY <4>1 DEF Counted
    <3> QED
      BY <3>1, <3>2
  <2> QED
    BY <2>1, <2>2 DEF Counted, Intended
<1> QED
  BY <1>1 DEF Counts

LEMMA CountsKept ==
  ASSUME TypeOK, Shape, CartsExist, Counts, [Next]_vars
  PROVE  Counts'
<1> USE DEF hostVars, shopVars, answerVars, historyVars
<1>1. ASSUME NEW r \in Requests, Started(r) PROVE Counts'
  <2>1. PICK op \in Ops, v \in Variants, n \in Nat, o \in {0} \cup Objects, phase \in Phases,
             c \in {0} \cup Carts, items \in Lines :
          FirstCall(r, op, v, n, o, phase, c, items)
    BY <1>1 DEF Started
  <2>2. PICK q \in Request : Turns(r, q) /\ IsSent(q, op, v, n, o, phase, c, items)
    BY <2>1 DEF FirstCall, Goes
  <2>3. Counted(q)'
    BY <2>1, <2>2 DEF FirstCall, IsSent, Counted
  <2> QED
    BY <1>1, <2>2, <2>3, CountsOn DEF Started
<1>2. ASSUME NEW r \in Requests, PerformGet(r), IsAnswered(r, req[r].cart, shop[req[r].cart])
      PROVE  Counts'
  <2>1. PICK q \in Request :
          /\ Turns(r, q) /\ Same(q, req[r]) /\ q.got.cart = req[r].cart
          /\ q.got.lines = shop[req[r].cart]
    BY <1>2 DEF IsAnswered
  <2>2. /\ shop' = shop /\ asked' = asked /\ clobbered' = clobbered /\ alive' = alive
        /\ disturbed' = disturbed /\ req[r].phase \in {"refresh", "read", "attach"}
    BY <1>2 DEF PerformGet, OnTheWay
  <2>3. Counted(q)'
    BY <2>1, <2>2 DEF Same, Counted
  <2> QED
    BY <2>1, <2>2, <2>3, CountsOn
<1>3. ASSUME NEW r \in Requests, PerformUpdate(r), IsAnswered(r, req[r].cart, req[r].items)
      PROVE  Counts'
  <2> DEFINE c == req[r].cart
  <2>1. PICK q \in Request :
          Turns(r, q) /\ Same(q, req[r]) /\ q.landed = TRUE /\ q.answered = TRUE
    BY <1>3 DEF IsAnswered
  <2>2. /\ req[r].phase = "update" /\ c \in alive /\ c \in Carts
        /\ shop' = [shop EXCEPT ![c] = req[r].items]
        /\ asked' = [asked EXCEPT ![c] = IF req[r].landed THEN asked[c]
                                                          ELSE Intended(req[r], asked[c])]
        /\ clobbered' = IF r \in disturbed THEN clobbered \cup {c} ELSE clobbered
        /\ disturbed' = disturbed \cup (Busy \ {r})
    BY <1>3 DEF PerformUpdate, OnTheWay, Wrote, TypeOK
  <2>3. shop'[c] = req[r].items /\ \A d \in Carts : d # c => shop'[d] = shop[d]
    BY <2>2 DEF TypeOK
  <2>4. /\ asked'[c] = IF req[r].landed THEN asked[c] ELSE Intended(req[r], asked[c])
        /\ \A d \in Carts : d # c => asked'[d] = asked[d]
    BY <2>2 DEF TypeOK
  <2>5. Counted(q)'
    BY <2>1, <2>2, <2>3 DEF Same, Counted
  <2>6. c \notin clobbered' => shop'[c] = asked'[c]
    <3> SUFFICES ASSUME c \notin clobbered' PROVE shop'[c] = asked'[c]
      OBVIOUS
    <3>1. r \notin disturbed /\ c \notin clobbered
      BY <2>2
    <3>2. shop[c] = asked[c] /\ Counted(req[r])
      BY <2>2, <3>1 DEF Counts
    <3>3. req[r].items = IF req[r].landed THEN shop[c] ELSE Intended(req[r], shop[c])
      BY <2>2, <3>2 DEF Counted
    <3> QED
      BY <2>3, <2>4, <3>2, <3>3
  <2>7. \A d \in Carts \ clobbered' : shop'[d] = asked'[d]
    BY <2>2, <2>3, <2>4, <2>6 DEF Counts
  <2> QED
    BY <2>1, <2>2, <2>5, <2>7, CountsWritten
<1>4. ASSUME NEW r \in Requests, PerformCreate(r), IsAnswered(r, made + 1, req[r].items)
      PROVE  Counts'
  <2> DEFINE c == made + 1
  <2>1. PICK q \in Request : Turns(r, q) /\ Same(q, req[r])
    BY <1>4 DEF IsAnswered
  <2>2. /\ req[r].phase = "create" /\ shop' = [shop EXCEPT ![c] = req[r].items]
        /\ asked' = [asked EXCEPT ![c] = Intended(req[r], NoLines)]
        /\ clobbered' = clobbered /\ disturbed' = disturbed \cup (Busy \ {r})
    BY <1>4 DEF PerformCreate, OnTheWay
  <2>3. req[r].items = Intended(req[r], NoLines)
    BY <2>2 DEF Shape, Shaped
  <2> HIDE DEF c
  <2>4. \A d \in Carts \ clobbered' : shop'[d] = asked'[d]
    BY <2>2, <2>3 DEF Counts, TypeOK
  <2>5. Counted(q)'
    BY <2>1, <2>2 DEF Same, Counted
  <2> QED
    BY <2>1, <2>2, <2>4, <2>5, CountsWritten
<1>5. ASSUME NEW r \in Requests, PerformGone(r), IsAnswered(r, 0, NoLines)
      PROVE  Counts'
  <2>1. PICK q \in Request :
          Turns(r, q) /\ Same(q, req[r]) /\ q.got.cart = 0
    BY <1>5 DEF IsAnswered
  <2>2. /\ shop' = shop /\ asked' = asked /\ clobbered' = clobbered /\ alive' = alive
        /\ disturbed' = disturbed /\ req[r].cart \notin alive
    BY <1>5 DEF PerformGone
  <2>3. Counted(q)'
    BY <2>1, <2>2 DEF Same, Counted
  <2> QED
    BY <2>1, <2>2, <2>3, CountsOn
<1>6. ASSUME NEW r \in Requests, Ends(r), shop' = shop, asked' = asked,
             clobbered' = clobbered, alive' = alive
      PROVE  Counts'
  <2>1. PICK q : q = Idle
    OBVIOUS
  <2>2. Turns(r, q) /\ q.phase = "idle" /\ disturbed' = disturbed \ {r}
    BY <1>6, <2>1, IdleIs DEF Ends
  <2>3. Counted(q)'
    BY <2>2 DEF Counted
  <2> QED
    BY <1>6, <2>2, <2>3, CountsOn
<1>7. ASSUME NEW r \in Requests, SendAgain(r), IsSentAgain(r) PROVE Counts'
  <2>1. PICK q \in Request :
          /\ Turns(r, q) /\ Same(q, req[r]) /\ q.answered = FALSE
          /\ q.landed = req[r].landed
    BY <1>7 DEF IsSentAgain
  <2>2. /\ shop' = shop /\ asked' = asked /\ clobbered' = clobbered /\ alive' = alive
        /\ disturbed' = disturbed
    BY <1>7 DEF SendAgain
  <2>3. r \notin disturbed => Counted(req[r])
    BY DEF Counts
  <2>4. Intended(q, shop[q.cart]) = Intended(req[r], shop[q.cart])
    BY <2>1, SameIntent
  <2>5. r \notin disturbed => Counted(q)
    BY <2>1, <2>3, <2>4 DEF Same, Counted
  <2>6. r \notin disturbed' => Counted(q)'
    BY <2>2, <2>5, StillCounted
  <2> QED
    BY <2>1, <2>2, <2>6, CountsOn
<1>8. ASSUME NEW r \in Requests, NEW o, NEW phase, NEW c, NEW items, GoesOn(r, o, phase, c, items),
             shop' = shop, asked' = asked, clobbered' = clobbered, alive' = alive,
             r \notin disturbed /\ phase = "update" => items = Intended(req[r], shop[c])
      PROVE  Counts'
  <2>1. PICK q \in Request :
          /\ Turns(r, q)
          /\ IsSent(q, req[r].op, req[r].item, req[r].qty, o, phase, c, items)
    BY <1>8 DEF GoesOn, Goes
  <2>2. disturbed' = disturbed
    BY <1>8 DEF GoesOn
  <2>3. phase = "update" => Intended(q, shop[c]) = Intended(req[r], shop[c])
    BY <2>1 DEF IsSent, Intended
  <2>4. r \notin disturbed' => Counted(q)
    BY <1>8, <2>1, <2>2, <2>3 DEF IsSent, Counted
  <2>5. r \notin disturbed' => Counted(q)'
    BY <1>8, <2>4, StillCounted
  <2> QED
    BY <1>8, <2>1, <2>2, <2>5, CountsOn
<1>9. ASSUME NEW r \in Requests, Works(r), Ends(r) \/ Updates(r) \/ Creates(r) \/ Reads(r)
      PROVE  Counts'
  <2>1. shop' = shop /\ asked' = asked /\ clobbered' = clobbered /\ alive' = alive
    BY <1>9 DEF Works
  <2>2. r \notin disturbed /\ req[r].phase = "refresh" /\ req[r].got.cart # 0
          => req[r].got.lines = shop[req[r].got.cart]
    BY <1>9 DEF Works, Counts, Counted
  <2>3. CASE Ends(r)
    BY <1>6, <2>1, <2>3
  <2>4. CASE Updates(r)
    BY <1>8, <2>1, <2>2, <2>4 DEF Updates
  <2>5. CASE Creates(r)
    BY <1>8, <2>1, <2>5 DEF Creates
  <2>6. CASE Reads(r)
    <3>1. PICK c : c = Bound'
      OBVIOUS
    <3>2. GoesOn(r, Entry, "read", c, NoLines)
      BY <2>6, <3>1 DEF Reads
    <3> QED
      BY <1>8, <2>1, <3>2
  <2> QED
    BY <1>9, <2>3, <2>4, <2>5, <2>6
<1>10. ASSUME NEW r \in Requests, AttachAnswered(r) PROVE Counts'
  <2>1. shop' = shop /\ asked' = asked /\ clobbered' = clobbered /\ alive' = alive
    BY <1>10, Attaching
  <2>2. CASE Ends(r)
    BY <1>6, <2>1, <2>2
  <2>3. CASE Reads(r)
    <3>1. PICK c : c = Bound'
      OBVIOUS
    <3>2. GoesOn(r, Entry, "read", c, NoLines)
      BY <2>3, <3>1 DEF Reads
    <3> QED
      BY <1>8, <2>1, <3>2
  <2> QED
    BY <1>10, <2>2, <2>3, Attaching
<1>11. ASSUME NEW r \in Requests, Refused(r) \/ GiveUp(r), Ends(r) PROVE Counts'
  BY <1>6, <1>11 DEF Refused, GiveUp
<1>12. ASSUME req' = req, shop' = shop, asked' = asked, clobbered' = clobbered,
              alive' \subseteq alive, disturbed' = disturbed
       PROVE  Counts'
  BY <1>12 DEF Counts, Counted, Intended
<1>13. CheckoutHandoff \/ Reset \/ UNCHANGED vars =>
         /\ req' = req /\ shop' = shop /\ asked' = asked /\ clobbered' = clobbered
         /\ alive' \subseteq alive /\ disturbed' = disturbed
  BY DEF CheckoutHandoff, Reset, vars
<1>14. \A c \in Carts : CartGoes(c) =>
         /\ req' = req /\ shop' = shop /\ asked' = asked /\ clobbered' = clobbered
         /\ alive' \subseteq alive /\ disturbed' = disturbed
  BY DEF CartGoes
<1>15. ASSUME req' = req, disturbed' = disturbed \cup Busy,
              \A c \in Carts \ clobbered' : shop'[c] = asked'[c]
       PROVE  Counts'
  BY <1>15 DEF Counts, Counted, Busy
<1>16. ASSUME NEW c \in Carts, NEW v \in Variants, Edit(c, v) PROVE Counts'
  <2>1. /\ shop' = [shop EXCEPT ![c][v] = @ + 1] /\ asked' = [asked EXCEPT ![c][v] = @ + 1]
        /\ clobbered' = clobbered /\ req' = req /\ disturbed' = disturbed \cup Busy
    BY <1>16 DEF Edit
  <2>2. \A d \in Carts \ clobbered' : shop'[d] = asked'[d]
    BY <2>1 DEF Counts, TypeOK
  <2> QED
    BY <1>15, <2>1, <2>2
<1>17. CASE LateUpdate
  <2>1. PICK w \in late :
          /\ shop' = [shop EXCEPT ![w.cart] = w.items] /\ asked' = asked
          /\ clobbered' = clobbered \cup {w.cart} /\ disturbed' = disturbed \cup Busy
          /\ req' = req
    BY <1>17 DEF LateUpdate
  <2>2. \A d \in Carts \ clobbered' : shop'[d] = asked'[d]
    BY <2>1 DEF Counts, TypeOK
  <2> QED
    BY <1>15, <2>1, <2>2
<1> QED
  BY <1>1, <1>2, <1>3, <1>4, <1>5, <1>7, <1>9, <1>10, <1>11, <1>12, <1>13, <1>14, <1>16, <1>17,
     Steps DEF Step

-----------------------------------------------------------------------------
(* One answer at a time. *)

LEMMA SentOnceOn ==
  ASSUME SentOnce, NEW r \in Requests, NEW q, Turns(r, q),
         transport' = transport,
         ~resent' => ~resent /\ late' = late,
         ~resent' /\ q.phase # "idle" => ~q.again /\ q.via = transport
  PROVE  SentOnce'
<1> SUFFICES ASSUME ~resent', NEW s \in Busy'
             PROVE  late' = {} /\ ~req'[s].again /\ req'[s].via = transport'
  BY DEF SentOnce
<1>1. s \in Requests /\ req'[s].phase # "idle"
  BY DEF Busy
<1>2. CASE s = r
  BY <1>1, <1>2 DEF Turns, SentOnce
<1>3. CASE s # r
  <2>1. req'[s] = req[s] /\ s \in Busy
    BY <1>1, <1>3 DEF Turns, Busy
  <2> QED
    BY <2>1 DEF SentOnce
<1> QED
  BY <1>2, <1>3

LEMMA SentOnceKept ==
  ASSUME TypeOK, Shape, SentOnce, [Next]_vars
  PROVE  SentOnce'
<1> USE DEF hostVars, shopVars, answerVars, historyVars
<1>1. ASSUME NEW r \in Requests, Started(r) PROVE SentOnce'
  <2>1. PICK op \in Ops, v \in Variants, n \in Nat, o \in {0} \cup Objects, phase \in Phases,
             c \in {0} \cup Carts, items \in Lines :
          FirstCall(r, op, v, n, o, phase, c, items)
    BY <1>1 DEF Started
  <2>2. PICK q \in Request : Turns(r, q) /\ IsSent(q, op, v, n, o, phase, c, items)
    BY <2>1 DEF FirstCall, Goes
  <2>3. resent' = resent /\ late' = late /\ transport' = transport
    BY <1>1 DEF Started
  <2>4. ~q.again /\ q.via = transport
    BY <2>2 DEF IsSent
  <2> QED
    BY <2>2, <2>3, <2>4, SentOnceOn
<1>2. ASSUME NEW r \in Requests, NEW c, NEW lines, IsAnswered(r, c, lines),
             resent' = resent, late' = late, transport' = transport, r \in Busy
      PROVE  SentOnce'
  <2>1. PICK q \in Request :
          /\ Turns(r, q) /\ q.via = req[r].via /\ q.again = req[r].again
    BY <1>2 DEF IsAnswered
  <2>2. ~resent' => ~q.again /\ q.via = transport
    BY <1>2, <2>1 DEF SentOnce
  <2> QED
    BY <1>2, <2>1, <2>2, SentOnceOn
<1>3. ASSUME NEW r \in Requests, Ends(r), transport' = transport,
             ~resent' => ~resent /\ late' = late
      PROVE  SentOnce'
  <2>1. PICK q : q = Idle
    OBVIOUS
  <2>2. Turns(r, q) /\ q.phase = "idle"
    BY <1>3, <2>1, IdleIs DEF Ends
  <2> QED
    BY <1>3, <2>2, SentOnceOn
<1>4. ASSUME NEW r \in Requests, NEW o, NEW phase, NEW c, NEW items, GoesOn(r, o, phase, c, items),
             resent' = resent, late' = late, transport' = transport
      PROVE  SentOnce'
  <2>1. PICK q \in Request :
          /\ Turns(r, q)
          /\ IsSent(q, req[r].op, req[r].item, req[r].qty, o, phase, c, items)
    BY <1>4 DEF GoesOn, Goes
  <2>2. ~q.again /\ q.via = transport
    BY <2>1 DEF IsSent
  <2> QED
    BY <1>4, <2>1, <2>2, SentOnceOn
<1>5. ASSUME NEW r \in Requests, Ends(r) \/ Updates(r) \/ Creates(r) \/ Reads(r),
             resent' = resent, late' = late, transport' = transport
      PROVE  SentOnce'
  <2>1. CASE Reads(r)
    <3>1. PICK c : c = Bound'
      OBVIOUS
    <3>2. GoesOn(r, Entry, "read", c, NoLines)
      BY <2>1, <3>1 DEF Reads
    <3> QED
      BY <1>4, <1>5, <3>2
  <2> QED
    BY <1>3, <1>4, <1>5, <2>1 DEF Updates, Creates
<1>6. ASSUME NEW r \in Requests, Works(r), Ends(r) \/ Updates(r) \/ Creates(r) \/ Reads(r)
      PROVE  SentOnce'
  BY <1>5, <1>6 DEF Works
<1>7. ASSUME NEW r \in Requests, AttachAnswered(r) PROVE SentOnce'
  BY <1>5, <1>7, Attaching
<1>8. ASSUME NEW r \in Requests, Refused(r), Ends(r) PROVE SentOnce'
  BY <1>3, <1>8 DEF Refused
<1>9. ASSUME NEW r \in Requests, GiveUp(r), Ends(r) PROVE SentOnce'
  <2>1. resent' = resent /\ transport' = transport /\ r \in Busy /\ req[r].again
    BY <1>9 DEF GiveUp, Busy
  <2>2. resent
    BY <2>1 DEF SentOnce
  <2> QED
    BY <1>3, <1>9, <2>1, <2>2
<1>10. ASSUME NEW r \in Requests, SendAgain(r) PROVE SentOnce'
  BY <1>10 DEF SendAgain, SentOnce
<1>11. ASSUME NEW r \in Requests, PerformGet(r), IsAnswered(r, req[r].cart, shop[req[r].cart])
       PROVE  SentOnce'
  BY <1>2, <1>11 DEF PerformGet, OnTheWay, Busy
<1>12. ASSUME NEW r \in Requests, PerformUpdate(r), IsAnswered(r, req[r].cart, req[r].items)
       PROVE  SentOnce'
  BY <1>2, <1>12 DEF PerformUpdate, OnTheWay, Busy
<1>13. ASSUME NEW r \in Requests, PerformCreate(r), IsAnswered(r, made + 1, req[r].items)
       PROVE  SentOnce'
  BY <1>2, <1>13 DEF PerformCreate, OnTheWay, Busy
<1>14. ASSUME NEW r \in Requests, PerformGone(r), IsAnswered(r, 0, NoLines)
       PROVE  SentOnce'
  BY <1>2, <1>14 DEF PerformGone, OnTheWay, Busy
<1>15. ASSUME req' = req, resent' = resent, late' \subseteq late, transport' = transport
       PROVE  SentOnce'
  BY <1>15 DEF SentOnce, Busy
<1>16. CheckoutHandoff \/ Reset \/ LateUpdate \/ UNCHANGED vars =>
         req' = req /\ resent' = resent /\ late' \subseteq late /\ transport' = transport
  BY DEF CheckoutHandoff, Reset, LateUpdate, vars
<1>17. \A c \in Carts : CartGoes(c) \/ (\E v \in Variants : Edit(c, v)) =>
         req' = req /\ resent' = resent /\ late' \subseteq late /\ transport' = transport
  BY DEF CartGoes, Edit
<1> QED
  BY <1>1, <1>6, <1>7, <1>8, <1>9, <1>10, <1>11, <1>12, <1>13, <1>14, <1>15, <1>16, <1>17,
     Steps DEF Step

\* Over MCP the shop works on a call only while no other answer waits.
LEMMA NobodyElse ==
  ASSUME TypeOK, Shape, SentOnce, ~resent, transport = "mcp",
         NEW r \in Requests, req[r].phase # "idle", Free(r)
  PROVE  \A s \in Requests : s # r => ~req[s].answered
<1>1. ASSUME NEW s \in Requests, req[s].answered PROVE s \in Busy
  BY <1>1 DEF Shape, Shaped, Busy
<1> QED
  BY <1>1 DEF SentOnce, Busy, Free

LEMMA OneAnswerOn ==
  ASSUME OneAnswer, NEW r \in Requests, NEW q, Turns(r, q), q.answered => req[r].answered,
         ~resent' => ~resent, transport' = transport
  PROVE  OneAnswer'
<1> SUFFICES ASSUME ~resent', transport = "mcp", NEW s \in Requests, NEW t \in Requests,
                    req'[s].answered, req'[t].answered
             PROVE  s = t
  BY DEF OneAnswer
<1>1. req[s].answered /\ req[t].answered
  BY DEF Turns
<1> QED
  BY <1>1 DEF OneAnswer

\* A step of one operation that is not the shop's answer leaves no new answer behind.
LEMMA NoNewAnswer ==
  ASSUME NEW r \in Requests,
         Started(r) \/ Ends(r) \/ IsSentAgain(r) \/ Updates(r) \/ Creates(r) \/ Reads(r)
  PROVE  \E q : Turns(r, q) /\ ~q.answered
<1>1. CASE Started(r)
  <2>1. PICK op \in Ops, v \in Variants, n \in Nat, o \in {0} \cup Objects, phase \in Phases,
             c \in {0} \cup Carts, items \in Lines :
          FirstCall(r, op, v, n, o, phase, c, items)
    BY <1>1 DEF Started
  <2> QED
    BY <2>1 DEF FirstCall, Goes, IsSent
<1>2. CASE Ends(r)
  BY <1>2, IdleIs DEF Ends
<1>3. CASE IsSentAgain(r)
  BY <1>3 DEF IsSentAgain
<1>4. ASSUME NEW o, NEW phase, NEW c, NEW items, GoesOn(r, o, phase, c, items)
      PROVE  \E q : Turns(r, q) /\ ~q.answered
  BY <1>4 DEF GoesOn, Goes, IsSent
<1>5. CASE Reads(r)
  <2>1. PICK c : c = Bound'
    OBVIOUS
  <2>2. GoesOn(r, Entry, "read", c, NoLines)
    BY <1>5, <2>1 DEF Reads
  <2> QED
    BY <1>4, <2>2
<1> QED
  BY <1>1, <1>2, <1>3, <1>4, <1>5 DEF Updates, Creates

LEMMA OneAnswerKept ==
  ASSUME TypeOK, Shape, SentOnce, OneAnswer, [Next]_vars
  PROVE  OneAnswer'
<1> USE DEF hostVars, shopVars, answerVars, historyVars
<1>1. ASSUME NEW r \in Requests, resent' = resent, transport' = transport,
             Started(r) \/ Ends(r) \/ Updates(r) \/ Creates(r) \/ Reads(r)
      PROVE  OneAnswer'
  BY <1>1, NoNewAnswer, OneAnswerOn
<1>2. ASSUME NEW r \in Requests, NEW c, NEW lines, IsAnswered(r, c, lines),
             req[r].phase # "idle", Free(r), resent' = resent, transport' = transport
      PROVE  OneAnswer'
  <2> SUFFICES ASSUME ~resent, transport = "mcp" PROVE \A s \in Requests : req'[s].answered => s = r
    BY <1>2 DEF OneAnswer
  <2>1. PICK q : Turns(r, q)
    BY <1>2 DEF IsAnswered
  <2> QED
    BY <1>2, <2>1, NobodyElse DEF Turns
<1>3. ASSUME NEW r \in Requests, Works(r), Ends(r) \/ Updates(r) \/ Creates(r) \/ Reads(r)
      PROVE  OneAnswer'
  BY <1>1, <1>3 DEF Works
<1>4. ASSUME NEW r \in Requests, AttachAnswered(r) PROVE OneAnswer'
  BY <1>1, <1>4, Attaching
<1>5. ASSUME NEW r \in Requests, SendAgain(r) PROVE OneAnswer'
  BY <1>5 DEF SendAgain, OneAnswer
<1>6. ASSUME NEW r \in Requests, Step(r) PROVE OneAnswer'
  <2>1. Started(r) => resent' = resent /\ transport' = transport
    BY DEF Started
  <2>2. Refused(r) \/ GiveUp(r) => resent' = resent /\ transport' = transport
    BY DEF Refused, GiveUp
  <2>3. PerformGet(r) \/ PerformUpdate(r) \/ PerformCreate(r) \/ PerformGone(r) =>
          req[r].phase # "idle" /\ Free(r) /\ resent' = resent /\ transport' = transport
    BY DEF PerformGet, PerformUpdate, PerformCreate, PerformGone, OnTheWay
  <2>4. CASE PerformGet(r) /\ IsAnswered(r, req[r].cart, shop[req[r].cart])
    BY <1>2, <2>3, <2>4
  <2>5. CASE PerformUpdate(r) /\ IsAnswered(r, req[r].cart, req[r].items)
    BY <1>2, <2>3, <2>5
  <2>6. CASE PerformCreate(r) /\ IsAnswered(r, made + 1, req[r].items)
    BY <1>2, <2>3, <2>6
  <2>7. CASE PerformGone(r) /\ IsAnswered(r, 0, NoLines)
    BY <1>2, <2>3, <2>7
  <2> QED
    BY <1>1, <1>3, <1>4, <1>5, <1>6, <2>1, <2>2, <2>4, <2>5, <2>6, <2>7 DEF Step
<1>7. ASSUME req' = req, resent' = resent, transport' = transport PROVE OneAnswer'
  BY <1>7 DEF OneAnswer
<1>8. CheckoutHandoff \/ Reset \/ LateUpdate \/ UNCHANGED vars =>
        req' = req /\ resent' = resent /\ transport' = transport
  BY DEF CheckoutHandoff, Reset, LateUpdate, vars
<1>9. \A c \in Carts : CartGoes(c) \/ (\E v \in Variants : Edit(c, v)) =>
        req' = req /\ resent' = resent /\ transport' = transport
  BY DEF CartGoes, Edit
<1> QED
  BY <1>6, <1>7, <1>8, <1>9, Steps

-----------------------------------------------------------------------------
(* What the host knows of the lines. *)

\* A step that neither brings nor takes an answer.
LEMMA CurrentOn ==
  ASSUME Current, NEW r \in Requests, NEW q, Turns(r, q), ~req[r].answered, ~q.answered,
         state' = state, ended' = ended, shop' = shop, transport' = transport,
         ~resent' => ~resent, ~drifted' => ~drifted
  PROVE  Current'
<1> SUFFICES ASSUME ~resent, transport = "mcp", ~drifted
             PROVE  /\ \A s \in Requests : req'[s].answered /\ ~Elsewhere(req[s])' =>
                         req'[s].got.lines = shop[req'[s].got.cart]
                    /\ (\A s \in Requests : req'[s].answered => Elsewhere(req[s])') /\ Bound' # 0
                         => state[Entry].lines = shop[Bound]
  BY BoundKept DEF Current
<1>1. Bound' = Bound /\ Entry' = Entry
  BY BoundKept
<1>2. \A s \in Requests : req'[s].answered => req'[s] = req[s]
  BY DEF Turns
<1>3. \A s \in Requests : req[s].answered => req'[s] = req[s]
  BY DEF Turns
<1> QED
  BY <1>1, <1>2, <1>3 DEF Current, Elsewhere

\* The shop's answer holds the lines of the session's cart.
LEMMA AnsweredHere ==
  ASSUME NEW r \in Requests, NEW q, Turns(r, q), q.answered = TRUE,
         ~resent' /\ transport' = "mcp" =>
           \A s \in Requests : s # r => ~req[s].answered,
         q.obj \in {0, Entry}, ended' = ended, q.got.cart # 0,
         q.got.lines = shop'[q.got.cart]
  PROVE  Current'
<1> SUFFICES ASSUME ~resent', transport' = "mcp"
             PROVE  /\ req'[r].answered /\ ~Elsewhere(req[r])'
                    /\ \A s \in Requests : req'[s].answered =>
                         req'[s].got.lines = shop'[req'[s].got.cart]
  BY DEF Current
<1>1. req'[r] = q /\ Entry' = Entry
  BY EntryIs DEF Turns
<1>2. \A s \in Requests : req'[s].answered => s = r
  BY DEF Turns
<1> QED
  BY <1>1, <1>2 DEF Elsewhere

\* The shop's answer is about another object, or about a cart that is gone.
LEMMA AnsweredElsewhere ==
  ASSUME Current, NEW r \in Requests, NEW q, Turns(r, q), q.answered = TRUE,
         ~resent' => ~resent,
         ~resent /\ transport = "mcp" => \A s \in Requests : s # r => ~req[s].answered,
         ~req[r].answered, Elsewhere(q),
         state' = state, ended' = ended, shop' = shop, transport' = transport,
         ~drifted' => ~drifted
  PROVE  Current'
<1> SUFFICES ASSUME ~resent, transport = "mcp", ~drifted
             PROVE  /\ \A s \in Requests : req'[s].answered => Elsewhere(req[s])'
                    /\ Bound' # 0 => state[Entry].lines = shop[Bound]
  BY BoundKept DEF Current
<1>1. Bound' = Bound /\ Entry' = Entry
  BY BoundKept
<1>2. \A s \in Requests : req'[s].answered => s = r
  BY DEF Turns
<1>3. \A s \in Requests : ~req[s].answered
  OBVIOUS
<1> QED
  BY <1>1, <1>2, <1>3 DEF Current, Elsewhere, Turns

\* The only answer is worked up: the host holds the lines, or no cart.
LEMMA WorkedUp ==
  ASSUME OneAnswer, NEW r \in Requests, NEW q, Turns(r, q), ~q.answered, req[r].answered,
         ~resent' => ~resent, transport' = transport,
         ~resent /\ transport = "mcp" /\ ~drifted' /\ Bound' # 0
           => state'[Entry'].lines = shop'[Bound']
  PROVE  Current'
<1> SUFFICES ASSUME ~resent, transport = "mcp"
             PROVE  \A s \in Requests : ~req'[s].answered
  BY DEF Current
<1>1. ASSUME NEW s \in Requests, s # r PROVE ~req'[s].answered
  BY <1>1 DEF Turns, OneAnswer
<1> QED
  BY <1>1 DEF Turns

LEMMA CurrentKept ==
  ASSUME TypeOK, Shape, SentOnce, OneAnswer, Current, [Next]_vars
  PROVE  Current'
<1> USE DEF hostVars, shopVars, answerVars, historyVars
<1>1. ASSUME NEW r \in Requests, ~req[r].answered,
             Started(r) \/ Ends(r),
             state' = state, ended' = ended, shop' = shop, transport' = transport,
             resent' = resent, drifted' = drifted
      PROVE  Current'
  BY <1>1, NoNewAnswer, CurrentOn
<1>2. ASSUME NEW r \in Requests, Started(r) PROVE Current'
  <2>1. ~req[r].answered
    BY <1>2 DEF Started, Shape, Shaped
  <2> QED
    BY <1>1, <1>2, <2>1 DEF Started
<1>3. ASSUME NEW r \in Requests, Refused(r), Ends(r) PROVE Current'
  BY <1>1, <1>3 DEF Refused, OnTheWay
<1>4. ASSUME NEW r \in Requests, GiveUp(r) PROVE Current'
  <2>1. resent' = resent /\ r \in Busy /\ req[r].again
    BY <1>4 DEF GiveUp, Busy
  <2> QED
    BY <2>1 DEF SentOnce, Current
<1>5. ASSUME NEW r \in Requests, SendAgain(r) PROVE Current'
  BY <1>5 DEF SendAgain, Current
<1>6. ASSUME NEW r \in Requests, req[r].phase # "idle", Free(r)
      PROVE  ~resent /\ transport = "mcp" => \A s \in Requests : s # r => ~req[s].answered
  BY <1>6, NobodyElse
<1>7. ASSUME NEW r \in Requests, PerformGet(r), IsAnswered(r, req[r].cart, shop[req[r].cart])
      PROVE  Current'
  <2>1. PICK q \in Request :
          /\ Turns(r, q) /\ Same(q, req[r]) /\ q.answered = TRUE
          /\ q.got.cart = req[r].cart /\ q.got.lines = shop[req[r].cart]
    BY <1>7 DEF IsAnswered
  <2>2. /\ req[r].phase # "idle" /\ Free(r) /\ ~req[r].answered /\ req[r].cart \in alive
        /\ state' = state /\ ended' = ended /\ shop' = shop /\ transport' = transport
        /\ resent' = resent /\ drifted' = (drifted /\ Detached(r))
    BY <1>7 DEF PerformGet, OnTheWay
  <2>3. req[r].cart # 0
    BY <2>2, CartBoundsAssumption DEF TypeOK, Carts
  <2>4. CASE Detached(r)
    <3>1. Elsewhere(q)
      BY <2>1, <2>4 DEF Elsewhere, Detached, Same
    <3>2. ~drifted' => ~drifted
      BY <2>2, <2>4
    <3>3. ~resent /\ transport = "mcp" => \A s \in Requests : s # r => ~req[s].answered
      BY <1>6, <2>2
    <3> QED
      BY <2>1, <2>2, <3>1, <3>2, <3>3, AnsweredElsewhere
  <2>5. CASE ~Detached(r)
    <3>1. q.obj \in {0, Entry}
      BY <2>1, <2>5 DEF Detached, Same
    <3> QED
      BY <1>6, <2>1, <2>2, <2>3, <3>1, AnsweredHere
  <2> QED
    BY <2>4, <2>5
<1>8. ASSUME NEW r \in Requests, NEW c, NEW lines, IsAnswered(r, c, lines), c # 0,
             req[r].phase # "idle", Free(r), lines = shop'[c],
             ended' = ended, transport' = transport, resent' = resent, drifted' = Detached(r)
      PROVE  Current'
  <2>1. PICK q \in Request :
          /\ Turns(r, q) /\ Same(q, req[r]) /\ q.answered = TRUE
          /\ q.got.cart = c /\ q.got.lines = lines
    BY <1>8 DEF IsAnswered
  <2>2. CASE Detached(r)
    BY <1>8, <2>2 DEF Current
  <2>3. CASE ~Detached(r)
    <3>1. q.obj \in {0, Entry}
      BY <2>1, <2>3 DEF Detached, Same
    <3> QED
      BY <1>6, <1>8, <2>1, <3>1, AnsweredHere
  <2> QED
    BY <2>2, <2>3
<1>9. ASSUME NEW r \in Requests, PerformUpdate(r), IsAnswered(r, req[r].cart, req[r].items)
      PROVE  Current'
  <2>1. /\ req[r].phase # "idle" /\ Free(r) /\ req[r].cart \in alive
        /\ ended' = ended /\ transport' = transport /\ resent' = resent
        /\ drifted' = Detached(r) /\ shop' = [shop EXCEPT ![req[r].cart] = req[r].items]
    BY <1>9 DEF PerformUpdate, OnTheWay
  <2>2. req[r].cart # 0 /\ req[r].cart \in Carts
    <3>1. req[r].cart \in Carts
      BY <2>1 DEF TypeOK
    <3>2. 0 \notin Carts
      BY DEF Carts
    <3> QED
      BY <3>1, <3>2
  <2>3. shop'[req[r].cart] = req[r].items
    BY <2>1, <2>2 DEF TypeOK
  <2> QED
    BY <1>8, <1>9, <2>1, <2>2, <2>3
<1>10. ASSUME NEW r \in Requests, PerformCreate(r), IsAnswered(r, made + 1, req[r].items)
       PROVE  Current'
  <2>1. /\ req[r].phase # "idle" /\ Free(r) /\ made + 1 <= MaxCarts
        /\ ended' = ended /\ transport' = transport /\ resent' = resent
        /\ drifted' = Detached(r) /\ shop' = [shop EXCEPT ![made + 1] = req[r].items]
    BY <1>10 DEF PerformCreate, OnTheWay
  <2>2. made + 1 # 0 /\ made + 1 \in Carts
    BY <2>1, CartBoundsAssumption DEF TypeOK, Carts
  <2>3. shop'[made + 1] = req[r].items
    BY <2>1, <2>2 DEF TypeOK
  <2> QED
    BY <1>8, <1>10, <2>1, <2>2, <2>3
<1>11. ASSUME NEW r \in Requests, PerformGone(r), IsAnswered(r, 0, NoLines)
       PROVE  Current'
  <2>1. PICK q \in Request :
          Turns(r, q) /\ q.answered = TRUE /\ q.got.cart = 0
    BY <1>11 DEF IsAnswered
  <2>2. /\ req[r].phase # "idle" /\ Free(r) /\ ~req[r].answered
        /\ state' = state /\ ended' = ended /\ shop' = shop /\ transport' = transport
        /\ resent' = resent /\ drifted' = drifted
    BY <1>11 DEF PerformGone, OnTheWay
  <2>3. Elsewhere(q)
    BY <2>1 DEF Elsewhere
  <2> QED
    BY <1>6, <2>1, <2>2, <2>3, AnsweredElsewhere
<1>12. ASSUME NEW r \in Requests, Works(r), Ends(r) \/ Updates(r) \/ Creates(r) \/ Reads(r)
       PROVE  Current'
  <2>1. PICK q : Turns(r, q) /\ ~q.answered
    BY <1>12, NoNewAnswer
  <2>2. /\ req[r].answered /\ shop' = shop /\ transport' = transport /\ resent' = resent
        /\ drifted' = drifted /\ Entry' = Entry /\ Entry \in Objects
        /\ req[r].phase \notin {"idle", "attach"} /\ state' = Mapped(r)
    BY <1>12, EntryIs DEF Works
  <2>3. /\ req[r].obj \in Objects /\ state'[req[r].obj] = req[r].got
        /\ \A o \in Objects : o # req[r].obj => state'[o] = state[o]
    BY <2>2, Mapping
  <2>4. ASSUME ~resent, transport = "mcp", ~drifted, Bound' # 0
        PROVE  state'[Entry'].lines = shop'[Bound']
    <3>1. CASE req[r].obj = Entry
      <4>1. state'[Entry'] = req[r].got /\ Bound' = req[r].got.cart
        BY <2>2, <2>3, <3>1 DEF Bound
      <4>2. ~Elsewhere(req[r])
        BY <2>4, <3>1, <4>1 DEF Elsewhere
      <4> QED
        BY <2>2, <2>4, <4>1, <4>2 DEF Current
    <3>2. CASE req[r].obj # Entry
      <4>1. state'[Entry'] = state[Entry] /\ Bound' = Bound
        BY <2>2, <2>3, <3>2 DEF Bound
      <4>2. Elsewhere(req[r])
        BY <2>3, <3>2 DEF Elsewhere, Objects
      <4>3. \A s \in Requests : req[s].answered => s = r
        BY <2>2, <2>4 DEF OneAnswer
      <4> QED
        BY <2>2, <2>4, <4>1, <4>2, <4>3 DEF Current
    <3> QED
      BY <3>1, <3>2
  <2> QED
    BY <2>1, <2>2, <2>4, WorkedUp
<1>13. ASSUME NEW r \in Requests, AttachAnswered(r) PROVE Current'
  <2>1. /\ req[r].phase = "attach" /\ req[r].answered /\ UNCHANGED answerVars
        /\ Entry' = Entry /\ Entry \in Objects
    BY <1>13, Attaching, EntryIs
  <2>2. req[r].obj = 0
    BY <2>1 DEF Shape, Shaped
  <2>3. PICK q : Turns(r, q) /\ ~q.answered
    BY <1>13, Attaching, NoNewAnswer
  <2>4. ASSUME ~resent, transport = "mcp", ~drifted, Bound' # 0
        PROVE  state'[Entry'].lines = shop'[Bound']
    <3>1. CASE /\ req[r].got.cart # 0 /\ Bound' = req[r].got.cart
               /\ state' = [state EXCEPT ![Entry] = req[r].got]
      <4>1. state'[Entry'] = req[r].got
        BY <2>1, <3>1 DEF TypeOK
      <4>2. ~Elsewhere(req[r])
        BY <2>2, <3>1 DEF Elsewhere
      <4> QED
        BY <2>1, <2>4, <3>1, <4>1, <4>2 DEF Current
    <3>2. CASE req[r].got.cart = 0 /\ state' = state
      <4>1. state'[Entry'] = state[Entry] /\ Bound' = Bound
        BY <2>1, <3>2 DEF Bound
      <4>2. Elsewhere(req[r])
        BY <3>2 DEF Elsewhere
      <4>3. \A s \in Requests : req[s].answered => s = r
        BY <2>1, <2>4 DEF OneAnswer
      <4> QED
        BY <2>1, <2>4, <4>1, <4>2, <4>3 DEF Current
    <3> QED
      BY <1>13, <3>1, <3>2, Attaching
  <2> QED
    BY <2>1, <2>3, <2>4, WorkedUp
<1>14. ASSUME NEW r \in Requests, Step(r) PROVE Current'
  BY <1>2, <1>3, <1>4, <1>5, <1>7, <1>9, <1>10, <1>11, <1>12, <1>13, <1>14 DEF Step
<1>15. ASSUME req' = req, state' = state, ended' = ended, shop' = shop, transport' = transport,
              resent' = resent, drifted' = drifted
       PROVE  Current'
  BY <1>15, BoundKept DEF Current, Elsewhere
<1>16. CheckoutHandoff \/ UNCHANGED vars \/ (\E c \in Carts : CartGoes(c)) =>
         /\ req' = req /\ state' = state /\ ended' = ended /\ shop' = shop
         /\ transport' = transport /\ resent' = resent /\ drifted' = drifted
  BY DEF CheckoutHandoff, CartGoes, vars
<1>17. Reset \/ (\E c \in Carts, v \in Variants : Edit(c, v)) => drifted' = TRUE
  BY DEF Reset, Edit
<1>18. LateUpdate => resent' = resent /\ resent
  BY DEF LateUpdate, SentOnce
<1>19. drifted' = TRUE \/ (resent' = resent /\ resent) => Current'
  BY DEF Current
<1> QED
  BY <1>14, <1>15, <1>16, <1>17, <1>18, <1>19, Steps

-----------------------------------------------------------------------------
(* The theorems. *)

LEMMA InitInvariant == Init => IInv
<1> SUFFICES ASSUME Init PROVE IInv
  OBVIOUS
<1>1. /\ Nothing \in Document /\ Nothing.cart = 0 /\ Nothing.lines = NoLines
      /\ NoLines \in Lines /\ Idle \in Request
      /\ Idle.phase = "idle" /\ Idle.answered = FALSE
      /\ Idle.cart = 0 /\ Idle.got = Nothing
  BY IdleIs
<1>2. MaxCarts \in Nat /\ MaxOps \in Nat /\ MaxFaults \in Nat
  BY CartBoundsAssumption
<1>3. \A r \in Requests : req[r] = Idle
  BY DEF Init
<1>4. \A o \in Objects : state[o] = Nothing
  BY DEF Init
<1>5. Entry \in Objects
  BY EntryIs
<1>6. TypeOK
  <2>1. alive \subseteq Carts /\ made \in 0 .. MaxCarts
    BY <1>2 DEF Init, CustomerCart, Carts
  <2>2. /\ state \in [Objects -> Document]
        /\ \A o \in Objects : state[o].cart = 0 => state[o].lines = NoLines
    BY <1>1, <1>4 DEF Init
  <2>3. req \in [Requests -> Request]
    BY <1>1 DEF Init
  <2>4. shop \in [Carts -> Lines] /\ asked \in [Carts -> Lines]
    BY <1>1 DEF Init
  <2>5. ops \in 0 .. MaxOps /\ faults \in 0 .. MaxFaults
    BY <1>2 DEF Init
  <2> QED
    BY <2>1, <2>2, <2>3, <2>4, <2>5 DEF Init, TypeOK
<1>7. Shape
  BY <1>1, <1>3 DEF Shape, Shaped
<1>8. CartsExist
  <2>1. alive \subseteq Known
    BY DEF Init, Known
  <2> QED
    BY <1>1, <1>3, <1>4, <2>1 DEF CartsExist, Names
<1>9. Busy = {}
  BY <1>1, <1>3 DEF Busy
<1>10. Bound = 0
  BY <1>1, <1>4, <1>5 DEF Bound
<1>11. Bindings
  BY <1>9 DEF Bindings, Init
<1>12. Counts
  <2>1. \A r \in Requests \ disturbed : Counted(req[r])
    BY <1>1, <1>3 DEF Counted
  <2> QED
    BY <2>1 DEF Counts, Init
<1>13. SentOnce
  BY <1>9 DEF SentOnce, Init
<1>14. OneAnswer /\ Current
  BY <1>1, <1>3, <1>10 DEF OneAnswer, Current
<1> QED
  BY <1>6, <1>7, <1>8, <1>11, <1>12, <1>13, <1>14 DEF IInv

LEMMA NextInvariant == IInv /\ [Next]_vars => IInv'
BY TypesKept, ShapeKept, CartsKept, BindingsKept, CountsKept, SentOnceKept, OneAnswerKept,
   CurrentKept DEF IInv

\* The invariant of every reachable state.
THEOREM CartInvariant == Spec => []IInv
BY InitInvariant, NextInvariant, PTL DEF Spec

\* The state keeps its types, whatever the shop answers and in which order.
THEOREM CartTypes == Spec => []TypeOK
<1>1. IInv => TypeOK
  BY DEF IInv
<1> QED
  BY <1>1, CartInvariant, PTL

\* Unless the binding changed under an operation of the session, the ticket leads to the cart
\* the session is bound to: the handoff never sends a customer to a cart given up before.
THEOREM TicketsLead == Spec => []TicketNamesTheCart
<1>1. IInv => TicketNamesTheCart
  BY DEF IInv, Bindings, TicketNamesTheCart
<1> QED
  BY <1>1, CartInvariant, PTL

\* An undisturbed change of a cart counts exactly once, calls sent twice included, and over
\* MCP the host's lines are the shop's.
THEOREM ChangesHold == Spec => []ChangesCountOnce
<1>1. IInv => ChangesCountOnce
  BY DEF IInv, Counts, Current, ChangesCountOnce
<1> QED
  BY <1>1, CartInvariant, PTL

LEMMA LivingStep ==
  ASSUME IInv, [Next]_vars, Bound \in alive, ~ended', ~crossed'
  PROVE  Bound' = Bound \/ Attaches
<1> USE DEF hostVars, answerVars
<1>1. TypeOK /\ Shape /\ CartsExist /\ Bindings
  BY DEF IInv
<1>2. ASSUME state' = state, ended' = ended PROVE Bound' = Bound
  BY <1>2, BoundKept
<1>3. ASSUME NEW r \in Requests, Works(r) PROVE Bound' = Bound
  <2>1. ~crossed /\ r \in Busy /\ Entry' = Entry
    BY <1>3, EntryIs DEF Works, Rebinds, Busy
  <2>2. Holds(req[r])
    BY <1>1, <2>1 DEF Bindings
  <2>3. req[r].obj = Entry /\ Bound' = req[r].got.cart
    BY <1>1, <1>3, <2>1, <2>2, Mapping DEF Works, Holds, Shape, Shaped, Bound
  <2>4. Bound # 0
    BY <1>1 DEF TypeOK, Carts
  <2> QED
    BY <1>3, <2>2, <2>3, <2>4 DEF Works, Holds, Reading
<1>4. ASSUME NEW r \in Requests, AttachAnswered(r) PROVE Attaches
  BY <1>4 DEF Attaches, AttachAnswered
<1>5. ASSUME NEW r \in Requests, Step(r) PROVE Bound' = Bound \/ Attaches
  <2>1. Started(r) => state' = state /\ ended' = ended
    BY DEF Started
  <2>2. PerformGet(r) \/ PerformUpdate(r) \/ PerformCreate(r) \/ PerformGone(r) =>
          state' = state /\ ended' = ended
    BY DEF PerformGet, PerformUpdate, PerformCreate, PerformGone
  <2>3. Refused(r) \/ SendAgain(r) \/ GiveUp(r) => state' = state /\ ended' = ended
    BY DEF Refused, SendAgain, GiveUp
  <2> QED
    BY <1>2, <1>3, <1>4, <1>5, <2>1, <2>2, <2>3 DEF Step
<1>6. CheckoutHandoff \/ LateUpdate \/ UNCHANGED vars => state' = state /\ ended' = ended
  BY DEF CheckoutHandoff, LateUpdate, vars
<1>7. \A c \in Carts : CartGoes(c) \/ (\E v \in Variants : Edit(c, v)) =>
        state' = state /\ ended' = ended
  BY DEF CartGoes, Edit
<1>8. ~Reset
  BY DEF Reset
<1> QED
  BY <1>1, <1>2, <1>5, <1>6, <1>7, <1>8, Steps

\* No operation on its own but attach_cart takes a cart the shop still accepts from the session.
THEOREM LivingCartStays == Spec => LivingCartIsKept
<1>1. IInv /\ [Next]_vars =>
        [(Bound \in alive /\ ~ended' /\ ~crossed') => (Bound' = Bound \/ Attaches)]_vars
  BY LivingStep
<1> QED
  BY <1>1, CartInvariant, PTL DEF Spec, LivingCartIsKept
=============================================================================
