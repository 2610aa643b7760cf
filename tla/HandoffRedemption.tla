-------------------------- MODULE HandoffRedemption --------------------------
(***************************************************************************)
(* The way from the storefront host's checkout link to the shop's confirm  *)
(* page: the host mints a one-time code for the session's cart when the    *)
(* link is clicked (HandoffCodeIssuer), the page submits it to the shop,   *)
(* and the CommerceAgentsHandoff plugin redeems it.                        *)
(*                                                                         *)
(* Several PHP workers redeem codes at once.  A worker reads the clock     *)
(* once, at the start; the table of consumed codes is purged and written   *)
(* by two statements without a transaction, each atomic in the database,   *)
(* so another worker can come in between and the clock moves on.  PHP      *)
(* keeps a shopper's session locked while a request of that session runs,  *)
(* so requests and logins of one browser follow one another.               *)
(***************************************************************************)
EXTENDS Integers, Sequences, FiniteSets

CONSTANTS
  Browsers,   \* the shop sessions codes are submitted from
  Workers,    \* the PHP workers of the shop
  Carts,      \* the carts the host may be bound to
  Ttl,        \* HandoffCodeIssuer.ttl_seconds, at most MAX_TTL_SECONDS
  ClockSkew,  \* CLOCK_SKEW_SECONDS
  Offsets,    \* how far the host's clock may be ahead of the shop's
  MaxCodes,   \* bound: codes minted
  MaxClock    \* bound: the shop's clock

ASSUME LifetimeAssumption == Ttl \in Nat \ {0} /\ ClockSkew \in Nat /\ Offsets \subseteq Int
ASSUME HandoffBoundsAssumption == {MaxCodes, MaxClock} \subseteq Nat

VARIABLES
  clock,      \* the shop's clock, in seconds
  offset,     \* the host's clock minus the shop's
  codes,      \* the codes minted so far
  held,       \* held[b]: the codes whose page or link was opened in browser b
  rows,       \* the table of consumed codes
  work,       \* work[w]: the request worker w is running
  customer,   \* the browsers with a logged-in customer
  token,      \* token[b]: the cart of b's session, "own" for one of the shop's making
  uses        \* history: the acceptances, the read clock and the clock of each

vars == <<clock, offset, codes, held, rows, work, customer, token, uses>>

-----------------------------------------------------------------------------
OwnCart == "own"
Idle == [phase |-> "idle"]
Request == [phase: {"verified", "purged", "accepted"}, browser: Browsers,
            code: 1 .. MaxCodes, now: 0 .. MaxClock]

Init ==
  /\ clock = 0
  /\ offset \in Offsets
  /\ codes = <<>>
  /\ held = [b \in Browsers |-> {}]
  /\ rows = {}
  /\ work = [w \in Workers |-> Idle]
  /\ customer = {}
  /\ token = [b \in Browsers |-> OwnCart]
  /\ uses = {}

Running == {w \in Workers : work[w] # Idle}
Locked(b) == \E w \in Running : work[w].browser = b
ExpiresAt(c) == codes[c].iat + Ttl

-----------------------------------------------------------------------------
\* issue: the code names the cart and the host's clock; "born" is the shop's, for properties.
Issue(cart) == [cart |-> cart, iat |-> clock + offset, born |-> clock]

\* checkout_handoff: the link is opened in b and its page holds a fresh code for the cart.
Click(b, cart) ==
  /\ Len(codes) < MaxCodes
  /\ codes' = Append(codes, Issue(cart))
  /\ held' = [held EXCEPT ![b] = @ \cup {Len(codes) + 1}]
  /\ UNCHANGED <<clock, offset, rows, work, customer, token, uses>>

\* The page's GET link carries the code to another browser.
Forward(b, c) ==
  /\ c \in UNION {held[d] : d \in Browsers} \ held[b]
  /\ held' = [held EXCEPT ![b] = @ \cup {c}]
  /\ UNCHANGED <<clock, offset, codes, rows, work, customer, token, uses>>

\* Mutant: a host that is ahead is not waited for.
InWindowWithoutSkew(c, now) == codes[c].iat <= now /\ now <= ExpiresAt(c)

\* verify up to the store: a genuine code is refused only for the time.
InWindow(c, now) == now <= ExpiresAt(c) /\ codes[c].iat <= now + ClockSkew

\* Mutant: nobody asks whether a customer is logged in.
SubmitForAnyone(w, b, c) ==
  /\ c \in held[b] /\ ~Locked(b) /\ work[w] = Idle
  /\ InWindow(c, clock)
  /\ work' = [work EXCEPT ![w] = [phase |-> "verified", browser |-> b, code |-> c, now |-> clock]]
  /\ UNCHANGED <<clock, offset, codes, held, rows, customer, token, uses>>

\* continueCheckout: a logged-in customer and a code out of its window are sent back to the
\* cart page before anything is written, so only the other requests are steps.
Submit(w, b, c) ==
  /\ c \in held[b] /\ ~Locked(b) /\ work[w] = Idle
  /\ b \notin customer
  /\ InWindow(c, clock)
  /\ work' = [work EXCEPT ![w] = [phase |-> "verified", browser |-> b, code |-> c, now |-> clock]]
  /\ UNCHANGED <<clock, offset, codes, held, rows, customer, token, uses>>

\* Mutant: a row goes in the second the code can still be used.
PurgeEarly(w) ==
  /\ work[w].phase = "verified"
  /\ rows' = {c \in rows : ExpiresAt(c) > work[w].now}
  /\ work' = [work EXCEPT ![w].phase = "purged"]
  /\ UNCHANGED <<clock, offset, codes, held, customer, token, uses>>

\* consume, the DELETE: rows that expired before the worker's clock.
Purge(w) ==
  /\ work[w].phase = "verified"
  /\ rows' = {c \in rows : ExpiresAt(c) >= work[w].now}
  /\ work' = [work EXCEPT ![w].phase = "purged"]
  /\ UNCHANGED <<clock, offset, codes, held, customer, token, uses>>

\* consume, the INSERT: the first one wins, a duplicate key ends the request.
Insert(w) ==
  LET c == work[w].code IN
  /\ work[w].phase = "purged"
  /\ \/ /\ c \notin rows
        /\ rows' = rows \cup {c}
        /\ uses' = uses \cup {[nth |-> Cardinality(uses) + 1, code |-> c,
                               now |-> work[w].now, at |-> clock]}
        /\ work' = [work EXCEPT ![w].phase = "accepted"]
     \/ /\ c \in rows
        /\ work' = [work EXCEPT ![w] = Idle]
        /\ UNCHANGED <<rows, uses>>
  /\ UNCHANGED <<clock, offset, codes, held, customer, token>>

\* The rest of the request: the code's cart becomes the session's.
Continue(w) ==
  /\ work[w].phase = "accepted"
  /\ token' = [token EXCEPT ![work[w].browser] = codes[work[w].code].cart]
  /\ work' = [work EXCEPT ![w] = Idle]
  /\ UNCHANGED <<clock, offset, codes, held, rows, customer, uses>>

\* A worker is killed; what it wrote to the table stays.
Die(w) ==
  /\ work[w] # Idle
  /\ work' = [work EXCEPT ![w] = Idle]
  /\ UNCHANGED <<clock, offset, codes, held, rows, customer, token, uses>>

LogIn(b) ==
  /\ ~Locked(b) /\ b \notin customer
  /\ customer' = customer \cup {b}
  /\ UNCHANGED <<clock, offset, codes, held, rows, work, token, uses>>

\* Logging out leaves the session with a cart of the shop's making.
LogOut(b) ==
  /\ ~Locked(b) /\ b \in customer
  /\ customer' = customer \ {b}
  /\ token' = [token EXCEPT ![b] = OwnCart]
  /\ UNCHANGED <<clock, offset, codes, held, rows, work, uses>>

Tick ==
  /\ clock < MaxClock
  /\ clock' = clock + 1
  /\ UNCHANGED <<offset, codes, held, rows, work, customer, token, uses>>

Next ==
  \/ Tick
  \/ \E b \in Browsers :
       \/ LogIn(b) \/ LogOut(b)
       \/ \E cart \in Carts : Click(b, cart)
       \/ \E c \in 1 .. MaxCodes : Forward(b, c)
  \/ \E w \in Workers :
       \/ \E b \in Browsers, c \in 1 .. MaxCodes : Submit(w, b, c)
       \/ Purge(w) \/ Insert(w) \/ Continue(w) \/ Die(w)

Spec == Init /\ [][Next]_vars

-----------------------------------------------------------------------------
TypeOK ==
  /\ clock \in 0 .. MaxClock /\ offset \in Offsets
  /\ codes \in Seq([cart: Carts, iat: Int, born: 0 .. MaxClock]) /\ Len(codes) <= MaxCodes
  /\ rows \subseteq DOMAIN codes
  /\ held \in [Browsers -> SUBSET DOMAIN codes]
  /\ work \in [Workers -> {Idle} \cup Request]
  /\ \A w \in Running : work[w].code \in DOMAIN codes /\ work[w].now <= clock
  /\ customer \subseteq Browsers
  /\ token \in [Browsers -> Carts \cup {OwnCart}]
  /\ uses \subseteq [nth: Nat, code: DOMAIN codes, now: 0 .. MaxClock, at: 0 .. MaxClock]

\* A code is redeemed at most once while it has not expired, however the workers' statements
\* interleave and however long each takes (DatabaseConsumedCodeStore.consume: the purge of
\* one worker must leave every row another worker's verified code can still meet).  After its
\* expiry only a request that had read the clock before can still be accepted.
RedeemedOnceInTime ==
  \A c \in DOMAIN codes :
    /\ Cardinality({u \in uses : u.code = c /\ u.at <= ExpiresAt(c)}) <= 1
    /\ \A u \in uses : u.code = c => u.now <= ExpiresAt(c)

\* A host whose clock is at most ClockSkew ahead, or less than a lifetime behind, mints codes
\* that are good at once and dead when their lifetime and the tolerated skew have passed
\* (issue sets exp by the host's clock, verify compares with the shop's).
ClocksAreTolerated ==
  \A c \in DOMAIN codes :
    offset \in -Ttl .. ClockSkew =>
      /\ InWindow(c, codes[c].born)
      /\ \A u \in uses : u.code = c => u.now - codes[c].born <= Ttl + ClockSkew

\* A code is in the table only if a request accepted it: a customer who was logged in can
\* log out and use the code then (continueCheckout asks for the customer before verify).
OnlyAcceptanceSpends == \A c \in rows : \E u \in uses : u.code = c

\* A logged-in customer's cart is never exchanged for the session's: the check at the start
\* of the request still holds when the token is set at its end (continueCheckout).
CustomerKeepsTheCart ==
  [][\A b \in Browsers : b \in customer /\ b \in customer' => token'[b] = token[b]]_vars

\* What ContinueController's comment says: a code is accepted exactly once, so never twice.
AcceptedOnce ==
  \A c \in DOMAIN codes : Cardinality({u \in uses : u.code = c}) <= 1
=============================================================================
