---------------------------- MODULE PluginProofs ----------------------------
(***************************************************************************)
(* Theorems about the shop's two plugins, which share no state.            *)
(*                                                                         *)
(* HandoffRedemption: for any number of workers, browsers and codes, any   *)
(* clocks and any times between two statements.                            *)
(*                                                                         *)
(* StagedChanges: for any products, drafts and bounds, and any number of   *)
(* tool calls that overlap, fail and are lost: a change is written at most *)
(* once for each call that handled it at the same moment, its row at rest  *)
(* says what became of those writes, and the ledger implements             *)
(* ChangeLifecycle once no call handles a change any longer.               *)
(***************************************************************************)
EXTENDS HandoffRedemption, StagedChanges, FiniteSetTheorems, TLAPS

Code == [cart: Carts, iat: Int, born: 0 .. MaxClock]
Use == [nth: Nat, code: 1 .. MaxCodes, now: 0 .. MaxClock, at: 0 .. MaxClock]

\* The part of TypeOK the arguments need, and that the recorded uses are finitely many.
Typed ==
  /\ clock \in 0 .. MaxClock /\ offset \in Int
  /\ codes \in Seq(Code) /\ Len(codes) <= MaxCodes
  /\ rows \subseteq DOMAIN codes
  /\ held \in [Browsers -> SUBSET DOMAIN codes]
  /\ work \in [Workers -> {Idle} \cup Request]
  /\ \A w \in Running : work[w].code \in DOMAIN codes /\ work[w].now <= clock
  /\ customer \subseteq Browsers
  /\ uses \subseteq Use /\ IsFiniteSet(uses)
  /\ \A u \in uses : u.code \in DOMAIN codes

\* A used code that has not expired by now has its row.
UsedHasRow == \A u \in uses : u.at <= clock /\ (clock <= ExpiresAt(u.code) => u.code \in rows)

\* Of the uses of a code at most one was in time.
OneUseInTime ==
  \A u, v \in uses :
    u.code = v.code /\ u.at <= ExpiresAt(u.code) /\ v.at <= ExpiresAt(v.code) => u = v

\* A request that passed the first check belongs to a browser nobody is logged in on.
NobodyLoggedIn == \A w \in Running : work[w].browser \notin customer

\* The host's time in a code is its clock's, and what passed the window passed it.
MintedByTheHost == \A c \in DOMAIN codes : codes[c].iat = codes[c].born + offset
CheckedInTime ==
  /\ \A w \in Running : InWindow(work[w].code, work[w].now)
  /\ \A u \in uses : u.now <= ExpiresAt(u.code)

HandoffInv ==
  /\ Typed /\ UsedHasRow /\ OneUseInTime /\ NobodyLoggedIn /\ MintedByTheHost /\ CheckedInTime
  /\ OnlyAcceptanceSpends

-----------------------------------------------------------------------------
(* The initial state, and the facts about records the steps share. *)

LEMMA HandoffInit == Init => HandoffInv
<1> SUFFICES ASSUME Init PROVE HandoffInv
  OBVIOUS
<1>1. Running = {}
  BY DEF Init, Running
<1>2. Typed
  <2>1. clock \in 0 .. MaxClock /\ offset \in Int
    BY LifetimeAssumption, HandoffBoundsAssumption DEF Init
  <2>2. codes \in Seq(Code) /\ Len(codes) <= MaxCodes /\ DOMAIN codes = {}
    BY HandoffBoundsAssumption DEF Init
  <2>3. uses = {} /\ IsFiniteSet(uses)
    BY FS_EmptySet DEF Init
  <2>4. QED
    BY <1>1, <2>1, <2>2, <2>3 DEF Init, Typed
<1>3. QED
  BY <1>1, <1>2 DEF Init, HandoffInv, Typed, UsedHasRow, OneUseInTime, NobodyLoggedIn,
                    MintedByTheHost, CheckedInTime, OnlyAcceptanceSpends

\* A running request carries a code that was minted and a clock that was read.
LEMMA RunningRequest ==
  ASSUME Typed, NEW w \in Workers, work[w] # Idle
  PROVE  /\ work[w] \in Request /\ w \in Running
         /\ work[w].code \in DOMAIN codes
         /\ work[w].now \in 0 .. clock /\ clock \in Nat
BY HandoffBoundsAssumption DEF Typed, Running, Request

LEMMA PhaseIsRunning ==
  ASSUME NEW w \in Workers, work[w].phase \in {"verified", "purged", "accepted"}
  PROVE  work[w] # Idle
BY DEF Idle

\* What is known of a minted code.
LEMMA CodeType ==
  ASSUME Typed, NEW c \in DOMAIN codes
  PROVE  c \in 1 .. Len(codes) /\ codes[c] \in Code /\ ExpiresAt(c) \in Int
<1>1. codes \in Seq(Code)
  BY DEF Typed
<1>2. c \in 1 .. Len(codes) /\ codes[c] \in Code
  BY <1>1
<1>3. codes[c].iat \in Int
  BY <1>2 DEF Code
<1>4. QED
  BY <1>2, <1>3, LifetimeAssumption DEF ExpiresAt

\* Minting a code leaves the others alone.
LEMMA AppendedCode ==
  ASSUME Typed, NEW code \in Code, codes' = Append(codes, code)
  PROVE  /\ codes' \in Seq(Code) /\ Len(codes') = Len(codes) + 1
         /\ DOMAIN codes' = DOMAIN codes \cup {Len(codes) + 1}
         /\ Len(codes) + 1 \notin DOMAIN codes
         /\ codes'[Len(codes) + 1] = code
         /\ \A c \in DOMAIN codes : codes'[c] = codes[c]
<1>1. codes \in Seq(Code)
  BY DEF Typed
<1>2. QED
  BY <1>1

-----------------------------------------------------------------------------
(* The steps. *)

LEMMA TickKeeps == HandoffInv /\ Tick => HandoffInv'
<1> SUFFICES ASSUME HandoffInv, Tick PROVE HandoffInv'
  OBVIOUS
<1> USE DEF HandoffInv
<1>1. clock \in Nat /\ clock' = clock + 1 /\ clock' \in 0 .. MaxClock
  BY HandoffBoundsAssumption DEF Tick, Typed
<1>2. /\ codes' = codes /\ rows' = rows /\ work' = work /\ uses' = uses
      /\ offset' = offset /\ customer' = customer /\ held' = held /\ Running' = Running
  BY DEF Tick, Running
<1>3. \A w \in Running : work[w].now \in 0 .. clock
  BY RunningRequest DEF Running
<1>4. Typed'
  BY <1>1, <1>2, <1>3 DEF Typed
<1>5. UsedHasRow'
  <2> SUFFICES ASSUME NEW u \in uses
               PROVE  u.at <= clock' /\ (clock' <= ExpiresAt(u.code) => u.code \in rows)
    BY <1>2 DEF UsedHasRow, ExpiresAt
  <2>1. u.code \in DOMAIN codes /\ u.at \in Nat
    BY HandoffBoundsAssumption DEF Typed, Use
  <2>2. ExpiresAt(u.code) \in Int
    BY <2>1, CodeType
  <2>3. u.at <= clock /\ (clock <= ExpiresAt(u.code) => u.code \in rows)
    BY DEF UsedHasRow
  <2>4. QED
    BY <1>1, <2>1, <2>2, <2>3
<1>6. OneUseInTime' /\ NobodyLoggedIn' /\ MintedByTheHost' /\ CheckedInTime' /\ OnlyAcceptanceSpends'
  BY <1>2 DEF OneUseInTime, NobodyLoggedIn, MintedByTheHost, CheckedInTime,
              OnlyAcceptanceSpends, ExpiresAt, InWindow
<1>7. QED
  BY <1>4, <1>5, <1>6

\* Who is logged in changes only on browsers without a running request.
LEMMA CustomerKeeps ==
  ASSUME HandoffInv, NEW b \in Browsers, LogIn(b) \/ LogOut(b)
  PROVE  HandoffInv'
<1> USE DEF HandoffInv
<1>1. /\ clock' = clock /\ codes' = codes /\ rows' = rows /\ work' = work /\ uses' = uses
      /\ offset' = offset /\ held' = held /\ Running' = Running
  BY DEF LogIn, LogOut, Running
<1>2. customer' \subseteq customer \cup {b} /\ ~ Locked(b)
  BY DEF LogIn, LogOut
<1>3. Typed'
  BY <1>1, <1>2 DEF Typed
<1>4. NobodyLoggedIn'
  BY <1>1, <1>2 DEF NobodyLoggedIn, Locked
<1>5. UsedHasRow' /\ OneUseInTime' /\ MintedByTheHost' /\ CheckedInTime' /\ OnlyAcceptanceSpends'
  BY <1>1 DEF UsedHasRow, OneUseInTime, MintedByTheHost, CheckedInTime,
              OnlyAcceptanceSpends, ExpiresAt, InWindow
<1>6. QED
  BY <1>3, <1>4, <1>5

LEMMA ForwardKeeps ==
  ASSUME HandoffInv, NEW b \in Browsers, NEW c \in 1 .. MaxCodes, Forward(b, c)
  PROVE  HandoffInv'
<1> USE DEF HandoffInv
<1>1. /\ clock' = clock /\ codes' = codes /\ rows' = rows /\ work' = work /\ uses' = uses
      /\ offset' = offset /\ customer' = customer /\ Running' = Running
  BY DEF Forward, Running
<1>2. c \in DOMAIN codes
  <2>1. PICK d \in Browsers : c \in held[d]
    BY DEF Forward
  <2>2. held[d] \subseteq DOMAIN codes
    BY DEF Typed
  <2>3. QED
    BY <2>1, <2>2
<1>3. held' \in [Browsers -> SUBSET DOMAIN codes]
  BY <1>2 DEF Forward, Typed
<1>4. Typed'
  BY <1>1, <1>3 DEF Typed
<1>5. UsedHasRow' /\ OneUseInTime' /\ NobodyLoggedIn' /\ MintedByTheHost' /\ CheckedInTime'
      /\ OnlyAcceptanceSpends'
  BY <1>1 DEF UsedHasRow, OneUseInTime, NobodyLoggedIn, MintedByTheHost, CheckedInTime,
              OnlyAcceptanceSpends, ExpiresAt, InWindow
<1>6. QED
  BY <1>4, <1>5

\* A new code has neither been used nor reached a worker.
LEMMA ClickKeeps ==
  ASSUME HandoffInv, NEW b \in Browsers, NEW cart \in Carts, Click(b, cart)
  PROVE  HandoffInv'
<1> USE DEF HandoffInv
<1> DEFINE code == Issue(cart)
<1>1. /\ clock' = clock /\ rows' = rows /\ work' = work /\ uses' = uses
      /\ offset' = offset /\ customer' = customer /\ Running' = Running
      /\ codes' = Append(codes, code) /\ Len(codes) < MaxCodes
      /\ held' = [held EXCEPT ![b] = @ \cup {Len(codes) + 1}]
  BY DEF Click, Running
<1>2. code \in Code /\ code.iat = code.born + offset
  BY HandoffBoundsAssumption DEF Issue, Code, Typed
<1>3. /\ codes' \in Seq(Code) /\ Len(codes') = Len(codes) + 1
      /\ DOMAIN codes' = DOMAIN codes \cup {Len(codes) + 1}
      /\ Len(codes) + 1 \notin DOMAIN codes
      /\ codes'[Len(codes) + 1] = code
      /\ \A c \in DOMAIN codes : codes'[c] = codes[c]
  <2> HIDE DEF code
  <2>1. QED
    BY <1>1, <1>2, AppendedCode
<1>4. Len(codes) \in Nat /\ Len(codes') <= MaxCodes
  BY <1>1, <1>3, HandoffBoundsAssumption DEF Typed
<1> HIDE DEF code
<1>5. held' \in [Browsers -> SUBSET DOMAIN codes']
  BY <1>1, <1>3 DEF Typed
<1>6. Typed'
  BY <1>1, <1>3, <1>4, <1>5 DEF Typed
<1>7. \A c \in DOMAIN codes : ExpiresAt(c)' = ExpiresAt(c)
  BY <1>3 DEF ExpiresAt
<1>8. /\ \A u \in uses : u.code \in DOMAIN codes
      /\ \A w \in Running : work[w].code \in DOMAIN codes
  BY DEF Typed
<1>9. UsedHasRow' /\ OneUseInTime'
  BY <1>1, <1>7, <1>8 DEF UsedHasRow, OneUseInTime
<1>10. NobodyLoggedIn' /\ OnlyAcceptanceSpends'
  BY <1>1 DEF NobodyLoggedIn, OnlyAcceptanceSpends
<1>11. MintedByTheHost'
  BY <1>1, <1>2, <1>3 DEF MintedByTheHost
<1>12. CheckedInTime'
  BY <1>1, <1>3, <1>7, <1>8 DEF CheckedInTime, InWindow
<1>13. QED
  BY <1>6, <1>9, <1>10, <1>11, <1>12

\* A request that ends without touching the table.
LEMMA IdleKeeps ==
  ASSUME HandoffInv, NEW w \in Workers, work' = [work EXCEPT ![w] = Idle],
         UNCHANGED <<clock, offset, codes, held, rows, customer, uses>>
  PROVE  HandoffInv'
<1> USE DEF HandoffInv
<1>1. work' \in [Workers -> {Idle} \cup Request]
  BY DEF Typed
<1>2. Running' \subseteq Running /\ \A v \in Running' : work'[v] = work[v]
  BY DEF Typed, Running
<1>3. Typed'
  BY <1>1, <1>2 DEF Typed
<1>4. NobodyLoggedIn' /\ CheckedInTime'
  BY <1>2 DEF NobodyLoggedIn, CheckedInTime, InWindow, ExpiresAt
<1>5. UsedHasRow' /\ OneUseInTime' /\ MintedByTheHost' /\ OnlyAcceptanceSpends'
  BY DEF UsedHasRow, OneUseInTime, MintedByTheHost, OnlyAcceptanceSpends, ExpiresAt
<1>6. QED
  BY <1>3, <1>4, <1>5

LEMMA SubmitKeeps ==
  ASSUME HandoffInv, NEW w \in Workers, NEW b \in Browsers, NEW c \in 1 .. MaxCodes,
         Submit(w, b, c)
  PROVE  HandoffInv'
<1> USE DEF HandoffInv
<1> DEFINE req == [phase |-> "verified", browser |-> b, code |-> c, now |-> clock]
<1>1. /\ clock' = clock /\ codes' = codes /\ rows' = rows /\ uses' = uses
      /\ offset' = offset /\ held' = held /\ customer' = customer
      /\ work' = [work EXCEPT ![w] = req]
      /\ c \in held[b] /\ b \notin customer /\ InWindow(c, clock)
  BY DEF Submit
<1>2. c \in DOMAIN codes /\ clock \in 0 .. MaxClock
  BY <1>1 DEF Typed
<1>3. req \in Request
  BY <1>2 DEF Request
<1>4. /\ req.code = c /\ req.now = clock /\ req.browser = b
  OBVIOUS
<1> HIDE DEF req
<1>5. work' \in [Workers -> {Idle} \cup Request] /\ work'[w] = req
      /\ \A v \in Workers \ {w} : work'[v] = work[v]
  BY <1>1, <1>3 DEF Typed
<1>6. \A v \in Running' : v = w \/ (v \in Running /\ work'[v] = work[v])
  BY <1>5 DEF Running
<1>7. w \in Workers /\ clock <= clock
  BY <1>2, HandoffBoundsAssumption
<1>8. Typed'
  BY <1>1, <1>2, <1>4, <1>5, <1>6, <1>7 DEF Typed
<1>9. NobodyLoggedIn'
  BY <1>1, <1>4, <1>5, <1>6 DEF NobodyLoggedIn
<1>10. CheckedInTime'
  BY <1>1, <1>4, <1>5, <1>6 DEF CheckedInTime, InWindow, ExpiresAt
<1>11. UsedHasRow' /\ OneUseInTime' /\ MintedByTheHost' /\ OnlyAcceptanceSpends'
  BY <1>1 DEF UsedHasRow, OneUseInTime, MintedByTheHost, OnlyAcceptanceSpends, ExpiresAt
<1>12. QED
  BY <1>8, <1>9, <1>10, <1>11

\* The purge takes only rows that had expired when the worker read its clock, and the clock
\* has not gone back since: the row of a use that is still in time stays.
LEMMA PurgeKeeps ==
  ASSUME HandoffInv, NEW w \in Workers, Purge(w)
  PROVE  HandoffInv'
<1> USE DEF HandoffInv
<1>1. /\ clock' = clock /\ codes' = codes /\ uses' = uses /\ customer' = customer
      /\ offset' = offset /\ held' = held
      /\ work' = [work EXCEPT ![w].phase = "purged"]
      /\ rows' = {c \in rows : ExpiresAt(c) >= work[w].now} /\ work[w].phase = "verified"
  BY DEF Purge
<1>2. /\ work[w] \in Request /\ w \in Running /\ work[w].now \in 0 .. clock /\ clock \in Nat
  BY <1>1, PhaseIsRunning, RunningRequest
<1>3. /\ work'[w] \in Request /\ work'[w].code = work[w].code
      /\ work'[w].now = work[w].now /\ work'[w].browser = work[w].browser
      /\ \A v \in Workers \ {w} : work'[v] = work[v]
      /\ work' \in [Workers -> {Idle} \cup Request]
  <2>1. work \in [Workers -> {Idle} \cup Request]
    BY DEF Typed
  <2>2. work' = [work EXCEPT ![w] = [@ EXCEPT !.phase = "purged"]]
    BY <1>1
  <2>3. [work[w] EXCEPT !.phase = "purged"] \in Request
    BY <1>2 DEF Request
  <2>4. work'[w] = [work[w] EXCEPT !.phase = "purged"]
    BY <2>1, <2>2
  <2>5. QED
    BY <1>2, <2>1, <2>2, <2>3, <2>4 DEF Request
<1>4. \A v \in Running' : /\ v \in Running /\ work'[v].code = work[v].code
                         /\ work'[v].now = work[v].now /\ work'[v].browser = work[v].browser
  BY <1>2, <1>3 DEF Running
<1>5. Typed'
  BY <1>1, <1>3, <1>4 DEF Typed
<1>6. UsedHasRow'
  <2> SUFFICES ASSUME NEW u \in uses
               PROVE  u.at <= clock /\ (clock <= ExpiresAt(u.code) => u.code \in rows')
    BY <1>1 DEF UsedHasRow, ExpiresAt
  <2>1. u.at <= clock /\ (clock <= ExpiresAt(u.code) => u.code \in rows)
    BY DEF UsedHasRow
  <2>2. ExpiresAt(u.code) \in Int
    BY CodeType DEF Typed
  <2>3. clock <= ExpiresAt(u.code) => ExpiresAt(u.code) >= work[w].now
    BY <1>2, <2>2
  <2>4. QED
    BY <1>1, <2>1, <2>3
<1>7. NobodyLoggedIn' /\ CheckedInTime'
  BY <1>1, <1>4 DEF NobodyLoggedIn, CheckedInTime, InWindow, ExpiresAt
<1>8. OneUseInTime' /\ MintedByTheHost' /\ OnlyAcceptanceSpends'
  BY <1>1 DEF OneUseInTime, MintedByTheHost, OnlyAcceptanceSpends, ExpiresAt
<1>9. QED
  BY <1>5, <1>6, <1>7, <1>8

\* A code without a row has no earlier use that is still in time, so the new one is the only one.
LEMMA InsertKeeps ==
  ASSUME HandoffInv, NEW w \in Workers, Insert(w)
  PROVE  HandoffInv'
<1> USE DEF HandoffInv
<1> DEFINE c == work[w].code
           use == [nth |-> Cardinality(uses) + 1, code |-> c, now |-> work[w].now, at |-> clock]
<1>1. CASE c \in rows
  BY <1>1, IdleKeeps DEF Insert
<1>2. CASE c \notin rows
  <2>1. /\ clock' = clock /\ codes' = codes /\ customer' = customer
        /\ offset' = offset /\ held' = held /\ work[w].phase = "purged"
        /\ rows' = rows \cup {c} /\ uses' = uses \cup {use}
        /\ work' = [work EXCEPT ![w].phase = "accepted"]
    BY <1>2 DEF Insert
  <2>2. /\ work[w] \in Request /\ w \in Running /\ c \in DOMAIN codes
        /\ work[w].now \in 0 .. clock /\ clock \in Nat
    BY <2>1, PhaseIsRunning, RunningRequest
  <2>3. use \in Use
    BY <2>2, FS_CardinalityType, HandoffBoundsAssumption DEF Use, Typed, Request
  <2>4. use.code = c /\ use.at = clock /\ use.now = work[w].now
    OBVIOUS
  <2> HIDE DEF use
  <2>5. /\ work'[w].code = c /\ work'[w].now = work[w].now
        /\ work'[w].browser = work[w].browser
        /\ \A v \in Workers \ {w} : work'[v] = work[v]
        /\ work' \in [Workers -> {Idle} \cup Request]
    <3>1. work \in [Workers -> {Idle} \cup Request]
      BY DEF Typed
    <3>2. work' = [work EXCEPT ![w] = [@ EXCEPT !.phase = "accepted"]]
      BY <2>1
    <3>3. [work[w] EXCEPT !.phase = "accepted"] \in Request
      BY <2>2 DEF Request
    <3>4. work'[w] = [work[w] EXCEPT !.phase = "accepted"]
      BY <3>1, <3>2
    <3>5. QED
      BY <2>2, <3>1, <3>2, <3>3, <3>4 DEF Request
  <2>6. \A v \in Running' : /\ v \in Running /\ work'[v].code = work[v].code
                           /\ work'[v].now = work[v].now /\ work'[v].browser = work[v].browser
    BY <2>2, <2>5 DEF Running
  <2>7. IsFiniteSet(uses')
    BY <2>1, FS_AddElement DEF Typed
  <2>8. Typed'
    BY <2>1, <2>2, <2>3, <2>4, <2>5, <2>6, <2>7 DEF Typed
  <2>9. UsedHasRow'
    BY <2>1, <2>2, <2>4 DEF UsedHasRow, ExpiresAt
  <2>10. ASSUME NEW v \in uses, v.code = c
         PROVE  ~ (clock <= ExpiresAt(c))
    BY <1>2, <2>10 DEF UsedHasRow
  <2>11. OneUseInTime'
    BY <2>1, <2>4, <2>10 DEF OneUseInTime, ExpiresAt
  <2>12. NobodyLoggedIn'
    BY <2>1, <2>6 DEF NobodyLoggedIn
  <2>13. work[w].now <= ExpiresAt(c)
    BY <2>2 DEF CheckedInTime, InWindow
  <2>14. CheckedInTime'
    BY <2>1, <2>4, <2>6, <2>13 DEF CheckedInTime, InWindow, ExpiresAt
  <2>15. MintedByTheHost' /\ OnlyAcceptanceSpends'
    BY <2>1, <2>4 DEF MintedByTheHost, OnlyAcceptanceSpends
  <2>16. QED
    BY <2>8, <2>9, <2>11, <2>12, <2>14, <2>15
<1>3. QED
  BY <1>1, <1>2

LEMMA HandoffStep == HandoffInv /\ [Next]_vars => HandoffInv'
<1> SUFFICES ASSUME HandoffInv, [Next]_vars PROVE HandoffInv'
  OBVIOUS
<1>1. CASE Tick
  BY <1>1, TickKeeps
<1>2. ASSUME NEW b \in Browsers, LogIn(b) \/ LogOut(b) PROVE HandoffInv'
  BY <1>2, CustomerKeeps
<1>3. ASSUME NEW b \in Browsers, NEW cart \in Carts, Click(b, cart) PROVE HandoffInv'
  BY <1>3, ClickKeeps
<1>4. ASSUME NEW b \in Browsers, NEW c \in 1 .. MaxCodes, Forward(b, c) PROVE HandoffInv'
  BY <1>4, ForwardKeeps
<1>5. ASSUME NEW w \in Workers, NEW b \in Browsers, NEW c \in 1 .. MaxCodes, Submit(w, b, c)
      PROVE  HandoffInv'
  BY <1>5, SubmitKeeps
<1>6. ASSUME NEW w \in Workers, Purge(w) PROVE HandoffInv'
  BY <1>6, PurgeKeeps
<1>7. ASSUME NEW w \in Workers, Insert(w) PROVE HandoffInv'
  BY <1>7, InsertKeeps
<1>8. ASSUME NEW w \in Workers, Continue(w) \/ Die(w) PROVE HandoffInv'
  BY <1>8, IdleKeeps DEF Continue, Die
<1>9. CASE UNCHANGED vars
  BY <1>9 DEF vars, HandoffInv, Typed, UsedHasRow, OneUseInTime, NobodyLoggedIn, MintedByTheHost,
              CheckedInTime, OnlyAcceptanceSpends, ExpiresAt, InWindow, Running
<1>10. QED
  BY <1>1, <1>2, <1>3, <1>4, <1>5, <1>6, <1>7, <1>8, <1>9 DEF Next

-----------------------------------------------------------------------------
(* The theorems. *)

\* The invariant the properties follow from: the table of consumed codes and the history of
\* acceptances agree as long as a code has not expired.
THEOREM HandoffInvariant == Spec => []HandoffInv
<1>1. QED
  BY HandoffInit, HandoffStep, PTL DEF Spec

\* At most one acceptance of a code falls before its expiry (DatabaseConsumedCodeStore.consume),
\* for any number of workers and any time between a worker's two statements; a later one is of
\* a request that had read the clock before (HandoffCodeVerifier.verify).
THEOREM OneRedemption == Spec => []RedeemedOnceInTime
<1>1. HandoffInv => RedeemedOnceInTime
  <2> SUFFICES ASSUME HandoffInv, NEW c \in DOMAIN codes
               PROVE  /\ Cardinality({u \in uses : u.code = c /\ u.at <= ExpiresAt(c)}) <= 1
                      /\ \A u \in uses : u.code = c => u.now <= ExpiresAt(c)
    BY DEF RedeemedOnceInTime
  <2> DEFINE inTime == {u \in uses : u.code = c /\ u.at <= ExpiresAt(c)}
  <2>1. \A u, v \in inTime : u = v
    BY DEF HandoffInv, OneUseInTime
  <2>2. \A u \in uses : u.code = c => u.now <= ExpiresAt(c)
    BY DEF HandoffInv, CheckedInTime
  <2> HIDE DEF inTime
  <2>3. Cardinality(inTime) <= 1
    <3>1. CASE inTime = {}
      BY <3>1, FS_EmptySet
    <3>2. ASSUME NEW u \in inTime PROVE Cardinality(inTime) <= 1
      <4>1. inTime = {u}
        BY <2>1
      <4>2. IsFiniteSet({u}) /\ Cardinality({u}) = 1
        BY FS_Singleton
      <4>3. QED
        BY <4>1, <4>2
    <3>3. QED
      BY <3>1, <3>2
  <2>4. QED
    BY <2>2, <2>3 DEF inTime
<1>2. QED
  BY <1>1, HandoffInvariant, PTL

\* A host whose clock is off by no more than verify tolerates mints codes that are good at once
\* and dead after their lifetime and the skew (HandoffCodeIssuer.issue, HandoffCodeVerifier).
THEOREM TolerantClocks == Spec => []ClocksAreTolerated
<1>1. HandoffInv => ClocksAreTolerated
  <2> SUFFICES ASSUME HandoffInv, NEW c \in DOMAIN codes, offset \in -Ttl .. ClockSkew
               PROVE  /\ InWindow(c, codes[c].born)
                      /\ \A u \in uses : u.code = c => u.now - codes[c].born <= Ttl + ClockSkew
    BY DEF ClocksAreTolerated
  <2>1. codes[c] \in Code
    BY CodeType DEF HandoffInv
  <2>2. codes[c].iat \in Int /\ codes[c].born \in Int
    BY <2>1, HandoffBoundsAssumption DEF Code
  <2>3. codes[c].iat = codes[c].born + offset
    BY DEF HandoffInv, MintedByTheHost
  <2>4. InWindow(c, codes[c].born)
    BY <2>2, <2>3, LifetimeAssumption DEF InWindow, ExpiresAt
  <2>5. ASSUME NEW u \in uses, u.code = c
        PROVE  u.now - codes[c].born <= Ttl + ClockSkew
    <3>1. u.now <= codes[c].iat + Ttl
      BY <2>5 DEF HandoffInv, CheckedInTime, ExpiresAt
    <3>2. u.now \in Int
      BY HandoffBoundsAssumption DEF HandoffInv, Typed, Use
    <3>3. QED
      BY <2>2, <2>3, <3>1, <3>2, LifetimeAssumption
  <2>6. QED
    BY <2>4, <2>5
<1>2. QED
  BY <1>1, HandoffInvariant, PTL

\* A refused request leaves no row behind: every row in the table is that of an accepted code
\* (continueCheckout looks at the customer and the time before consume).
THEOREM RefusalsSpendNothing == Spec => []OnlyAcceptanceSpends
<1>1. QED
  BY HandoffInvariant, PTL DEF HandoffInv

\* The token a request sets at its end is never that of a session whose customer logged in after
\* the request's check (continueCheckout under PHP's session lock).
THEOREM CustomersCartStays == Spec => CustomerKeepsTheCart
<1>1. HandoffInv /\ [Next]_vars =>
        [\A b \in Browsers : b \in customer /\ b \in customer' => token'[b] = token[b]]_vars
  <2> SUFFICES ASSUME HandoffInv, Next, NEW b \in Browsers, b \in customer, b \in customer'
               PROVE  token'[b] = token[b]
    OBVIOUS
  <2>1. ASSUME NEW w \in Workers, Continue(w) PROVE token'[b] = token[b]
    <3>1. w \in Running
      BY <2>1, PhaseIsRunning DEF Continue, Running
    <3>2. work[w].browser # b
      BY <3>1 DEF HandoffInv, NobodyLoggedIn
    <3>3. QED
      BY <2>1, <3>2 DEF Continue
  <2>2. ASSUME NEW d \in Browsers, LogOut(d) PROVE token'[b] = token[b]
    BY <2>2 DEF LogOut
  <2>3. QED
    BY <2>1, <2>2 DEF Next, Tick, LogIn, Click, Forward, Submit, Purge, Insert, Die
<1>2. QED
  BY <1>1, HandoffInvariant, PTL DEF Spec, CustomerKeepsTheCart

-----------------------------------------------------------------------------
(***************************************************************************)
(* StagedChanges.                                                          *)
(*                                                                         *)
(* Calls that handle a change have yet to write it (Open) or have written  *)
(* it and not yet said so (Wrote).  The invariant is a sum for each row    *)
(* (Tally): what was written and what may still be written is never more   *)
(* than the calls that were there at one moment, since a row is found only *)
(* while it is staged, and it is staged only until the first call said     *)
(* what it did.  Payloads and previews are left open: no step of the       *)
(* ledger looks at them.                                                   *)
(***************************************************************************)
Opening == {"rebase", "write", "failed", "discard"}
Handling == Opening \cup {"written"}
Decided == {"applied", "discarded"}
Status == {"staged"} \cup Decided

LedgerOK ==
  /\ \E S : ledger \in Seq(S)
  /\ Len(ledger) <= MaxChanges
  /\ \A c \in Ids : /\ "status" \in DOMAIN ledger[c] /\ "error" \in DOMAIN ledger[c]
                    /\ ledger[c].status \in Status

CallsOK ==
  /\ DOMAIN call = Calls
  /\ \A t \in Calls :
       /\ "at" \in DOMAIN call[t] /\ "change" \in DOMAIN call[t]
       /\ \/ call[t].at \in {"idle", "preview", "record"} /\ call[t].change = 0
          \/ call[t].at \in Handling /\ call[t].change \in Ids

HistoryOK ==
  /\ {landed, lost, together} \subseteq [1 .. MaxChanges -> Nat]
  /\ \A c \in 1 .. MaxChanges : c \notin Ids => landed[c] = 0 /\ lost[c] = 0 /\ together[c] = 0

\* The calls that may still write change c, and those that have.
Open(c) == {t \in Calls : call[t].change = c /\ call[t].at # "written"}
Wrote(c) == {t \in Calls : call[t].change = c /\ call[t].at = "written"}

\* What a row with this status, writes, calls and most calls at once may look like.
Tally(status, kept, open, wrote, most) ==
  /\ wrote <= kept
  /\ kept + open <= most
  /\ status = "staged" => kept = wrote
  /\ status = "applied" => wrote < kept
  /\ status = "discarded" => kept + open < most

Tallies(c) ==
  Tally(ledger[c].status, Kept(c), Cardinality(Open(c)), Cardinality(Wrote(c)), together[c])

IInv == LedgerOK /\ CallsOK /\ HistoryOK /\ \A c \in Ids : Tallies(c)

-----------------------------------------------------------------------------
(* What the steps do to a call and to a row. *)

\* The call in slot t goes to another place with change c.
At(t, at, c) ==
  /\ DOMAIN call' = Calls
  /\ "at" \in DOMAIN call'[t] /\ "change" \in DOMAIN call'[t]
  /\ call'[t].at = at /\ call'[t].change = c
  /\ \A u \in Calls : u # t => call'[u] = call[u]

\* The row of change c gets another status.
RowSet(c, status) ==
  /\ \E S : ledger' \in Seq(S)
  /\ Len(ledger') = Len(ledger)
  /\ "status" \in DOMAIN ledger'[c] /\ "error" \in DOMAIN ledger'[c]
  /\ ledger'[c].status = status
  /\ \A d \in Ids : d # c => ledger'[d] = ledger[d]

LEMMA IdsAre ==
  ASSUME LedgerOK
  PROVE  Ids = 1 .. Len(ledger) /\ Len(ledger) \in Nat
BY DEF LedgerOK, Ids

LEMMA Answered ==
  ASSUME CallsOK, NEW t \in Calls, Answer(t)
  PROVE  At(t, "idle", 0)
BY DEF CallsOK, Answer, NoCall, At

LEMMA Replaced ==
  ASSUME CallsOK, NEW t \in Calls, NEW q, call' = [call EXCEPT ![t] = q],
         "at" \in DOMAIN q, "change" \in DOMAIN q
  PROVE  At(t, q.at, q.change)
BY DEF CallsOK, At

LEMMA Moved ==
  ASSUME CallsOK, NEW t \in Calls, NEW at, call' = [call EXCEPT ![t].at = at]
  PROVE  At(t, at, call[t].change)
<1> DEFINE q == [call[t] EXCEPT !.at = at]
<1>1. "at" \in DOMAIN q /\ "change" \in DOMAIN q /\ q.at = at /\ q.change = call[t].change
  BY DEF CallsOK
<1>2. call' = [call EXCEPT ![t] = q]
  OBVIOUS
<1> HIDE DEF q
<1> QED
  BY <1>1, <1>2, Replaced

LEMMA Found ==
  ASSUME CallsOK, NEW t \in Calls, NEW c, NEW next, Find(t, c, next)
  PROVE  At(t, next, c)
<1> DEFINE q == [at |-> next, change |-> c, row |-> ledger[c]]
<1>1. "at" \in DOMAIN q /\ "change" \in DOMAIN q /\ q.at = next /\ q.change = c
  OBVIOUS
<1>2. call' = [call EXCEPT ![t] = q]
  BY DEF Find
<1> HIDE DEF q
<1> QED
  BY <1>1, <1>2, Replaced

LEMMA RowReplaced ==
  ASSUME LedgerOK, NEW c \in Ids, NEW row, ledger' = [ledger EXCEPT ![c] = row],
         "status" \in DOMAIN row, "error" \in DOMAIN row
  PROVE  RowSet(c, row.status)
<1>1. PICK S : ledger \in Seq(S)
  BY DEF LedgerOK
<1>2. ledger' \in Seq(S \cup {row}) /\ Len(ledger') = Len(ledger)
  BY <1>1 DEF Ids
<1>3. ledger'[c] = row /\ \A d \in Ids : d # c => ledger'[d] = ledger[d]
  BY DEF Ids
<1> QED
  BY <1>2, <1>3 DEF RowSet

LEMMA RowTyped ==
  ASSUME LedgerOK, NEW c \in Ids, NEW s \in Status, RowSet(c, s)
  PROVE  LedgerOK' /\ Ids' = Ids
<1>1. PICK S : ledger' \in Seq(S)
  BY DEF RowSet
<1>2. Ids' = 1 .. Len(ledger') /\ Len(ledger') = Len(ledger)
  BY <1>1 DEF RowSet, Ids
<1>3. Ids' = Ids
  BY <1>2, IdsAre
<1>4. ASSUME NEW d \in Ids'
      PROVE  /\ "status" \in DOMAIN ledger'[d] /\ "error" \in DOMAIN ledger'[d]
             /\ ledger'[d].status \in Status
  <2>1. CASE d = c
    BY <2>1 DEF RowSet
  <2>2. CASE d # c
    BY <1>3, <2>2 DEF RowSet, LedgerOK
  <2> QED
    BY <2>1, <2>2
<1> QED
  BY <1>1, <1>2, <1>3, <1>4 DEF LedgerOK

\* A new row at the end of the ledger, staged.
Appended(row) == ledger' = Append(ledger, row)

LEMMA RowAppended ==
  ASSUME LedgerOK, NEW row, Appended(row)
  PROVE  /\ \E S : ledger' \in Seq(S)
         /\ Len(ledger') = Len(ledger) + 1
         /\ Ids' = 1 .. Len(ledger')
         /\ ledger'[Len(ledger')] = row
         /\ \A d \in Ids : d # Len(ledger') /\ ledger'[d] = ledger[d]
<1>1. PICK S : ledger \in Seq(S)
  BY DEF LedgerOK
<1>2. ledger \in Seq(S \cup {row}) /\ row \in S \cup {row} /\ Len(ledger) \in Nat
  BY <1>1
<1>3. ledger' \in Seq(S \cup {row}) /\ Len(ledger') = Len(ledger) + 1
  BY <1>2 DEF Appended
<1>4. ledger'[Len(ledger')] = row
  BY <1>2, <1>3 DEF Appended
<1>5. \A d \in 1 .. Len(ledger) : d # Len(ledger') /\ ledger'[d] = ledger[d]
  BY <1>2, <1>3 DEF Appended
<1>6. DOMAIN ledger' = 1 .. Len(ledger')
  BY <1>3
<1> QED
  BY <1>3, <1>4, <1>5, <1>6, IdsAre DEF Ids

-----------------------------------------------------------------------------
(* Counting the calls of a change. *)

LEMMA Numbers ==
  ASSUME NEW c
  PROVE  /\ IsFiniteSet(Open(c)) /\ Cardinality(Open(c)) \in Nat
         /\ IsFiniteSet(Wrote(c)) /\ Cardinality(Wrote(c)) \in Nat
         /\ Cardinality(Handlers(c)) = Cardinality(Open(c)) + Cardinality(Wrote(c))
<1>1. Open(c) \in SUBSET Calls /\ Wrote(c) \in SUBSET Calls
  BY DEF Open, Wrote
<1>2. IsFiniteSet(Open(c)) /\ IsFiniteSet(Wrote(c))
  BY <1>1, FS_Subset, CallsAssumption
<1>3. Cardinality(Open(c)) \in Nat /\ Cardinality(Wrote(c)) \in Nat
  BY <1>2, FS_CardinalityType
<1>4. Handlers(c) = Open(c) \cup Wrote(c) /\ Open(c) \cap Wrote(c) = {}
  BY DEF Handlers, Open, Wrote
<1>5. Cardinality(Open(c) \cup Wrote(c)) =
        Cardinality(Open(c)) + Cardinality(Wrote(c)) - Cardinality(Open(c) \cap Wrote(c))
  BY <1>2, FS_Union
<1>6. Cardinality(Open(c) \cap Wrote(c)) = 0
  BY <1>4, FS_EmptySet
<1>7. Cardinality(Handlers(c)) = Cardinality(Open(c)) + Cardinality(Wrote(c))
  BY <1>3, <1>4, <1>5, <1>6
<1> QED
  BY <1>2, <1>3, <1>7

\* One element leaves a set and may come back to it.
LEMMA Exchanged ==
  ASSUME NEW S, IsFiniteSet(S), NEW t, NEW b \in BOOLEAN,
         NEW T, T = IF b THEN (S \ {t}) \cup {t} ELSE S \ {t}
  PROVE  Cardinality(T) =
           Cardinality(S) - (IF t \in S THEN 1 ELSE 0) + (IF b THEN 1 ELSE 0)
<1>1. Cardinality(S) \in Nat
  BY FS_CardinalityType
<1>2. /\ IsFiniteSet(S \ {t})
      /\ Cardinality(S \ {t}) = IF t \in S THEN Cardinality(S) - 1 ELSE Cardinality(S)
  BY FS_RemoveElement
<1>3. Cardinality((S \ {t}) \cup {t}) = Cardinality(S \ {t}) + 1
  BY <1>2, FS_AddElement
<1> QED
  BY <1>1, <1>2, <1>3

\* How a step of one call changes the numbers.
LEMMA Shifts ==
  ASSUME CallsOK, NEW t \in Calls, NEW a, NEW n, At(t, a, n), NEW c
  PROVE  /\ Cardinality(Open(c)') = Cardinality(Open(c))
              - (IF call[t].change = c /\ call[t].at # "written" THEN 1 ELSE 0)
              + (IF n = c /\ a # "written" THEN 1 ELSE 0)
         /\ Cardinality(Wrote(c)') = Cardinality(Wrote(c))
              - (IF call[t].change = c /\ call[t].at = "written" THEN 1 ELSE 0)
              + (IF n = c /\ a = "written" THEN 1 ELSE 0)
<1>1. /\ call'[t].at = a /\ call'[t].change = n
      /\ \A u \in Calls : u # t => call'[u] = call[u]
  BY DEF At
<1>2. IsFiniteSet(Open(c)) /\ IsFiniteSet(Wrote(c))
  BY Numbers
<1>3. t \in Open(c) <=> call[t].change = c /\ call[t].at # "written"
  BY DEF Open
<1>4. t \in Wrote(c) <=> call[t].change = c /\ call[t].at = "written"
  BY DEF Wrote
<1>5. Open(c)' = IF n = c /\ a # "written" THEN (Open(c) \ {t}) \cup {t} ELSE Open(c) \ {t}
  BY <1>1 DEF Open
<1>6. Wrote(c)' = IF n = c /\ a = "written" THEN (Wrote(c) \ {t}) \cup {t} ELSE Wrote(c) \ {t}
  BY <1>1 DEF Wrote
<1>7. Cardinality(Open(c)') =
        Cardinality(Open(c)) - (IF t \in Open(c) THEN 1 ELSE 0)
          + (IF n = c /\ a # "written" THEN 1 ELSE 0)
  <2> DEFINE S == Open(c)
             T == Open(c)'
             b == n = c /\ a # "written"
  <2>1. T = (IF b THEN (S \ {t}) \cup {t} ELSE S \ {t}) /\ IsFiniteSet(S)
    BY <1>2, <1>5
  <2>2. b \in BOOLEAN
    OBVIOUS
  <2> HIDE DEF S, T, b
  <2>3. Cardinality(T) = Cardinality(S) - (IF t \in S THEN 1 ELSE 0) + (IF b THEN 1 ELSE 0)
    BY <2>1, <2>2, Exchanged
  <2> QED
    BY <2>3 DEF S, T, b
<1>8. Cardinality(Wrote(c)') =
        Cardinality(Wrote(c)) - (IF t \in Wrote(c) THEN 1 ELSE 0)
          + (IF n = c /\ a = "written" THEN 1 ELSE 0)
  <2> DEFINE S == Wrote(c)
             T == Wrote(c)'
             b == n = c /\ a = "written"
  <2>1. T = (IF b THEN (S \ {t}) \cup {t} ELSE S \ {t}) /\ IsFiniteSet(S)
    BY <1>2, <1>6
  <2>2. b \in BOOLEAN
    OBVIOUS
  <2> HIDE DEF S, T, b
  <2>3. Cardinality(T) = Cardinality(S) - (IF t \in S THEN 1 ELSE 0) + (IF b THEN 1 ELSE 0)
    BY <2>1, <2>2, Exchanged
  <2> QED
    BY <2>3 DEF S, T, b
<1> QED
  BY <1>3, <1>4, <1>7, <1>8

\* A call of c is one of its open calls or one of those that have written.
LEMMA Counted ==
  ASSUME NEW t \in Calls, NEW c, call[t].change = c
  PROVE  /\ call[t].at # "written" => Cardinality(Open(c)) >= 1
         /\ call[t].at = "written" => Cardinality(Wrote(c)) >= 1
<1>1. /\ call[t].at # "written" => t \in Open(c)
      /\ call[t].at = "written" => t \in Wrote(c)
  BY DEF Open, Wrote
<1>2. \A S : IsFiniteSet(S) /\ t \in S => Cardinality(S) # 0
  BY FS_EmptySet
<1> QED
  BY <1>1, <1>2, Numbers

\* The numbers of a recorded change are natural.
LEMMA RowNumbers ==
  ASSUME LedgerOK, HistoryOK, NEW c \in Ids
  PROVE  /\ c \in 1 .. MaxChanges /\ c # 0
         /\ landed[c] \in Nat /\ lost[c] \in Nat /\ together[c] \in Nat
<1>1. c \in 1 .. Len(ledger) /\ Len(ledger) \in Nat /\ Len(ledger) <= MaxChanges
  BY IdsAre DEF LedgerOK
<1>2. MaxChanges \in Nat
  BY DraftsAssumption
<1>3. c \in 1 .. MaxChanges /\ c # 0
  BY <1>1, <1>2
<1> QED
  BY <1>3 DEF HistoryOK

\* A step that leaves a row and its calls alone leaves its tally alone.
LEMMA TallyKept ==
  ASSUME CallsOK, NEW t \in Calls, NEW a, NEW n, At(t, a, n),
         NEW d, Tallies(d), call[t].change # d, n # d, ledger'[d].status = ledger[d].status,
         landed'[d] = landed[d], lost'[d] = lost[d], together'[d] = together[d]
  PROVE  Tallies(d)'
<1>1. Cardinality(Open(d)') = Cardinality(Open(d)) /\ Cardinality(Wrote(d)') = Cardinality(Wrote(d))
  BY Shifts, Numbers
<1>2. Kept(d)' = Kept(d)
  BY DEF Kept
<1> QED
  BY <1>1, <1>2 DEF Tallies

-----------------------------------------------------------------------------
(* The kinds of steps. *)

Aside == UNCHANGED <<ledger, call, historyVars>>

\* A call without a change moves on.
Walks ==
  \E t \in Calls, a \in {"idle", "preview", "record"} :
    call[t].change = 0 /\ At(t, a, 0) /\ UNCHANGED <<ledger, historyVars>>

\* A row is created.
Records ==
  /\ \E t \in Calls : call[t].change = 0 /\ At(t, "idle", 0)
  /\ Len(ledger) < MaxChanges
  /\ \E row : /\ "status" \in DOMAIN row /\ "error" \in DOMAIN row /\ row.status = "staged"
              /\ Appended(row)
  /\ UNCHANGED historyVars

\* A call finds change c staged.
Takes(t, c) ==
  /\ call[t].change = 0 /\ ledger[c].status = "staged"
  /\ \E a \in Opening : At(t, a, c)
  /\ Joined(c) /\ UNCHANGED <<ledger, landed, lost>>

\* A call that has not written goes on with its change.
Goes(t, c) ==
  /\ call[t].change = c /\ call[t].at \in Opening
  /\ \E a \in Opening : At(t, a, c)
  /\ UNCHANGED <<ledger, historyVars>>

Lands(t, c) ==
  /\ call[t].change = c /\ call[t].at \in Opening
  /\ At(t, "written", c)
  /\ landed' = [landed EXCEPT ![c] = @ + 1] /\ UNCHANGED <<ledger, lost, together>>

\* A call ends and leaves status s: as it was, or its own decision.
Leaves(t, c, s) ==
  /\ call[t].change = c /\ At(t, "idle", 0) /\ RowSet(c, s)
  /\ UNCHANGED <<landed, together>>
  /\ \/ call[t].at \in Opening /\ s \in {ledger[c].status, "discarded"} /\ UNCHANGED lost
     \/ call[t].at = "written" /\ s = "applied" /\ UNCHANGED lost
     \/ call[t].at = "written" /\ s = ledger[c].status /\ lost' = [lost EXCEPT ![c] = @ + 1]

\* Every step of the ledger is of one of these kinds.
Kinds ==
  \/ Aside \/ Walks \/ Records
  \/ \E t \in Calls, c \in Ids :
       \/ Takes(t, c) \/ Goes(t, c) \/ Lands(t, c)
       \/ \E s \in Status : Leaves(t, c, s)

\* A call that handles a change handles a recorded one.
LEMMA Handles ==
  ASSUME LedgerOK, CallsOK, NEW t \in Calls
  PROVE  /\ call[t].at \in Handling => call[t].change \in Ids /\ call[t].change # 0
         /\ call[t].at \notin Handling => call[t].change = 0
<1>1. 0 \notin Ids
  BY IdsAre
<1> QED
  BY <1>1 DEF CallsOK, Handling, Opening

LEMMA Staging ==
  ASSUME LedgerOK, CallsOK, NEW t \in Calls,
         (\E d \in Drafts : StageLoad(t, d)) \/ StagePreview(t)
  PROVE  Walks
<1>1. UNCHANGED <<ledger, historyVars>>
  BY DEF StageLoad, StagePreview
<1>2. call[t].change = 0
  BY Handles DEF StageLoad, StagePreview, NoCall, Handling, Opening
<1>3. ASSUME NEW d \in Drafts, StageLoad(t, d)
      PROVE  At(t, "preview", 0)
  <2> DEFINE q == [at |-> "preview", change |-> 0, kind |-> d.kind,
                   payload |-> Payload(d.items, shop), preview |-> Preview(d.items, shop)]
  <2>1. "at" \in DOMAIN q /\ "change" \in DOMAIN q /\ q.at = "preview" /\ q.change = 0
    OBVIOUS
  <2>2. call' = [call EXCEPT ![t] = q]
    BY <1>3 DEF StageLoad
  <2> HIDE DEF q
  <2> QED
    BY <2>1, <2>2, Replaced
<1>4. ASSUME StagePreview(t)
      PROVE  At(t, "record", 0) \/ At(t, "idle", 0)
  <2>1. CASE Answer(t)
    BY <2>1, Answered
  <2>2. CASE call' = [call EXCEPT ![t].at = "record"]
    BY <1>2, <2>2, Moved
  <2> QED
    BY <1>4, <2>1, <2>2 DEF StagePreview
<1> QED
  BY <1>1, <1>2, <1>3, <1>4 DEF Walks

LEMMA Recording ==
  ASSUME LedgerOK, CallsOK, NEW t \in Calls, StageRecord(t)
  PROVE  Walks \/ Records
<1>1. At(t, "idle", 0) /\ call[t].change = 0 /\ UNCHANGED historyVars
  BY Answered, Handles DEF StageRecord, Handling, Opening
<1>2. CASE Len(ledger) < MaxChanges
  <2> DEFINE row == [status |-> "staged", error |-> FALSE, kind |-> call[t].kind,
                     payload |-> call[t].payload, preview |-> call[t].preview]
  <2>1. "status" \in DOMAIN row /\ "error" \in DOMAIN row /\ row.status = "staged"
    OBVIOUS
  <2>2. Appended(row)
    BY <1>2 DEF StageRecord, Appended
  <2> HIDE DEF row
  <2> QED
    BY <1>1, <1>2, <2>1, <2>2 DEF Records
<1>3. CASE ~(Len(ledger) < MaxChanges)
  BY <1>1, <1>3 DEF StageRecord, Walks
<1> QED
  BY <1>2, <1>3

LEMMA Finding ==
  ASSUME CallsOK, NEW t \in Calls, NEW c, ApplyFind(t, c) \/ DiscardFind(t, c)
  PROVE  c \in Ids /\ Takes(t, c)
<1>1. /\ Find(t, c, "rebase") \/ Find(t, c, "discard")
      /\ UNCHANGED <<ledger, landed, lost>>
  BY DEF ApplyFind, DiscardFind
<1>2. c \in Ids /\ ledger[c].status = "staged" /\ call[t].change = 0 /\ Joined(c)
  BY <1>1 DEF Find, CanTransition, NoCall
<1>3. At(t, "rebase", c) \/ At(t, "discard", c)
  BY <1>1, Found
<1> QED
  BY <1>1, <1>2, <1>3 DEF Takes, Opening

LEMMA Rebasing ==
  ASSUME LedgerOK, CallsOK, NEW t \in Calls, Rebase(t)
  PROVE  \E c \in Ids : Goes(t, c)
<1> DEFINE a == IF call[t].row.kind = "inventory_action"
                   /\ \E p \in DOMAIN call[t].row.payload \ sells :
                        "stock" \in DOMAIN call[t].row.payload[p]
                THEN "failed" ELSE "write"
<1> DEFINE stocks == [p \in Products |-> shop[p].stock]
<1> DEFINE q == [call[t] EXCEPT !.at = a, !.row.payload = Rebased(call[t].row, stocks)]
<1>1. call' = [call EXCEPT ![t] = q]
  BY DEF Rebase
<1>2. a \in Opening
  BY DEF Opening
<1>3. "at" \in DOMAIN call[t] /\ "change" \in DOMAIN call[t]
  BY DEF CallsOK
<1>4. "at" \in DOMAIN q /\ "change" \in DOMAIN q /\ q.at = a /\ q.change = call[t].change
  BY <1>3
<1> HIDE DEF q, a
<1>5. At(t, a, call[t].change)
  BY <1>1, <1>4, Replaced
<1>6. UNCHANGED <<ledger, historyVars>> /\ call[t].at \in Opening
  BY DEF Rebase, Opening
<1>7. call[t].change \in Ids
  BY <1>6, Handles DEF Handling
<1> QED
  BY <1>2, <1>5, <1>6, <1>7 DEF Goes

LEMMA Writing ==
  ASSUME LedgerOK, CallsOK, NEW t \in Calls, Write(t) \/ WriteFails(t)
  PROVE  \E c \in Ids : Goes(t, c) \/ Lands(t, c)
<1>1. call[t].at \in Opening
  BY DEF Write, WriteFails, Opening
<1>2. call[t].change \in Ids
  BY <1>1, Handles DEF Handling
<1>3. CASE Write(t)
  <2>1. At(t, "written", call[t].change)
    BY <1>3, Moved DEF Write
  <2>2. /\ landed' = [landed EXCEPT ![call[t].change] = @ + 1]
        /\ UNCHANGED <<ledger, lost, together>>
    BY <1>3 DEF Write
  <2> QED
    BY <1>1, <1>2, <2>1, <2>2 DEF Lands
<1>4. CASE WriteFails(t)
  <2>1. At(t, "failed", call[t].change) /\ UNCHANGED <<ledger, historyVars>>
    BY <1>4, Moved DEF WriteFails
  <2> QED
    BY <1>1, <1>2, <2>1 DEF Goes, Opening
<1> QED
  BY <1>3, <1>4

LEMMA Closing ==
  ASSUME LedgerOK, CallsOK, NEW t \in Calls, RecordError(t) \/ MarkApplied(t) \/ MarkDiscarded(t)
  PROVE  \E c \in Ids, s \in Status : Leaves(t, c, s)
<1> DEFINE c == call[t].change
<1>1. call[t].at \in Handling
  BY DEF RecordError, MarkApplied, MarkDiscarded, Handling, Opening
<1>2. c \in Ids
  BY <1>1, Handles
<1>3. /\ "status" \in DOMAIN ledger[c] /\ "error" \in DOMAIN ledger[c]
      /\ ledger[c].status \in Status
  BY <1>2 DEF LedgerOK
<1>4. At(t, "idle", 0) /\ UNCHANGED <<landed, lost, together>>
  BY Answered DEF RecordError, MarkApplied, MarkDiscarded, historyVars
<1>5. CASE RecordError(t)
  <2> DEFINE row == [ledger[c] EXCEPT !.error = TRUE]
  <2>1. "status" \in DOMAIN row /\ "error" \in DOMAIN row /\ row.status = ledger[c].status
    BY <1>3
  <2>2. ledger' = [ledger EXCEPT ![c] = row]
    BY <1>5 DEF RecordError
  <2> HIDE DEF row
  <2>3. RowSet(c, ledger[c].status)
    BY <1>2, <2>1, <2>2, RowReplaced
  <2>4. call[t].at \in Opening
    BY <1>5 DEF RecordError, Opening
  <2> QED
    BY <1>2, <1>3, <1>4, <2>3, <2>4 DEF Leaves
<1>6. CASE MarkApplied(t)
  <2> DEFINE row == [ledger[c] EXCEPT !.status = "applied", !.error = FALSE]
  <2>1. "status" \in DOMAIN row /\ "error" \in DOMAIN row /\ row.status = "applied"
    BY <1>3
  <2>2. ledger' = [ledger EXCEPT ![c] = row]
    BY <1>6 DEF MarkApplied
  <2> HIDE DEF row
  <2>3. RowSet(c, "applied")
    BY <1>2, <2>1, <2>2, RowReplaced
  <2>4. call[t].at = "written" /\ "applied" \in Status
    BY <1>6 DEF MarkApplied, Status, Decided
  <2> QED
    BY <1>2, <1>4, <2>3, <2>4 DEF Leaves
<1>7. CASE MarkDiscarded(t)
  <2> DEFINE row == [ledger[c] EXCEPT !.status = "discarded"]
  <2>1. "status" \in DOMAIN row /\ "error" \in DOMAIN row /\ row.status = "discarded"
    BY <1>3
  <2>2. ledger' = [ledger EXCEPT ![c] = row]
    BY <1>7 DEF MarkDiscarded
  <2> HIDE DEF row
  <2>3. RowSet(c, "discarded")
    BY <1>2, <2>1, <2>2, RowReplaced
  <2>4. call[t].at \in Opening /\ "discarded" \in Status
    BY <1>7 DEF MarkDiscarded, Opening, Status, Decided
  <2> QED
    BY <1>2, <1>4, <2>3, <2>4 DEF Leaves
<1> QED
  BY <1>5, <1>6, <1>7

LEMMA Dying ==
  ASSUME LedgerOK, CallsOK, NEW t \in Calls, WorkerDies(t)
  PROVE  Walks \/ \E c \in Ids, s \in Status : Leaves(t, c, s)
<1>1. At(t, "idle", 0) /\ UNCHANGED <<ledger, landed, together>>
  BY Answered DEF WorkerDies
<1>2. CASE call[t].at \in Handling
  <2> DEFINE c == call[t].change
  <2>1. c \in Ids
    BY <1>2, Handles
  <2>2. /\ "status" \in DOMAIN ledger[c] /\ "error" \in DOMAIN ledger[c]
        /\ ledger[c].status \in Status
    BY <2>1 DEF LedgerOK
  <2>3. RowSet(c, ledger[c].status)
    BY <1>1, <2>1, <2>2 DEF RowSet, LedgerOK
  <2>4. \/ call[t].at \in Opening /\ UNCHANGED lost
        \/ call[t].at = "written" /\ lost' = [lost EXCEPT ![c] = @ + 1]
    BY <1>2 DEF WorkerDies, Handling, Opening
  <2> QED
    BY <1>1, <2>1, <2>2, <2>3, <2>4 DEF Leaves
<1>3. CASE call[t].at \notin Handling
  <2>1. call[t].change = 0
    BY <1>3, Handles
  <2>2. UNCHANGED historyVars
    BY <1>1, <1>3 DEF WorkerDies, historyVars, Handling
  <2> QED
    BY <1>1, <2>1, <2>2 DEF Walks
<1> QED
  BY <1>2, <1>3

LEMMA StepKinds ==
  ASSUME LedgerOK, CallsOK, [LedgerNext]_stagedVars
  PROVE  Kinds
<1>1. ASSUME NEW t \in Calls, (\E d \in Drafts : StageLoad(t, d)) \/ StagePreview(t)
      PROVE  Kinds
  BY <1>1, Staging DEF Kinds
<1>2. ASSUME NEW t \in Calls, StageRecord(t)
      PROVE  Kinds
  BY <1>2, Recording DEF Kinds
<1>3. ASSUME NEW t \in Calls, NEW c \in 1 .. MaxChanges, ApplyFind(t, c) \/ DiscardFind(t, c)
      PROVE  Kinds
  BY <1>3, Finding DEF Kinds
<1>4. ASSUME NEW t \in Calls, Rebase(t)
      PROVE  Kinds
  BY <1>4, Rebasing DEF Kinds
<1>5. ASSUME NEW t \in Calls, Write(t) \/ WriteFails(t)
      PROVE  Kinds
  BY <1>5, Writing DEF Kinds
<1>6. ASSUME NEW t \in Calls, RecordError(t) \/ MarkApplied(t) \/ MarkDiscarded(t)
      PROVE  Kinds
  BY <1>6, Closing DEF Kinds
<1>7. ASSUME NEW t \in Calls, WorkerDies(t)
      PROVE  Kinds
  BY <1>7, Dying DEF Kinds
<1>8. ASSUME NEW p \in Products,
             Sale(p) \/ Vanish(p) \/ \E c \in Currencies : Reprice(p, c)
      PROVE  Kinds
  BY <1>8 DEF Sale, Vanish, Reprice, Kinds, Aside
<1>9. CASE UNCHANGED stagedVars
  BY <1>9 DEF stagedVars, historyVars, Kinds, Aside
<1> QED
  BY <1>1, <1>2, <1>3, <1>4, <1>5, <1>6, <1>7, <1>8, <1>9 DEF LedgerNext

-----------------------------------------------------------------------------
(* Every kind of step keeps the invariant. *)

LEMMA InitInvariant ==
  ASSUME LedgerInit
  PROVE  IInv
<1>1. ledger = <<>> /\ Ids = {} /\ Len(ledger) = 0
  BY DEF LedgerInit, Ids
<1>2. LedgerOK
  <2>1. ledger \in Seq({}) /\ MaxChanges \in Nat
    BY <1>1, DraftsAssumption
  <2> QED
    BY <1>1, <2>1 DEF LedgerOK
<1>3. CallsOK
  BY DEF LedgerInit, NoCall, CallsOK
<1>4. HistoryOK
  BY DEF LedgerInit, HistoryOK
<1> QED
  BY <1>1, <1>2, <1>3, <1>4 DEF IInv

\* Calls stay typed when one of them moves and no row goes.
LEMMA CallsTyped ==
  ASSUME CallsOK, NEW t \in Calls, NEW a, NEW n, At(t, a, n), Ids \subseteq Ids',
         \/ a \in {"idle", "preview", "record"} /\ n = 0
         \/ a \in Handling /\ n \in Ids
  PROVE  CallsOK'
<1>1. /\ DOMAIN call' = Calls /\ call'[t].at = a /\ call'[t].change = n
      /\ "at" \in DOMAIN call'[t] /\ "change" \in DOMAIN call'[t]
      /\ \A u \in Calls : u # t => call'[u] = call[u]
  BY DEF At
<1> QED
  BY <1>1 DEF CallsOK

LEMMA AsideKeeps ==
  ASSUME IInv, Aside
  PROVE  IInv'
BY DEF Aside, historyVars, IInv, LedgerOK, CallsOK, HistoryOK, Tallies, Kept, Open, Wrote, Ids

LEMMA WalksKeeps ==
  ASSUME IInv, Walks
  PROVE  IInv'
<1>1. PICK t \in Calls, a \in {"idle", "preview", "record"} :
        call[t].change = 0 /\ At(t, a, 0) /\ UNCHANGED <<ledger, historyVars>>
  BY DEF Walks
<1>2. LedgerOK' /\ HistoryOK' /\ Ids' = Ids
  BY <1>1 DEF IInv, LedgerOK, HistoryOK, Ids, historyVars
<1>3. CallsOK'
  BY <1>1, <1>2, CallsTyped DEF IInv
<1>4. ASSUME NEW d \in Ids
      PROVE  Tallies(d)'
  <2>1. d # 0
    BY IdsAre DEF IInv
  <2> QED
    BY <1>1, <2>1, TallyKept DEF IInv, historyVars
<1> QED
  BY <1>2, <1>3, <1>4 DEF IInv

\* Nobody handles the new row, and nothing of it was written.
LEMMA RecordsKeeps ==
  ASSUME IInv, Records
  PROVE  IInv'
<1>a. PICK t \in Calls : call[t].change = 0 /\ At(t, "idle", 0)
  BY DEF Records
<1>b. PICK row : /\ "status" \in DOMAIN row /\ "error" \in DOMAIN row /\ row.status = "staged"
                 /\ Appended(row)
  BY DEF Records
<1>1. /\ call[t].change = 0 /\ At(t, "idle", 0)
      /\ Len(ledger) < MaxChanges
      /\ "status" \in DOMAIN row /\ "error" \in DOMAIN row /\ row.status = "staged"
      /\ Appended(row) /\ UNCHANGED historyVars
  BY <1>a, <1>b DEF Records
<1>3. MaxChanges \in Nat /\ Len(ledger) \in Nat /\ Ids = 1 .. Len(ledger)
  BY DraftsAssumption, IdsAre DEF IInv
<1>c. PICK n \in 1 .. MaxChanges : n = Len(ledger) + 1
  BY <1>1, <1>3
<1>2. /\ \E S : ledger' \in Seq(S)
      /\ n = Len(ledger') /\ n = Len(ledger) + 1 /\ Len(ledger) \in Nat
      /\ Ids' = 1 .. n /\ Ids = 1 .. Len(ledger)
      /\ ledger'[n] = row
      /\ \A d \in Ids : d # n /\ ledger'[d] = ledger[d]
  BY <1>1, <1>3, <1>c, RowAppended DEF IInv
<1>4. Ids' = Ids \cup {n} /\ n \notin Ids /\ n \in 1 .. MaxChanges /\ n # 0 /\ n <= MaxChanges
  BY <1>1, <1>2, <1>3
<1>5. LedgerOK'
  BY <1>1, <1>2, <1>4 DEF IInv, LedgerOK, Status
<1>6. HistoryOK'
  BY <1>1, <1>4 DEF IInv, HistoryOK, historyVars
<1>7. CallsOK'
  BY <1>1, <1>4, CallsTyped DEF IInv
<1>8. ASSUME NEW d \in Ids
      PROVE  Tallies(d)'
  <2>1. d # 0
    BY IdsAre DEF IInv
  <2> QED
    BY <1>1, <1>2, <2>1, TallyKept DEF IInv, historyVars
<1>9. Tallies(n)'
  <2>1. \A u \in Calls : call'[u].change # n
    <3>1. \A u \in Calls : call[u].change # n
      BY <1>4 DEF IInv, CallsOK
    <3> QED
      BY <1>1, <1>4, <3>1 DEF At
  <2>2. Open(n)' = {} /\ Wrote(n)' = {}
    BY <2>1 DEF Open, Wrote
  <2>3. Cardinality(Open(n)') = 0 /\ Cardinality(Wrote(n)') = 0
    BY <2>2, FS_EmptySet
  <2>4. landed'[n] = 0 /\ lost'[n] = 0 /\ together'[n] = 0
    BY <1>1, <1>4 DEF IInv, HistoryOK, historyVars
  <2>5. ledger'[n].status = "staged"
    BY <1>1, <1>2
  <2> QED
    BY <2>3, <2>4, <2>5 DEF Tallies, Tally, Kept
<1> QED
  BY <1>4, <1>5, <1>6, <1>7, <1>8, <1>9 DEF IInv

\* As many calls as handle the change now are counted when one joins them.
LEMMA TakesKeeps ==
  ASSUME IInv, NEW t \in Calls, NEW c \in Ids, Takes(t, c)
  PROVE  IInv'
<1>1. PICK a \in Opening : At(t, a, c)
  BY DEF Takes
<1>2. /\ call[t].change = 0 /\ ledger[c].status = "staged"
      /\ UNCHANGED <<ledger, landed, lost>>
  BY DEF Takes
<1>3. c \in 1 .. MaxChanges /\ c # 0 /\ together[c] \in Nat /\ landed[c] \in Nat /\ lost[c] \in Nat
  BY RowNumbers DEF IInv
<1> DEFINE o == Cardinality(Open(c))
           w == Cardinality(Wrote(c))
<1>4. o \in Nat /\ w \in Nat /\ Cardinality(Handlers(c)) = o + w
  BY Numbers
<1> HIDE DEF o, w
<1>5. together' = [together EXCEPT ![c] = IF together[c] < o + w + 1 THEN o + w + 1 ELSE together[c]]
  BY <1>4 DEF Takes, Joined
<1>6. /\ together' \in [1 .. MaxChanges -> Nat]
      /\ together'[c] = (IF together[c] < o + w + 1 THEN o + w + 1 ELSE together[c])
      /\ \A d \in 1 .. MaxChanges : d # c => together'[d] = together[d]
  BY <1>3, <1>4, <1>5 DEF IInv, HistoryOK
<1>7. LedgerOK' /\ Ids' = Ids
  BY <1>2 DEF IInv, LedgerOK, Ids
<1>8. HistoryOK'
  BY <1>2, <1>6, <1>7 DEF IInv, HistoryOK
<1>9. CallsOK'
  BY <1>1, <1>7, CallsTyped DEF IInv, Handling
<1>10. ASSUME NEW d \in Ids, d # c
       PROVE  Tallies(d)'
  <2>1. d # 0 /\ d \in 1 .. MaxChanges
    BY RowNumbers DEF IInv
  <2> QED
    BY <1>1, <1>2, <1>6, <1>10, <2>1, TallyKept DEF IInv
<1>11. Tallies(c)'
  <2>1. Cardinality(Open(c)') = o + 1 /\ Cardinality(Wrote(c)') = w
    BY <1>1, <1>2, <1>3, <1>4, Shifts DEF IInv, Opening, o, w
  <2>2. Kept(c)' = Kept(c) /\ Kept(c) \in Int
    BY <1>2, <1>3 DEF Kept
  <2>3. Kept(c) = w
    BY <1>2 DEF IInv, Tallies, Tally, w
  <2> QED
    BY <1>2, <1>3, <1>4, <1>6, <2>1, <2>2, <2>3 DEF Tallies, Tally
<1> QED
  BY <1>7, <1>8, <1>9, <1>10, <1>11 DEF IInv

LEMMA GoesKeeps ==
  ASSUME IInv, NEW t \in Calls, NEW c \in Ids, Goes(t, c)
  PROVE  IInv'
<1>1. PICK a \in Opening : At(t, a, c)
  BY DEF Goes
<1>2. call[t].change = c /\ call[t].at \in Opening /\ UNCHANGED <<ledger, historyVars>>
  BY DEF Goes
<1>3. LedgerOK' /\ HistoryOK' /\ Ids' = Ids
  BY <1>2 DEF IInv, LedgerOK, HistoryOK, Ids, historyVars
<1>4. CallsOK'
  BY <1>1, <1>3, CallsTyped DEF IInv, Handling
<1>5. ASSUME NEW d \in Ids, d # c
      PROVE  Tallies(d)'
  BY <1>1, <1>2, <1>5, TallyKept DEF IInv, historyVars
<1>6. Tallies(c)'
  <2>1. /\ Cardinality(Open(c)') = Cardinality(Open(c))
        /\ Cardinality(Wrote(c)') = Cardinality(Wrote(c))
    BY <1>1, <1>2, Shifts, Numbers DEF IInv, Opening
  <2>2. /\ Kept(c)' = Kept(c) /\ ledger'[c].status = ledger[c].status
        /\ together'[c] = together[c]
    BY <1>2 DEF Kept, historyVars
  <2> QED
    BY <2>1, <2>2 DEF IInv, Tallies
<1> QED
  BY <1>3, <1>4, <1>5, <1>6 DEF IInv

\* What an open call might have written becomes what it has written.
LEMMA LandsKeeps ==
  ASSUME IInv, NEW t \in Calls, NEW c \in Ids, Lands(t, c)
  PROVE  IInv'
<1>1. /\ call[t].change = c /\ call[t].at \in Opening /\ At(t, "written", c)
      /\ landed' = [landed EXCEPT ![c] = @ + 1] /\ UNCHANGED <<ledger, lost, together>>
  BY DEF Lands
<1>2. c \in 1 .. MaxChanges /\ landed[c] \in Nat /\ lost[c] \in Nat /\ together[c] \in Nat
  BY RowNumbers DEF IInv
<1>3. /\ landed' \in [1 .. MaxChanges -> Nat] /\ landed'[c] = landed[c] + 1
      /\ \A d \in 1 .. MaxChanges : d # c => landed'[d] = landed[d]
  BY <1>1, <1>2 DEF IInv, HistoryOK
<1>4. LedgerOK' /\ Ids' = Ids
  BY <1>1 DEF IInv, LedgerOK, Ids
<1>5. HistoryOK'
  BY <1>1, <1>3, <1>4 DEF IInv, HistoryOK
<1>6. CallsOK'
  BY <1>1, <1>4, CallsTyped DEF IInv, Handling
<1>7. ASSUME NEW d \in Ids, d # c
      PROVE  Tallies(d)'
  <2>1. d \in 1 .. MaxChanges
    BY RowNumbers DEF IInv
  <2> QED
    BY <1>1, <1>3, <1>7, <2>1, TallyKept DEF IInv
<1>8. Tallies(c)'
  <2>1. /\ Cardinality(Open(c)') = Cardinality(Open(c)) - 1
        /\ Cardinality(Wrote(c)') = Cardinality(Wrote(c)) + 1
    BY <1>1, Shifts, Numbers DEF IInv, Opening
  <2>2. Kept(c)' = Kept(c) + 1 /\ Kept(c) \in Int
    BY <1>1, <1>2, <1>3 DEF Kept
  <2>3. Cardinality(Open(c)) \in Nat /\ Cardinality(Wrote(c)) \in Nat
    BY Numbers
  <2>4. Tallies(c) /\ ledger' = ledger /\ together' = together
    BY <1>1 DEF IInv
  <2> QED
    BY <1>2, <2>1, <2>2, <2>3, <2>4 DEF Tallies, Tally
<1> QED
  BY <1>4, <1>5, <1>6, <1>7, <1>8 DEF IInv

LEMMA LeavesKeeps ==
  ASSUME IInv, NEW t \in Calls, NEW c \in Ids, NEW s \in Status, Leaves(t, c, s)
  PROVE  IInv'
<1>1. /\ call[t].change = c /\ At(t, "idle", 0) /\ RowSet(c, s)
      /\ UNCHANGED <<landed, together>>
  BY DEF Leaves
<1>2. c \in 1 .. MaxChanges /\ c # 0 /\ landed[c] \in Nat /\ lost[c] \in Nat /\ together[c] \in Nat
  BY RowNumbers DEF IInv
<1>3. LedgerOK' /\ Ids' = Ids
  BY <1>1, RowTyped DEF IInv
<1>4. /\ lost' \in [1 .. MaxChanges -> Nat]
      /\ \A d \in 1 .. MaxChanges : d # c => lost'[d] = lost[d]
  <2>1. lost \in [1 .. MaxChanges -> Nat]
    BY DEF IInv, HistoryOK
  <2>2. lost' = lost \/ lost' = [lost EXCEPT ![c] = lost[c] + 1]
    BY DEF Leaves
  <2>3. CASE lost' = lost
    BY <2>1, <2>3
  <2>4. CASE lost' = [lost EXCEPT ![c] = lost[c] + 1]
    <3>1. lost[c] + 1 \in Nat
      BY <1>2
    <3> QED
      BY <1>2, <2>1, <2>4, <3>1
  <2> QED
    BY <2>2, <2>3, <2>4
<1>5. HistoryOK'
  BY <1>1, <1>2, <1>3, <1>4 DEF IInv, HistoryOK
<1>6. CallsOK'
  BY <1>1, <1>3, CallsTyped DEF IInv
<1>7. /\ ledger'[c].status = s
      /\ \A d \in Ids : d # c => ledger'[d] = ledger[d]
  BY <1>1 DEF RowSet
<1>8. ASSUME NEW d \in Ids, d # c
      PROVE  Tallies(d)'
  <2>1. d \in 1 .. MaxChanges /\ d # 0
    BY RowNumbers DEF IInv
  <2> QED
    BY <1>1, <1>4, <1>7, <1>8, <2>1, TallyKept DEF IInv
<1>9. Tallies(c)'
  <2> DEFINE o == Cardinality(Open(c))
             w == Cardinality(Wrote(c))
  <2>1. o \in Nat /\ w \in Nat
    BY Numbers
  <2>2. /\ Cardinality(Open(c)') = o - (IF call[t].at # "written" THEN 1 ELSE 0)
        /\ Cardinality(Wrote(c)') = w - (IF call[t].at = "written" THEN 1 ELSE 0)
    BY <1>1, <1>2, <2>1, Shifts DEF IInv
  <2>3. (call[t].at # "written" => o >= 1) /\ (call[t].at = "written" => w >= 1)
    BY <1>1, Counted
  <2>4. Tallies(c)
    BY DEF IInv
  <2> HIDE DEF o, w
  <2>5. Kept(c) \in Int /\ (lost' = lost => Kept(c)' = Kept(c))
    BY <1>1, <1>2 DEF Kept
  <2>6. CASE call[t].at \in Opening
    <3>1. lost' = lost /\ call[t].at # "written" /\ s \in {ledger[c].status, "discarded"}
      BY <2>6 DEF Leaves, Opening
    <3> QED
      BY <1>1, <1>2, <1>7, <2>1, <2>2, <2>3, <2>4, <2>5, <3>1 DEF Tallies, Tally, o, w
  <2>7. CASE call[t].at = "written" /\ s = "applied" /\ UNCHANGED lost
    BY <1>1, <1>2, <1>7, <2>1, <2>2, <2>3, <2>4, <2>5, <2>7 DEF Tallies, Tally, o, w
  <2>8. CASE call[t].at = "written" /\ s = ledger[c].status /\ lost' = [lost EXCEPT ![c] = @ + 1]
    <3>1. lost'[c] = lost[c] + 1
      BY <1>2, <2>8 DEF IInv, HistoryOK
    <3>2. Kept(c)' = Kept(c) - 1
      BY <1>1, <1>2, <3>1 DEF Kept
    <3> QED
      BY <1>1, <1>2, <1>7, <2>1, <2>2, <2>3, <2>4, <2>5, <2>8, <3>2 DEF Tallies, Tally, o, w
  <2> QED
    BY <2>6, <2>7, <2>8 DEF Leaves
<1> QED
  BY <1>3, <1>5, <1>6, <1>8, <1>9 DEF IInv

LEMMA NextInvariant ==
  ASSUME IInv, [LedgerNext]_stagedVars
  PROVE  IInv'
<1>1. Kinds
  BY StepKinds DEF IInv
<1> QED
  BY <1>1, AsideKeeps, WalksKeeps, RecordsKeeps, TakesKeeps, GoesKeeps, LandsKeeps, LeavesKeeps
  DEF Kinds

-----------------------------------------------------------------------------
(* The ledger's theorems. *)

\* The inductive invariant of the ledger: for each row, what was written and what the calls
\* that found it may still write, against the most calls that handled it at one moment.
THEOREM StagedInvariant == LedgerSpec => []IInv
<1>1. LedgerInit => IInv
  BY InitInvariant
<1>2. IInv /\ [LedgerNext]_stagedVars => IInv'
  BY NextInvariant
<1> QED
  BY <1>1, <1>2, PTL DEF LedgerSpec

\* agent-change-apply and -discard, for any number of calls that overlap, fail and are lost: a
\* change is written at most once for each call that handled it at the same moment, not counting
\* writes whose worker was lost; and a row at rest says staged only if nothing is left written.
THEOREM WritesMatchRows == LedgerSpec => []RowsTellTheWrites
<1>1. ASSUME IInv
      PROVE  RowsTellTheWrites
  <2> SUFFICES ASSUME NEW c \in Ids
               PROVE  /\ Kept(c) <= together[c]
                      /\ ~Busy(c) /\ ledger[c].status = "staged" => Kept(c) = 0
                      /\ ~Busy(c) /\ ledger[c].status = "applied" => Kept(c) >= 1
                      /\ ~Busy(c) /\ ledger[c].status = "discarded" => Kept(c) < together[c]
    BY DEF RowsTellTheWrites
  <2>1. /\ Cardinality(Open(c)) \in Nat /\ Cardinality(Wrote(c)) \in Nat
        /\ Cardinality(Handlers(c)) = Cardinality(Open(c)) + Cardinality(Wrote(c))
    BY Numbers
  <2>2. Kept(c) \in Int /\ together[c] \in Nat
    BY <1>1, RowNumbers DEF IInv, Kept
  <2>3. Tallies(c)
    BY <1>1 DEF IInv
  <2>4. ~Busy(c) => Cardinality(Open(c)) = 0 /\ Cardinality(Wrote(c)) = 0
    BY <2>1, FS_EmptySet DEF Busy
  <2> QED
    BY <2>1, <2>2, <2>3, <2>4 DEF Tallies, Tally
<1> QED
  BY <1>1, StagedInvariant, PTL

-----------------------------------------------------------------------------
(* The refinement. *)

\* The statuses ChangeLifecycle sees: a change somebody handles is not decided yet.
statuses ==
  [c \in 1 .. MaxChanges |->
     IF c \notin Ids THEN "none" ELSE IF Busy(c) THEN "staged" ELSE ledger[c].status]

\* Who handles a change is a matter of the calls that name it.
LEMMA BusyStays ==
  ASSUME NEW t \in Calls, NEW a, NEW n, At(t, a, n), NEW d, n # d, call[t].change # d
  PROVE  Busy(d)' = Busy(d)
<1>1. \A u \in Calls : call'[u].change = d <=> call[u].change = d
  BY DEF At
<1> QED
  BY <1>1 DEF Busy, Handlers

\* A step that touches one change, which was staged or being handled, decides it or leaves it.
LEMMA OneDecides ==
  ASSUME LedgerOK, LedgerOK', Ids' = Ids, NEW c \in Ids, statuses[c] = "staged",
         NEW t \in Calls, NEW a, NEW n, At(t, a, n), n \in {0, c}, call[t].change \in {0, c},
         \A d \in Ids : d # c => ledger'[d].status = ledger[d].status
  PROVE  [Lifecycle!Next]_statuses
<1>1. /\ Ids = 1 .. Len(ledger) /\ Len(ledger) \in Nat /\ Len(ledger) <= MaxChanges
      /\ MaxChanges \in Nat
  BY IdsAre, DraftsAssumption DEF LedgerOK
<1>2. c \in 1 .. MaxChanges /\ \A d \in Ids : d # 0
  BY <1>1
<1>3. \A d \in Ids : d # c => Busy(d)' = Busy(d)
  BY <1>2, BusyStays
<1>4. \A d \in 1 .. MaxChanges : d # c => statuses'[d] = statuses[d]
  BY <1>3 DEF statuses
<1>5. statuses'[c] \in Status
  BY <1>2 DEF statuses, LedgerOK, Status
<1>6. statuses' = [statuses EXCEPT ![c] = statuses'[c]]
  BY <1>2, <1>4 DEF statuses
<1>7. CASE statuses'[c] = "staged"
  <2>1. [statuses EXCEPT ![c] = "staged"] = statuses
    BY DEF statuses
  <2> QED
    BY <1>6, <1>7, <2>1
<1>8. CASE statuses'[c] \in Decided
  <2>1. PICK s \in Decided : s = statuses'[c]
    BY <1>8
  <2>2. statuses' = [statuses EXCEPT ![c] = s]
    BY <1>6, <2>1
  <2>3. Lifecycle!Decide(c, s)
    BY <2>2 DEF Lifecycle!Decide, statuses
  <2> QED
    BY <1>2, <2>1, <2>3 DEF Lifecycle!Next, Lifecycle!Ids, Lifecycle!Decisions, Decided
<1> QED
  BY <1>5, <1>7, <1>8 DEF Status

LEMMA StepsRefine ==
  ASSUME IInv, [LedgerNext]_stagedVars
  PROVE  [Lifecycle!Next]_statuses
<1>1. /\ Ids = 1 .. Len(ledger) /\ Len(ledger) \in Nat /\ Len(ledger) <= MaxChanges
      /\ MaxChanges \in Nat
  BY IdsAre, DraftsAssumption DEF IInv, LedgerOK
<1>2. LedgerOK'
  BY NextInvariant DEF IInv
<1>3. CASE Aside
  BY <1>3 DEF Aside, statuses, Busy, Handlers, Ids
<1>4. CASE Walks
  <2>1. PICK t \in Calls, a \in {"idle", "preview", "record"} :
          call[t].change = 0 /\ At(t, a, 0) /\ UNCHANGED <<ledger, historyVars>>
    BY <1>4 DEF Walks
  <2>2. \A d \in Ids : d # 0
    BY <1>1
  <2>3. \A d \in Ids : Busy(d)' = Busy(d)
    BY <2>1, <2>2, BusyStays
  <2> QED
    BY <2>1, <2>3 DEF statuses, Ids
<1>5. CASE Records
  <2>1. PICK t \in Calls : call[t].change = 0 /\ At(t, "idle", 0)
    BY <1>5 DEF Records
  <2>2. PICK row : row.status = "staged" /\ Appended(row)
    BY <1>5 DEF Records
  <2>3. PICK n \in 1 .. MaxChanges : n = Len(ledger) + 1
    BY <1>1, <1>5 DEF Records
  <2>4. /\ Ids' = 1 .. n /\ ledger'[n] = row
        /\ \A d \in Ids : d # n /\ ledger'[d] = ledger[d]
    BY <2>2, <2>3, RowAppended DEF IInv
  <2>5. /\ n \notin Ids /\ Ids' = Ids \cup {n}
        /\ \A d \in 1 .. MaxChanges : d < n => d \in Ids
        /\ \A d \in Ids : d # 0
    BY <1>1, <2>3, <2>4
  <2>6. \A d \in Ids : Busy(d)' = Busy(d)
    BY <2>1, <2>5, BusyStays
  <2>7. \A d \in Ids : ledger[d].status # "none"
    BY DEF IInv, LedgerOK, Status, Decided
  <2>8. statuses[n] = "none" /\ \A d \in 1 .. MaxChanges : d < n => statuses[d] # "none"
    BY <2>5, <2>7 DEF statuses
  <2>9. statuses' = [statuses EXCEPT ![n] = "staged"]
    BY <2>2, <2>4, <2>5, <2>6 DEF statuses
  <2>10. Lifecycle!Stage(n)
    BY <2>8, <2>9 DEF Lifecycle!Stage, Lifecycle!Ids, statuses
  <2> QED
    BY <2>10 DEF Lifecycle!Next, Lifecycle!Ids
<1>6. ASSUME NEW t \in Calls, NEW c \in Ids, Takes(t, c)
      PROVE  [Lifecycle!Next]_statuses
  <2>1. PICK a \in Opening : At(t, a, c)
    BY <1>6 DEF Takes
  <2>2. call[t].change = 0 /\ ledger[c].status = "staged" /\ ledger' = ledger
    BY <1>6 DEF Takes
  <2>3. statuses[c] = "staged" /\ Ids' = Ids
    BY <1>1, <2>2 DEF statuses, Ids
  <2> QED
    BY <1>2, <2>1, <2>2, <2>3, OneDecides DEF IInv
<1>7. ASSUME NEW t \in Calls, NEW c \in Ids, call[t].change = c
      PROVE  statuses[c] = "staged"
  BY <1>1, <1>7 DEF statuses, Busy, Handlers
<1>8. ASSUME NEW t \in Calls, NEW c \in Ids, Goes(t, c) \/ Lands(t, c)
      PROVE  [Lifecycle!Next]_statuses
  <2>1. call[t].change = c /\ ledger' = ledger
    BY <1>8 DEF Goes, Lands
  <2>2. PICK a : At(t, a, c)
    BY <1>8 DEF Goes, Lands
  <2>3. statuses[c] = "staged" /\ Ids' = Ids
    BY <1>7, <2>1 DEF Ids
  <2> QED
    BY <1>2, <2>1, <2>2, <2>3, OneDecides DEF IInv
<1>9. ASSUME NEW t \in Calls, NEW c \in Ids, NEW s \in Status, Leaves(t, c, s)
      PROVE  [Lifecycle!Next]_statuses
  <2>1. call[t].change = c /\ At(t, "idle", 0) /\ RowSet(c, s)
    BY <1>9 DEF Leaves
  <2>2. Ids' = Ids
    BY <2>1, RowTyped DEF IInv
  <2>3. \A d \in Ids : d # c => ledger'[d].status = ledger[d].status
    BY <2>1 DEF RowSet
  <2>4. statuses[c] = "staged"
    BY <1>7, <2>1
  <2> QED
    BY <1>2, <2>1, <2>2, <2>3, <2>4, OneDecides DEF IInv
<1>10. Kinds
  BY StepKinds DEF IInv
<1> QED
  BY <1>3, <1>4, <1>5, <1>6, <1>8, <1>9, <1>10 DEF Kinds

\* The shop's ledger implements the life cycle the host's ledger promises too, for any number of
\* overlapping calls: ids in order, and one decision for each change, final from the moment no
\* call handles the change any longer.
THEOREM StagedRefinement == LedgerSpec => LifecycleSpec
<1>1. LedgerInit => Lifecycle!Init
  BY DEF LedgerInit, Lifecycle!Init, Lifecycle!Ids, Ids
<1>2. IInv /\ [LedgerNext]_stagedVars => [Lifecycle!Next]_statuses
  BY StepsRefine
<1> QED
  BY <1>1, <1>2, StagedInvariant, PTL DEF LedgerSpec, LifecycleSpec, Lifecycle!Spec, statuses
=============================================================================
