------------------------ MODULE StorefrontHostProofs ------------------------
(***************************************************************************)
(* Proofs about the storefront host.                                       *)
(*                                                                         *)
(* IdentityLinking, for any customers, sign-ins, calls, token lives and    *)
(* failures: the token a session would send is the one of the customer who *)
(* signed in last, and only a completed sign-in ends a signed-out session. *)
(* The first is not inductive: a refresh writes into a link it read        *)
(* before.  The invariant therefore follows every token to a sign-in: the  *)
(* n-th link holds a token of the n-th customer who signed in, and so do   *)
(* the two tokens of a refresh of that link.                               *)
(*                                                                         *)
(* UcpWire, for any operations, clocks, lifetimes and flight times: the    *)
(* shop performs what was asked for, once per transport, and hears every   *)
(* request that is in time.  The invariant ties the request under way to   *)
(* the operation, its signature to the moment it was sent, and every deed  *)
(* of the shop to the key of its transport.                                *)
(*                                                                         *)
(* StorefrontCatalog, for any catalog, calls and sessions: an add sends    *)
(* what was asked for.  The invariant says that the one cache of all       *)
(* sessions is true, and which product the answer a call waits for is      *)
(* about: a record is built from answers to several requests, read in any  *)
(* order.                                                                  *)
(***************************************************************************)
EXTENDS IdentityLinking, UcpWire, StorefrontCatalog, FiniteSetTheorems, TLAPS

-----------------------------------------------------------------------------
(* IdentityLinking. *)

LinkedToken == [token: Nat]
IssuedToken == [who: Customers, access: {"fresh", "expiring", "revoked"}, refresh: BOOLEAN]
Refreshing == [at: {"refresh"}, link: Nat, with: Nat, new: Nat]
CallState == {Idle, Done, [at |-> "guest"]} \cup Refreshing \cup [at: {"send"}, token: Nat]
LoginState == {Idle, Done} \cup [at: {"login", "token", "attach"}, who: Customers]

\* Types of the state the proofs speak of.
Typed ==
  /\ links \in Seq(LinkedToken)
  /\ signIns \in Seq(Customers)
  /\ issued \in Seq(IssuedToken)
  /\ call \in [Calls -> CallState]
  /\ login \in [Logins -> LoginState]

\* Token n is one the shop issued to who.
IssuedTo(n, who) == n \in 1 .. Len(issued) /\ issued[n].who = who

\* Each sign-in made a link, which holds a token of its customer; the session's entry points to
\* the last of them, or nowhere.
LinksAreTheirs ==
  /\ Len(links) = Len(signIns)
  /\ linked \in {0, Len(links)}
  /\ \A n \in 1 .. Len(links) : IssuedTo(links[n].token, signIns[n])

\* A refresh trades a token of its link's customer for another one.
RefreshesAreTheirs ==
  \A c \in Calls : call[c].at = "refresh" =>
    /\ call[c].link \in 1 .. Len(links)
    /\ IssuedTo(call[c].with, signIns[call[c].link])
    /\ call[c].new # 0 => IssuedTo(call[c].new, signIns[call[c].link])

IdentityInv == Typed /\ LinksAreTheirs /\ RefreshesAreTheirs

-----------------------------------------------------------------------------
(* Records of a call and of a sign-in. *)

LEMMA CallStates ==
  /\ Idle \in CallState /\ Idle.at = "idle" /\ Done \in CallState /\ Done.at = "done"
  /\ [at |-> "guest"] \in CallState /\ [at |-> "guest"].at = "guest"
  /\ \A q \in CallState : q.at = "refresh" =>
       q \in Refreshing /\ q.link \in Nat /\ q.with \in Nat /\ q.new \in Nat
BY DEF CallState, Idle, Done, Refreshing

LEMMA LoginStates ==
  /\ Idle \in LoginState /\ Done \in LoginState
  /\ \A q \in LoginState : q.at \in {"login", "token", "attach"} => q.who \in Customers
BY DEF LoginState, Idle, Done

\* One entry of a sequence is replaced.
LEMMA EntryReplaced ==
  ASSUME NEW S, NEW s \in Seq(S), NEW n \in 1 .. Len(s), NEW r \in S
  PROVE  LET t == [s EXCEPT ![n] = r] IN
         /\ t \in Seq(S) /\ Len(t) = Len(s)
         /\ t[n] = r /\ \A m \in 1 .. Len(s) : m # n => t[m] = s[m]
OBVIOUS

\* A token that ages or is used up stays its customer's.
LEMMA TokenAmended ==
  ASSUME NEW r \in IssuedToken
  PROVE  /\ LET q == [r EXCEPT !.refresh = FALSE] IN q \in IssuedToken /\ q.who = r.who
         /\ \A a \in {"expiring", "revoked"} :
              LET q == [r EXCEPT !.access = a] IN q \in IssuedToken /\ q.who = r.who
BY DEF IssuedToken

\* Sign-ins that only move on.
LEMMA MovedOn ==
  ASSUME Typed, NEW l \in Logins, NEW at \in {"login", "token", "attach"},
         login[l].at \in {"login", "token", "attach"},
         login' = [login EXCEPT ![l].at = at]
  PROVE  login' \in [Logins -> LoginState]
<1>1. login[l] \in LoginState
  BY DEF Typed
<1>2. login[l] \in [at: {"login", "token", "attach"}, who: Customers]
  BY <1>1 DEF LoginState, Idle, Done
<1>3. [login[l] EXCEPT !.at = at] \in LoginState
  BY <1>2 DEF LoginState
<1>4. QED
  BY <1>3 DEF Typed

-----------------------------------------------------------------------------
(* Every step keeps the invariant. *)

\* Steps of the sign-ins that leave links, tokens and calls alone.
LEMMA SigningKeeps ==
  ASSUME IdentityInv, NEW l \in Logins,
         \/ \E who \in Customers : SignIn(l, who)
         \/ Authorized(l) \/ SignInFails(l) \/ Attach(l)
  PROVE  IdentityInv'
<1>1. UNCHANGED <<links, linked, call, issued, signIns>>
  BY DEF SignIn, Authorized, SignInFails, Attach
<1>2. login' \in [Logins -> LoginState]
  <2>1. ASSUME NEW who \in Customers, SignIn(l, who) PROVE login' \in [Logins -> LoginState]
    <3>1. [at |-> "login", who |-> who] \in LoginState
      BY DEF LoginState
    <3>2. QED
      BY <2>1, <3>1 DEF SignIn, IdentityInv, Typed
  <2>2. CASE Authorized(l)
    BY <2>2, MovedOn DEF Authorized, IdentityInv
  <2>3. CASE SignInFails(l) \/ Attach(l)
    BY <2>3, LoginStates DEF SignInFails, Attach, IdentityInv, Typed
  <2>4. QED
    BY <2>1, <2>2, <2>3
<1>3. QED
  BY <1>1, <1>2 DEF IdentityInv, Typed, LinksAreTheirs, RefreshesAreTheirs, IssuedTo

\* A completed sign-in: a link of its own, the customer and the token go together.
LEMMA LinkKeeps ==
  ASSUME IdentityInv, NEW l \in Logins, Link(l)
  PROVE  IdentityInv' /\ Len(signIns') = Len(signIns) + 1
<1> USE DEF IdentityInv
<1> DEFINE who == login[l].who
           pair == [who |-> who, access |-> "fresh", refresh |-> TRUE]
           link == [token |-> Len(issued')]
<1>1. who \in Customers
  BY LoginStates DEF Link, Typed
<1>2. /\ issued' = Append(issued, pair) /\ links' = Append(links, link)
      /\ linked' = Len(links') /\ signIns' = Append(signIns, who) /\ call' = call
  BY DEF Link, Issue
<1>3. pair \in IssuedToken /\ pair.who = who
  BY <1>1 DEF IssuedToken
<1> HIDE DEF pair, who
<1>4. /\ issued' \in Seq(IssuedToken) /\ Len(issued') = Len(issued) + 1
      /\ issued'[Len(issued')].who = who
      /\ \A n \in 1 .. Len(issued) : issued'[n] = issued[n]
      /\ Len(issued) \in Nat
  BY <1>2, <1>3 DEF Typed
<1>5. link \in LinkedToken /\ link.token = Len(issued')
  BY <1>4 DEF LinkedToken
<1> HIDE DEF link
<1>6. /\ links' \in Seq(LinkedToken) /\ Len(links') = Len(links) + 1 /\ links'[Len(links')] = link
      /\ \A n \in 1 .. Len(links) : links'[n] = links[n]
      /\ Len(links) \in Nat
  BY <1>2, <1>5 DEF Typed
<1>7. /\ signIns' \in Seq(Customers) /\ Len(signIns') = Len(signIns) + 1
      /\ signIns'[Len(signIns')] = who
      /\ \A n \in 1 .. Len(signIns) : signIns'[n] = signIns[n]
  BY <1>1, <1>2 DEF Typed
<1>8. Typed'
  <2>1. login' \in [Logins -> LoginState]
    BY MovedOn DEF Link
  <2>2. QED
    BY <1>2, <1>4, <1>6, <1>7, <2>1 DEF Typed
<1>9. \A n, w : IssuedTo(n, w) => IssuedTo(n, w)'
  BY <1>4 DEF IssuedTo
<1>10. LinksAreTheirs'
  <2>1. Len(links') = Len(signIns') /\ linked' = Len(links')
    BY <1>2, <1>6, <1>7 DEF LinksAreTheirs
  <2>2. ASSUME NEW n \in 1 .. Len(links) PROVE IssuedTo(links[n].token, signIns[n])'
    BY <1>6, <1>7, <1>9 DEF LinksAreTheirs
  <2>3. ASSUME NEW n, n = Len(links') PROVE IssuedTo(links[n].token, signIns[n])'
    BY <1>4, <1>5, <1>6, <1>7, <2>1, <2>3 DEF IssuedTo
  <2>4. QED
    BY <1>6, <2>1, <2>2, <2>3 DEF LinksAreTheirs
<1>11. RefreshesAreTheirs'
  BY <1>2, <1>6, <1>7, <1>9 DEF RefreshesAreTheirs, LinksAreTheirs
<1>12. QED
  BY <1>7, <1>8, <1>10, <1>11

LEMMA SignOutKeeps == IdentityInv /\ SignOut => IdentityInv'
BY DEF SignOut, IdentityInv, Typed, LinksAreTheirs, RefreshesAreTheirs, IssuedTo

\* A call's step that adds no refresh and leaves links and tokens alone, and may drop the link.
LEMMA CallKeeps ==
  ASSUME IdentityInv, NEW c \in Calls, NEW state \in CallState, state.at # "refresh",
         call' = [call EXCEPT ![c] = state],
         UNCHANGED <<links, issued, login, signIns>>, linked' \in {0, linked}
  PROVE  IdentityInv'
<1>1. Typed'
  BY DEF IdentityInv, Typed
<1>2. \A d \in Calls : call'[d].at = "refresh" => d # c /\ call'[d] = call[d]
  BY DEF IdentityInv, Typed
<1>3. QED
  BY <1>1, <1>2 DEF IdentityInv, LinksAreTheirs, RefreshesAreTheirs, IssuedTo

\* bearer: the link is read, and its token is one of the customer it was made for.
LEMMA BearerKeeps ==
  ASSUME IdentityInv, NEW c \in Calls, Bearer(c)
  PROVE  IdentityInv'
<1> USE DEF IdentityInv
<1>1. UNCHANGED <<links, linked, issued, login, signIns>>
  BY DEF Bearer
<1>2. CASE linked = 0
  BY <1>1, <1>2, CallStates, CallKeeps DEF Bearer
<1>3. CASE linked # 0
  <2>1. linked \in 1 .. Len(links) /\ IssuedTo(Token(linked), signIns[linked])
    BY <1>3 DEF LinksAreTheirs, Token, Typed
  <2>2. linked \in Nat /\ Token(linked) \in Nat
    BY <2>1 DEF IssuedTo
  <2>3. CASE Expired(linked)
    <3> DEFINE q == [at |-> "refresh", link |-> linked, with |-> Token(linked), new |-> 0]
    <3>1. q \in CallState /\ q.link = linked /\ q.with = Token(linked) /\ q.new = 0
      BY <2>2 DEF CallState, Refreshing
    <3>2. call' = [call EXCEPT ![c] = q]
      BY <1>3, <2>3 DEF Bearer
    <3> HIDE DEF q
    <3>3. Typed'
      BY <1>1, <3>1, <3>2 DEF Typed
    <3>4. \A d \in Calls : call'[d] = IF d = c THEN q ELSE call[d]
      BY <3>2 DEF Typed
    <3>5. RefreshesAreTheirs'
      BY <1>1, <2>1, <3>1, <3>4 DEF RefreshesAreTheirs, IssuedTo
    <3>6. QED
      BY <1>1, <3>3, <3>5 DEF LinksAreTheirs, IssuedTo
  <2>4. CASE ~Expired(linked)
    <3> DEFINE q == [at |-> "send", token |-> Token(linked)]
    <3>1. q \in CallState /\ q.at = "send"
      BY <2>2 DEF CallState
    <3>2. call' = [call EXCEPT ![c] = q]
      BY <1>3, <2>4 DEF Bearer
    <3>3. QED
      BY <1>1, <3>1, <3>2, CallKeeps
  <2>5. QED
    BY <2>3, <2>4
<1>4. QED
  BY <1>2, <1>3

\* The shop trades the refresh token: the new pair goes to the same customer.
LEMMA RefreshPerformedKeeps ==
  ASSUME IdentityInv, NEW c \in Calls, RefreshPerformed(c)
  PROVE  IdentityInv'
<1> USE DEF IdentityInv
<1>0. PICK k, old, who : k = call[c].link /\ old = call[c].with /\ who = signIns[k]
  OBVIOUS
<1> DEFINE pair == [who |-> issued[old].who, access |-> "fresh", refresh |-> TRUE]
<1>1. /\ call[c] \in Refreshing /\ call[c].at = "refresh"
      /\ k \in 1 .. Len(links) /\ IssuedTo(old, who)
  BY <1>0, CallStates DEF RefreshPerformed, Typed, RefreshesAreTheirs
<1>2. /\ issued' = Append([issued EXCEPT ![old].refresh = FALSE], pair)
      /\ call' = [call EXCEPT ![c].new = Len(issued')]
      /\ UNCHANGED <<links, linked, login, signIns>>
  BY <1>0 DEF RefreshPerformed
<1>3. old \in 1 .. Len(issued) /\ issued[old] \in IssuedToken /\ issued[old].who = who
  BY <1>1 DEF IssuedTo, Typed
<1> DEFINE used == [issued[old] EXCEPT !.refresh = FALSE]
           spent == [issued EXCEPT ![old] = used]
<1>4. /\ spent \in Seq(IssuedToken) /\ Len(spent) = Len(issued)
      /\ \A n \in 1 .. Len(issued) : spent[n].who = issued[n].who
      /\ issued' = Append(spent, pair)
  <2>1. used \in IssuedToken /\ used.who = who
    BY <1>3, TokenAmended
  <2>2. issued' = Append(spent, pair)
    BY <1>2
  <2> HIDE DEF used
  <2>3. /\ spent \in Seq(IssuedToken) /\ Len(spent) = Len(issued)
        /\ spent[old] = used /\ \A m \in 1 .. Len(issued) : m # old => spent[m] = issued[m]
    BY <1>3, <2>1, EntryReplaced DEF Typed
  <2>4. QED
    BY <1>3, <2>1, <2>2, <2>3
<1> HIDE DEF spent
<1>5. pair \in IssuedToken /\ pair.who = who
  BY <1>3 DEF IssuedToken
<1> HIDE DEF pair
<1>6. /\ issued' \in Seq(IssuedToken) /\ Len(issued') = Len(issued) + 1 /\ Len(issued) \in Nat
      /\ issued'[Len(issued')].who = who
      /\ \A n \in 1 .. Len(issued) : issued'[n].who = issued[n].who
  BY <1>4, <1>5 DEF Typed
<1>7. \A n, w : IssuedTo(n, w) => IssuedTo(n, w)'
  BY <1>6 DEF IssuedTo
<1> DEFINE q == [call[c] EXCEPT !.new = Len(issued')]
<1>8. q \in CallState /\ q.link = k /\ q.with = old /\ q.new = Len(issued')
  BY <1>0, <1>1, <1>6 DEF CallState, Refreshing
<1>9. call' = [call EXCEPT ![c] = q]
  BY <1>2
<1> HIDE DEF q
<1>10. call' \in [Calls -> CallState] /\ call'[c] = q /\ \A d \in Calls : d # c => call'[d] = call[d]
  BY <1>8, <1>9 DEF Typed
<1>11. Typed'
  BY <1>2, <1>6, <1>10 DEF Typed
<1>12. LinksAreTheirs'
  BY <1>2, <1>7 DEF LinksAreTheirs
<1>13. IssuedTo(old, who)' /\ \A n : n = Len(issued') => IssuedTo(n, who)'
  BY <1>1, <1>6, <1>7 DEF IssuedTo
<1>14. RefreshesAreTheirs'
  <2>1. ASSUME NEW d \in Calls, d # c, call'[d].at = "refresh"
        PROVE  /\ call'[d].link \in 1 .. Len(links')
               /\ IssuedTo(call[d].with, signIns[call[d].link])'
               /\ call'[d].new # 0 => IssuedTo(call[d].new, signIns[call[d].link])'
    BY <1>2, <1>7, <1>10, <2>1 DEF RefreshesAreTheirs
  <2>2. /\ call'[c].link \in 1 .. Len(links') /\ IssuedTo(call[c].with, signIns[call[c].link])'
        /\ IssuedTo(call[c].new, signIns[call[c].link])'
    BY <1>0, <1>1, <1>2, <1>8, <1>10, <1>13
  <2>3. QED
    BY <2>1, <2>2 DEF RefreshesAreTheirs
<1>15. QED
  BY <1>11, <1>12, <1>14

\* The tokens go into the link the refresh was for, whatever the session's entry is by now.
LEMMA RefreshAnsweredKeeps ==
  ASSUME IdentityInv, NEW c \in Calls, RefreshAnswered(c)
  PROVE  IdentityInv'
<1> USE DEF IdentityInv
<1> DEFINE k == call[c].link
           q == [at |-> "send", token |-> call[c].new]
<1>1. /\ call[c].new \in Nat /\ k \in 1 .. Len(links) /\ IssuedTo(call[c].new, signIns[k])
  BY CallStates DEF RefreshAnswered, Typed, RefreshesAreTheirs
<1>2. /\ links' = [links EXCEPT ![k].token = call[c].new] /\ call' = [call EXCEPT ![c] = q]
      /\ UNCHANGED <<linked, login, issued, signIns>>
  BY DEF RefreshAnswered
<1>3. /\ links' \in Seq(LinkedToken) /\ Len(links') = Len(links)
      /\ links'[k].token = call[c].new /\ \A n \in 1 .. Len(links) : n # k => links'[n] = links[n]
  <2> DEFINE link == [links[k] EXCEPT !.token = call[c].new]
  <2>1. link \in LinkedToken /\ link.token = call[c].new
    <3>1. links[k] \in LinkedToken
      BY <1>1 DEF Typed
    <3>2. QED
      BY <1>1, <3>1 DEF LinkedToken
  <2>2. links' = [links EXCEPT ![k] = link]
    BY <1>2
  <2> HIDE DEF link
  <2>3. QED
    BY <1>1, <2>1, <2>2, EntryReplaced DEF Typed
<1>4. q \in CallState /\ q.at = "send"
  BY <1>1 DEF CallState
<1> HIDE DEF q
<1>5. Typed'
  BY <1>2, <1>3, <1>4 DEF Typed
<1>6. LinksAreTheirs'
  BY <1>1, <1>2, <1>3 DEF LinksAreTheirs, IssuedTo
<1>7. \A d \in Calls : call'[d].at = "refresh" => call'[d] = call[d]
  BY <1>2, <1>4 DEF Typed
<1>8. RefreshesAreTheirs'
  BY <1>2, <1>3, <1>7 DEF RefreshesAreTheirs, IssuedTo
<1>9. QED
  BY <1>5, <1>6, <1>8

\* Tokens age; whose they are does not change.
LEMMA TokenAgesKeeps ==
  ASSUME IdentityInv, NEW t \in DOMAIN issued, TokenAges(t)
  PROVE  IdentityInv'
<1> USE DEF IdentityInv
<1>1. UNCHANGED <<links, linked, call, login, signIns>>
  BY DEF TokenAges
<1>2. PICK access \in {"expiring", "revoked"} : issued' = [issued EXCEPT ![t].access = access]
  BY DEF TokenAges
<1>3. /\ issued' \in Seq(IssuedToken) /\ Len(issued') = Len(issued)
      /\ \A n \in 1 .. Len(issued) : issued'[n].who = issued[n].who
  <2> DEFINE q == [issued[t] EXCEPT !.access = access]
  <2>1. t \in 1 .. Len(issued) /\ q \in IssuedToken /\ q.who = issued[t].who
    <3>1. t \in 1 .. Len(issued) /\ issued[t] \in IssuedToken
      BY DEF Typed
    <3>2. QED
      BY <3>1, TokenAmended
  <2>2. issued' = [issued EXCEPT ![t] = q]
    BY <1>2
  <2> HIDE DEF q
  <2>3. QED
    BY <2>1, <2>2, EntryReplaced DEF Typed
<1>4. QED
  BY <1>1, <1>3 DEF Typed, LinksAreTheirs, RefreshesAreTheirs, IssuedTo

LEMMA StepKeeps ==
  ASSUME IdentityInv, [Next]_vars
  PROVE  IdentityInv' /\ (linked = 0 /\ linked' # 0 => Len(signIns') > Len(signIns))
<1>1. Len(signIns) \in Nat
  BY DEF IdentityInv, Typed
<1>2. ASSUME NEW l \in Logins, Link(l)
      PROVE  IdentityInv' /\ Len(signIns') > Len(signIns)
  BY <1>1, <1>2, LinkKeeps
<1>3. ASSUME NEW l \in Logins,
             \/ \E who \in Customers : SignIn(l, who)
             \/ Authorized(l) \/ SignInFails(l) \/ Attach(l)
      PROVE  IdentityInv' /\ linked' = linked
  BY <1>3, SigningKeeps DEF SignIn, Authorized, SignInFails, Attach
<1>4. CASE SignOut
  BY <1>4, SignOutKeeps DEF SignOut
<1>5. ASSUME NEW c \in Calls, Bearer(c) \/ RefreshPerformed(c) \/ RefreshAnswered(c)
      PROVE  IdentityInv' /\ linked' = linked
  BY <1>5, BearerKeeps, RefreshPerformedKeeps, RefreshAnsweredKeeps
     DEF Bearer, RefreshPerformed, RefreshAnswered
<1>6. ASSUME NEW c \in Calls, RefreshFails(c) \/ Answered(c) \/ AuthRefused(c)
      PROVE  IdentityInv' /\ linked' \in {0, linked}
  <2>1. PICK q \in {Done, [at |-> "guest"]} : call' = [call EXCEPT ![c] = q]
    BY <1>6 DEF RefreshFails, Answered, AuthRefused
  <2>2. UNCHANGED <<links, issued, login, signIns>> /\ linked' \in {0, linked}
    BY <1>6 DEF RefreshFails, Answered, AuthRefused
  <2>3. QED
    BY <2>1, <2>2, CallStates, CallKeeps
<1>7. ASSUME NEW t \in DOMAIN issued, TokenAges(t) PROVE IdentityInv' /\ linked' = linked
  BY <1>7, TokenAgesKeeps DEF TokenAges
<1>8. CASE UNCHANGED vars
  BY <1>8 DEF vars, IdentityInv, Typed, LinksAreTheirs, RefreshesAreTheirs, IssuedTo
<1>9. QED
  BY <1>2, <1>3, <1>4, <1>5, <1>6, <1>7, <1>8 DEF Next

-----------------------------------------------------------------------------
(* The theorems. *)

\* Every token the session holds, stores or asks for belongs to the sign-in its link was made
\* for (ShopwareIdentityLinking.link, bearer, refresh).
THEOREM IdentityInvariant == Spec => []IdentityInv
<1>1. Init => IdentityInv
  <2>1. Init => Typed
    BY CallStates, LoginStates DEF Init, Typed
  <2>2. Init => LinksAreTheirs /\ RefreshesAreTheirs
    BY CallStates DEF Init, LinksAreTheirs, RefreshesAreTheirs
  <2>3. QED
    BY <2>1, <2>2 DEF IdentityInv
<1>2. IdentityInv /\ [Next]_vars => IdentityInv'
  BY StepKeeps
<1>3. QED
  BY <1>1, <1>2, PTL DEF Spec

\* The token the session would send is the one of the customer who signed in last, however
\* refreshes, refusals and sign-ins interleave (link, refresh).
THEOREM LastCustomersToken == Spec => []StoredTokenIsTheirs
<1>1. IdentityInv => StoredTokenIsTheirs
  BY DEF IdentityInv, Typed, LinksAreTheirs, IssuedTo, StoredTokenIsTheirs, Token
<1>2. QED
  BY <1>1, IdentityInvariant, PTL

\* No refresh and no refusal links a session again that signed out: only a completed sign-in
\* does (auth_signout, refresh).
THEOREM SignedOutUntilSignIn == Spec => SignedOutStaysOut
<1>1. IdentityInv /\ [Next]_vars => [linked = 0 /\ linked' # 0 => Len(signIns') > Len(signIns)]_vars
  BY StepKeeps
<1>2. QED
  BY <1>1, IdentityInvariant, PTL DEF Spec, SignedOutStaysOut

-----------------------------------------------------------------------------
(* UcpWire: what goes over the wire is what was asked. *)

Operations == DOMAIN Spoken

\* An effect is what was asked for; only a search's filters may be missing.
IsAsked(e, a) ==
  /\ e.does = Spoken[a.op]
  /\ e.on = (IF a.op \in Creating \cup {"search_catalog", "lookup_catalog", "get_product"}
             THEN None ELSE a.id)
  /\ a.op \in Creating \cup Updating \cup {"complete_checkout"} =>
       e.doc = (IF a.under # {} THEN a.under ELSE a.beside) \ {"id"}
  /\ a.op \in {"lookup_catalog", "get_product"} =>
       e.ids = (IF a.ids # {} THEN a.ids ELSE {a.one} \ {None})
  /\ e.query = (IF a.op = "search_catalog" THEN a.query ELSE None)
  /\ e.filters \in {{}, a.filters}

\* Every operation is of one of the kinds that are told apart.
LEMMA OperationNames ==
  Operations = Creating \cup Updating \cup Cancelling \cup Getting
                 \cup {"complete_checkout", "apply_discount", "search_catalog", "lookup_catalog",
                       "get_product"}
BY DEF Operations, Spoken, Creating, Updating, Cancelling, Getting

\* The one product of a lookup is the one asked for.
LEMMA OneProduct ==
  ASSUME NEW a \in Asks, IsOneProduct(a)
  PROVE  {CHOOSE id \in LookupIds(a) : TRUE} = LookupIds(a)
<1>1. IsFiniteSet(LookupIds(a))
  BY WireAssumption, FS_EmptySet, FS_Singleton DEF LookupIds
<1>2. Cardinality(LookupIds(a)) = 1
  BY DEF IsOneProduct
<1>3. PICK id : LookupIds(a) = {id}
  BY <1>1, <1>2, FS_Singleton
<1> QED BY <1>3

\* The ids of a lookup are those given, or the one given.
LEMMA IdsAreGiven ==
  ASSUME NEW a
  PROVE  LookupIds(a) = (IF a.ids # {} THEN a.ids ELSE {a.one} \ {None})
BY DEF LookupIds

\* A tool call performs what was asked for.
LEMMA ToolDoesTheAsked ==
  ASSUME NEW a \in Asks
  PROVE  Performs("mcp", Wire("mcp", a)) # {}
         /\ \A e \in Performs("mcp", Wire("mcp", a)) : IsAsked(e, a)
<1> DEFINE w == Wire("mcp", a)  args == McpArguments(a)
<1>1. a.op \in Operations
  BY WireAssumption DEF Operations
<1>2. w.body = [tool |-> McpTool(a.op), arguments |-> args]
  BY DEF Wire, Rest
<1>3. /\ args.dryRun = FALSE
      /\ args.id = (IF a.op \in Creating \cup {"search_catalog", "lookup_catalog", "get_product"}
                    THEN None ELSE a.id)
      /\ a.op \in Creating \cup Updating \cup {"complete_checkout"} =>
           args.payload = DocumentBody(a)
      /\ a.op \in {"lookup_catalog", "get_product"} => args.ids = LookupIds(a)
      /\ args.query = (IF a.op = "search_catalog" THEN a.query ELSE None)
  <2> HIDE DEF args
  <2>1. CASE a.op = "search_catalog"
    <3>1. args = [Nothing EXCEPT !.query = a.query]
      BY <2>1 DEF args, McpArguments, Getting, Cancelling, Creating, Updating
    <3> QED BY <2>1, <3>1 DEF Nothing, Creating, Updating
  <2>2. CASE a.op \in {"lookup_catalog", "get_product"}
    <3>1. args = [Nothing EXCEPT !.ids = LookupIds(a)]
      BY <2>2 DEF args, McpArguments, Getting, Cancelling, Creating, Updating
    <3> QED BY <2>2, <3>1 DEF Nothing, Creating, Updating
  <2>3. CASE a.op \in Getting \cup Cancelling
    <3>1. args = [Nothing EXCEPT !.id = a.id]
      BY <2>3 DEF args, McpArguments, Getting, Cancelling, Creating, Updating
    <3> QED BY <2>3, <3>1 DEF Nothing, Creating, Updating, Getting, Cancelling
  <2>4. CASE a.op \in Creating
    <3>1. args = [Nothing EXCEPT !.payload = DocumentBody(a)]
      BY <2>4 DEF args, McpArguments, Getting, Cancelling, Creating, Updating
    <3> QED BY <2>4, <3>1 DEF Nothing, Creating
  <2>5. CASE a.op \in Updating \cup {"complete_checkout"}
    <3>1. args = [Nothing EXCEPT !.id = a.id, !.payload = DocumentBody(a)]
      BY <2>5 DEF args, McpArguments, Getting, Cancelling, Creating, Updating
    <3> QED BY <2>5, <3>1 DEF Nothing, Creating, Updating
  <2>6. CASE a.op = "apply_discount"
    <3>1. args = [Nothing EXCEPT !.id = a.id, !.payload = {"code"}]
      BY <2>6 DEF args, McpArguments, Getting, Cancelling, Creating, Updating
    <3> QED BY <2>6, <3>1 DEF Nothing, Creating, Updating
  <2> QED BY <1>1, <2>1, <2>2, <2>3, <2>4, <2>5, <2>6, OperationNames
<1>4. Spoken[McpTool(a.op)] = Spoken[a.op]
  BY DEF McpTool, Spoken
<1>5. Performs("mcp", w) = {McpEffect(w)}
  BY <1>2, <1>3 DEF Performs
<1>6. McpEffect(w) = Effect(Spoken[a.op], args.id, args.payload, args.ids, args.query, {})
  BY <1>2, <1>4 DEF McpEffect
<1> HIDE DEF w, args
<1>7. IsAsked(McpEffect(w), a)
  <2> DEFINE e == McpEffect(w)
  <2>1. /\ e.does = Spoken[a.op] /\ e.on = args.id /\ e.doc = args.payload
        /\ e.ids = args.ids /\ e.query = args.query /\ e.filters = {}
    BY <1>6 DEF Effect
  <2> HIDE DEF e
  <2>2. DocumentBody(a) = (IF a.under # {} THEN a.under ELSE a.beside) \ {"id"}
    BY DEF DocumentBody, DocumentAsGiven
  <2>3. IsAsked(e, a)
    BY <1>3, <2>1, <2>2, IdsAreGiven DEF IsAsked
  <2> QED BY <2>3 DEF e
<1> QED BY <1>5, <1>7 DEF w

\* A REST request performs what was asked for.
LEMMA RequestDoesTheAsked ==
  ASSUME NEW a \in Asks, ~OnlyOverMcp(a)
  PROVE  Performs("rest", Wire("rest", a)) # {}
         /\ \A e \in Performs("rest", Wire("rest", a)) : IsAsked(e, a)
<1> DEFINE w == RestRequest(a)  e == RestEffect(w)  place == Collection(a.op)
<1> USE DEF Creating, Updating, Cancelling, Getting
<1>1. a.op \in Operations
  BY WireAssumption DEF Operations
<1>2. place = (IF a.op \in Cartlike THEN "carts" ELSE IF a.op = "get_order" THEN "orders"
               ELSE "checkout-sessions")
  BY DEF Collection
<1>3. DocumentBody(a) \ {"id"} = (IF a.under # {} THEN a.under ELSE a.beside) \ {"id"}
  BY DEF DocumentBody, DocumentAsGiven
<1>4. IsAsked(e, a)
  <2>1. CASE a.op = "search_catalog"
    <3>1. w = Rest("POST", <<"catalog", "search">>, [query |-> a.query, filters |-> a.filters])
      BY <2>1 DEF RestRequest, IsOneProduct
    <3>2. e = Effect("search_catalog", None, {}, {}, a.query, a.filters)
      BY <3>1 DEF RestEffect, Rest
    <3> QED BY <2>1, <3>2 DEF IsAsked, Effect, Spoken
  <2>2. CASE IsOneProduct(a)
    <3> DEFINE id == CHOOSE i \in LookupIds(a) : TRUE
    <3>1. w = Rest("GET", <<"catalog", "product", id>>, None)
      BY <2>2 DEF RestRequest, IsOneProduct
    <3> HIDE DEF id
    <3>2. e = Effect("lookup_catalog", None, {}, {id}, None, {})
      BY <3>1 DEF RestEffect, Rest
    <3>3. {id} = LookupIds(a)
      BY <2>2, OneProduct DEF id
    <3>4. a.op = "get_product"
      BY <2>2 DEF IsOneProduct
    <3> QED BY <3>2, <3>3, <3>4, IdsAreGiven DEF IsAsked, Effect, Spoken
  <2>3. CASE a.op \in {"get_product", "lookup_catalog"} /\ ~IsOneProduct(a)
    <3>1. w = Rest("POST", <<"catalog", "lookup">>, LookupIds(a))
      BY <2>3 DEF RestRequest
    <3>2. e = Effect("lookup_catalog", None, {}, LookupIds(a), None, {})
      BY <3>1 DEF RestEffect, Rest
    <3> QED BY <2>3, <3>2, IdsAreGiven DEF IsAsked, Effect, Spoken
  <2>4. CASE a.op \in Creating
    <3>1. w = Rest("POST", <<place>>, DocumentBody(a))
      BY <2>4 DEF RestRequest, IsOneProduct
    <3>2. e = Effect(Spoken[a.op], None, DocumentBody(a) \ {"id"}, {}, None, {})
      BY <2>4, <3>1, <1>2 DEF RestEffect, Rest, Cartlike, Spoken
    <3> QED BY <2>4, <3>2, <1>3 DEF IsAsked, Effect
  <2>5. CASE a.op \in Getting
    <3>1. w = Rest("GET", <<place, a.id>>, None)
      BY <2>5 DEF RestRequest, IsOneProduct
    <3>2. e = Effect(Spoken[a.op], a.id, {}, {}, None, {})
      BY <2>5, <3>1, <1>2 DEF RestEffect, Rest, Cartlike, Spoken
    <3> QED BY <2>5, <3>2 DEF IsAsked, Effect
  <2>6. CASE a.op \in Updating
    <3>1. w = Rest("PATCH", <<place, a.id>>, {"id"} \cup DocumentBody(a))
      BY <2>6 DEF RestRequest, IsOneProduct
    <3>2. e = Effect(Spoken[a.op], a.id, ({"id"} \cup DocumentBody(a)) \ {"id"}, {}, None, {})
      BY <2>6, <3>1, <1>2 DEF RestEffect, Rest, Cartlike, Spoken
    <3>3. ({"id"} \cup DocumentBody(a)) \ {"id"} = DocumentBody(a) \ {"id"}
      OBVIOUS
    <3> QED BY <2>6, <3>2, <3>3, <1>3 DEF IsAsked, Effect
  <2>7. CASE a.op \in Cancelling
    <3>1. w = Rest("POST", <<place, a.id, "cancel">>, {})
      BY <2>7 DEF RestRequest, IsOneProduct
    <3>2. e = Effect(Spoken[a.op], a.id, {} \ {"id"}, {}, None, {})
      BY <2>7, <3>1, <1>2 DEF RestEffect, Rest, Cartlike, Spoken
    <3> QED BY <2>7, <3>2 DEF IsAsked, Effect
  <2>8. CASE a.op = "complete_checkout"
    <3>1. w = Rest("POST", <<place, a.id, "complete">>, DocumentBody(a))
      BY <2>8 DEF RestRequest, IsOneProduct
    <3>2. e = Effect(Spoken[a.op], a.id, DocumentBody(a) \ {"id"}, {}, None, {})
      BY <2>8, <3>1, <1>2 DEF RestEffect, Rest, Cartlike, Spoken
    <3> QED BY <2>8, <3>2, <1>3 DEF IsAsked, Effect
  <2> QED BY <1>1, <2>1, <2>2, <2>3, <2>4, <2>5, <2>6, <2>7, <2>8, OperationNames
          DEF OnlyOverMcp
<1>5. Performs("rest", Wire("rest", a)) = {e}
  BY DEF Performs, Wire
<1> QED BY <1>4, <1>5

-----------------------------------------------------------------------------
(* The invariant. *)

UnderWay == {"flying", "answered"}

\* The key of a transport: the first is tried under key 1, the other under key 2.
KeyOf(t) == IF t = first THEN 1 ELSE 2

\* What is under way is what was asked, as this transport writes it, signed when it was sent.
SentAsAsked ==
  step \in UnderWay =>
    /\ request.wire = Wire(transport, ask)
    /\ request.signature = Sign(request.wire, request.sent)
    /\ request.sent \in Nat /\ request.sent <= clock
    /\ request.key = KeyOf(transport)
    /\ ~(transport = "rest" /\ OnlyOverMcp(ask))

\* Nothing is performed before a call, and each transport counts under its own key.
Steps ==
  /\ ask \in Asks \/ step = "idle"
  /\ step = "idle" => performed = <<>> /\ request.key = 0
  /\ step = "ask" => request.key = KeyOf(transport) - 1
  /\ step \in {"idle", "ask", "flying"} => answer = Silence
  /\ step = "answered" => answer # Silence
  /\ answer \in McpOnly => transport = "mcp"
  /\ reply # "none" => step = "done"

\* The shop did what was asked, under the key of the transport it came over, once.
PerformedAsAsked ==
  \A i \in DOMAIN performed :
    /\ IsAsked(performed[i].effect, ask)
    /\ performed[i].over \in Transports
    /\ performed[i].key = KeyOf(performed[i].over)

KeysCountOnce ==
  step # "idle" /\ ask.op \in Mutating =>
    \A i, j \in DOMAIN performed : performed[i].key = performed[j].key => i = j

\* A document answers something that was performed under the same key.
DocumentsAreOfWork ==
  answer = "document" => \E i \in DOMAIN performed : performed[i].key = request.key

\* The call ends with the document it was answered with.
RepliesAreRead ==
  reply = "document" => \/ answer = "document"
                        \/ answer = "error document" /\ ask.lenient

TurnedAwayForCause ==
  answer = "turned away" => \/ skew \notin -Tolerance .. Tolerance
                           \/ clock - request.sent > Lifetime

\* What the shop did is a list.
IsHistory == \E S : performed \in Seq(S)

WireInv ==
  /\ WireTypeOK /\ IsHistory
  /\ SentAsAsked /\ Steps /\ PerformedAsAsked /\ KeysCountOnce
  /\ DocumentsAreOfWork /\ RepliesAreRead /\ TurnedAwayForCause

\* Nothing is under way at first.
LEMMA WireBegins == WireInit => WireInv
<1> SUFFICES ASSUME WireInit PROVE WireInv
  OBVIOUS
<1>1. performed = <<>> /\ DOMAIN performed = {}
  BY DEF WireInit
<1>2. IsHistory
  <2>1. performed \in Seq({})
    BY <1>1
  <2> QED BY <2>1 DEF IsHistory
<1>3. WireTypeOK /\ Steps
  BY <1>1 DEF WireInit, WireTypeOK, Steps, Transports, Sayings, McpOnly, Silence, NoRequest
<1> QED BY <1>1, <1>2, <1>3 DEF WireInit, WireInv, SentAsAsked, UnderWay, PerformedAsAsked,
     KeysCountOnce, DocumentsAreOfWork, RepliesAreRead, TurnedAwayForCause, Silence

\* Only Perform adds to what was performed.
LEMMA HistoryKept ==
  ASSUME WireInv, [WireNext]_wireVars
  PROVE  IsHistory'
<1> USE DEF WireInv
<1>1. CASE Perform
  <2>1. PICK S : performed \in Seq(S)
    BY DEF IsHistory
  <2>2. CASE performed' = performed
    BY <2>1, <2>2 DEF IsHistory
  <2>3. CASE \E d : performed' = Append(performed, d)
    <3>1. PICK d : performed' = Append(performed, d)
      BY <2>3
    <3>2. performed \in Seq(S \cup {d})
      BY <2>1
    <3>3. performed' \in Seq(S \cup {d})
      BY <3>1, <3>2
    <3> QED BY <3>3 DEF IsHistory
  <2> QED BY <1>1, <2>2, <2>3 DEF Perform
<1>2. CASE CallUcp \/ NoRoute \/ Send \/ Resend \/ Minute
           \/ TurnAway \/ Refuse \/ FallBack \/ Return \/ UNCHANGED wireVars
  BY <1>2 DEF CallUcp, NoRoute, Send, Resend, Minute, TurnAway, Refuse, FallBack, Return,
     wireVars, IsHistory
<1> QED BY <1>1, <1>2 DEF WireNext

\* Every step keeps the types.
LEMMA WireTypesKept ==
  ASSUME WireInv, [WireNext]_wireVars
  PROVE  WireTypeOK'
<1> USE DEF WireInv
<1>1. CASE Minute
  <2>1. clock' = clock + 1 /\ clock \in Nat
    BY <1>1 DEF Minute, WireTypeOK
  <2>2. clock' \in Nat
    BY <2>1
  <2> QED BY <1>1, <2>2 DEF Minute, WireTypeOK
<1>2. CASE Return
  <2>1. Verdict \in {"document", "refused", "gone", "auth", "unavailable"}
    BY DEF Verdict, ReadMcp, ReadRest, ClassifyMcpError, UnwrapEnvelope, MaybeDocumentError
  <2> QED BY <1>2, <2>1 DEF Return, WireTypeOK
<1>3. CASE Perform \/ Refuse
  BY <1>3 DEF Perform, Refuse, WireTypeOK, Sayings, McpOnly
<1>4. CASE CallUcp \/ NoRoute \/ Send \/ Resend \/ TurnAway \/ FallBack
  BY <1>4 DEF CallUcp, NoRoute, Send, Resend, TurnAway, FallBack, WireTypeOK, Transports, Other,
              Silence
<1>5. CASE UNCHANGED wireVars
  BY <1>5 DEF wireVars, WireTypeOK
<1> QED BY <1>1, <1>2, <1>3, <1>4, <1>5 DEF WireNext

\* A request is made from what was asked when it is sent; a resend signs it anew.
LEMMA SentAsAskedKept ==
  ASSUME WireInv, [WireNext]_wireVars
  PROVE  SentAsAsked'
<1> USE DEF WireInv
<1>1. CASE Send
  <2> DEFINE wire == Wire(transport, ask)
  <2>1. /\ request'.wire = wire /\ request'.signature = Sign(wire, clock)
        /\ request'.key = request.key + 1 /\ request'.sent = clock
    BY <1>1 DEF Send
  <2>2. request.key + 1 = KeyOf(transport) /\ clock \in Nat
    BY <1>1 DEF Send, Steps, KeyOf, WireTypeOK
  <2> HIDE DEF wire
  <2>3. /\ step' = "flying" /\ ~(transport = "rest" /\ OnlyOverMcp(ask))
        /\ UNCHANGED <<ask, first, clock, transport>>
    BY <1>1 DEF Send
  <2> QED BY <2>1, <2>2, <2>3 DEF SentAsAsked, KeyOf, wire
<1>2. CASE Resend
  <2>1. /\ request.wire = Wire(transport, ask) /\ request.key = KeyOf(transport)
        /\ ~(transport = "rest" /\ OnlyOverMcp(ask)) /\ clock \in Nat
    BY <1>2 DEF Resend, SentAsAsked, UnderWay, WireTypeOK
  <2>2. /\ request'.wire = request.wire /\ request'.signature = Sign(request.wire, clock)
        /\ request'.key = request.key /\ request'.sent = clock
    BY <1>2 DEF Resend, Resent
  <2>3. UNCHANGED <<ask, first, clock, transport>>
    BY <1>2 DEF Resend
  <2> QED BY <2>1, <2>2, <2>3 DEF SentAsAsked, KeyOf
<1>3. CASE Minute
  <2>1. /\ request.sent \in Nat /\ request.sent <= clock /\ clock \in Nat
    BY <1>3 DEF Minute, SentAsAsked, UnderWay, WireTypeOK
  <2>2. request.sent <= clock'
    BY <1>3, <2>1 DEF Minute
  <2> QED BY <1>3, <2>1, <2>2 DEF Minute, SentAsAsked, UnderWay, KeyOf
<1>4. CASE CallUcp \/ NoRoute \/ TurnAway \/ Perform \/ Refuse
           \/ FallBack \/ Return \/ UNCHANGED wireVars
  BY <1>4 DEF CallUcp, NoRoute, TurnAway, Perform, Refuse, FallBack, Return, wireVars,
     SentAsAsked, WireTypeOK, Steps, UnderWay, KeyOf
<1> QED BY <1>1, <1>2, <1>3, <1>4 DEF WireNext

\* Where a call stands goes with its key, its answer and its reply.
LEMMA StepsKept ==
  ASSUME WireInv, [WireNext]_wireVars
  PROVE  Steps'
<1> USE DEF WireInv
<1>1. CASE CallUcp
  <2>1. /\ step' = "ask" /\ ask' \in Asks /\ transport' = first'
        /\ request' = request /\ request.key = 0 /\ answer' = answer /\ answer = Silence
        /\ reply' = reply /\ reply = "none"
    BY <1>1 DEF CallUcp, Steps
  <2>2. KeyOf(transport)' = 1
    BY <2>1 DEF KeyOf
  <2>3. request'.key = KeyOf(transport)' - 1
    BY <2>1, <2>2
  <2> QED BY <2>1, <2>3 DEF Steps, Silence, McpOnly
<1>2. CASE FallBack
  <2>1. /\ step' = "ask" /\ step = "answered" /\ ask' = ask /\ ask \in Asks
        /\ first' = first /\ transport = first /\ transport' = Other(transport)
        /\ request' = request /\ request.key = KeyOf(transport) /\ answer' = Silence
        /\ reply' = reply /\ reply = "none"
    BY <1>2 DEF FallBack, Settled, Steps, SentAsAsked, UnderWay
  <2>2. KeyOf(transport)' = 2 /\ KeyOf(transport) = 1
    BY <2>1 DEF KeyOf, Other, WireTypeOK, Transports
  <2>3. request'.key = KeyOf(transport)' - 1
    BY <2>1, <2>2
  <2> QED BY <2>1, <2>3 DEF Steps, Silence, McpOnly
<1>3. CASE NoRoute \/ Send \/ Resend \/ Minute \/ TurnAway
           \/ Perform \/ Refuse \/ Return \/ UNCHANGED wireVars
  BY <1>3 DEF NoRoute, Send, Resend, Minute, TurnAway, Perform, Refuse, Return, wireVars, Steps,
     SentAsAsked, WireTypeOK, UnderWay, KeyOf, Transports, Other, Silence, McpOnly, Sayings,
     Settled
<1> QED BY <1>1, <1>2, <1>3 DEF WireNext

\* A deed of the request under way.
Deed(e) == [effect |-> e, over |-> transport, key |-> request.key]

\* Perform adds one deed of the request under way, unless its key counted before.
LEMMA OneDeed ==
  ASSUME WireInv, Perform
  PROVE  \/ /\ performed' = performed
            /\ \E i \in DOMAIN performed : performed[i].key = request.key
         \/ /\ \E e : IsAsked(e, ask) /\ performed' = Append(performed, Deed(e))
            /\ ask.op \in Mutating =>
                 \A i \in DOMAIN performed : performed[i].key # request.key
<1>1. /\ request.wire = Wire(transport, ask) /\ ~(transport = "rest" /\ OnlyOverMcp(ask))
      /\ transport \in Transports /\ ask \in Asks
  BY DEF Perform, WireInv, SentAsAsked, UnderWay, Steps, WireTypeOK
<1> DEFINE done == Performs(transport, request.wire)
<1>2. done # {} /\ \A e \in done : IsAsked(e, ask)
  BY <1>1, ToolDoesTheAsked, RequestDoesTheAsked DEF Transports
<1> DEFINE e == CHOOSE e \in done : TRUE
<1>3. performed' = IF /\ ask.op \in Mutating
                      /\ \E i \in DOMAIN performed : performed[i].key = request.key
                   THEN performed
                   ELSE IF done = {} THEN performed ELSE Append(performed, Deed(e))
  BY DEF Perform, Deed
<1> HIDE DEF done
<1>4. IsAsked(e, ask)
  BY <1>2
<1> HIDE DEF e
<1> QED BY <1>2, <1>3, <1>4

\* What stands in the list once a deed is added.
LEMMA DeedAdded ==
  ASSUME IsHistory, NEW d, performed' = Append(performed, d)
  PROVE  /\ Len(performed) \in Nat /\ DOMAIN performed = 1 .. Len(performed)
         /\ DOMAIN performed' = 1 .. Len(performed) + 1
         /\ performed'[Len(performed) + 1] = d
         /\ \A i \in DOMAIN performed : i \in DOMAIN performed' /\ performed'[i] = performed[i]
         /\ \A i \in DOMAIN performed' : i \in DOMAIN performed \/ i = Len(performed) + 1
<1>1. PICK S : performed \in Seq(S)
  BY DEF IsHistory
<1>2. performed \in Seq(S \cup {d})
  BY <1>1
<1> QED BY <1>2

\* What the shop adds is the deed asked for, under the transport's key.
LEMMA PerformedKept ==
  ASSUME WireInv, [WireNext]_wireVars
  PROVE  PerformedAsAsked'
<1> USE DEF WireInv
<1>1. CASE CallUcp
  <2>1. /\ DOMAIN performed = {} /\ performed' = performed
    BY <1>1 DEF CallUcp, Steps
  <2> QED BY <2>1 DEF PerformedAsAsked
<1>2. CASE Perform
  <2>1. UNCHANGED <<ask, first, transport, request>>
    BY <1>2 DEF Perform
  <2>2. transport \in Transports /\ request.key = KeyOf(transport)
    BY <1>2 DEF Perform, WireTypeOK, SentAsAsked, UnderWay
  <2>3. CASE performed' = performed
    BY <2>1, <2>3 DEF PerformedAsAsked, KeyOf
  <2>4. CASE \E e : IsAsked(e, ask) /\ performed' = Append(performed, Deed(e))
    <3>1. PICK e : IsAsked(e, ask) /\ performed' = Append(performed, Deed(e))
      BY <2>4
    <3>2. Deed(e).effect = e /\ Deed(e).over = transport /\ Deed(e).key = request.key
      BY DEF Deed
    <3> QED BY <2>1, <2>2, <3>1, <3>2, DeedAdded DEF PerformedAsAsked, KeyOf
  <2> QED BY <1>2, <2>3, <2>4, OneDeed
<1>3. CASE NoRoute \/ Send \/ Resend \/ Minute \/ TurnAway
           \/ Refuse \/ FallBack \/ Return \/ UNCHANGED wireVars
  BY <1>3 DEF NoRoute, Send, Resend, Minute, TurnAway, Refuse, FallBack, Return, wireVars,
     PerformedAsAsked, KeyOf
<1> QED BY <1>1, <1>2, <1>3 DEF WireNext

\* A cart or checkout operation is added only under a key without a deed.
LEMMA KeysStayApart ==
  ASSUME WireInv, [WireNext]_wireVars
  PROVE  KeysCountOnce'
<1> USE DEF WireInv
<1>1. CASE CallUcp
  <2>1. /\ DOMAIN performed = {} /\ performed' = performed
    BY <1>1 DEF CallUcp, Steps
  <2> QED BY <2>1 DEF KeysCountOnce
<1>2. CASE Perform
  <2>1. UNCHANGED <<ask, first, transport, request>> /\ step # "idle"
    BY <1>2 DEF Perform
  <2>3. CASE performed' = performed
    BY <2>1, <2>3 DEF KeysCountOnce
  <2>4. CASE /\ \E e : IsAsked(e, ask) /\ performed' = Append(performed, Deed(e))
             /\ ask.op \in Mutating =>
                  \A i \in DOMAIN performed : performed[i].key # request.key
    <3>1. PICK e : performed' = Append(performed, Deed(e))
      BY <2>4
    <3>2. Deed(e).key = request.key
      BY DEF Deed
    <3>3. ASSUME ask.op \in Mutating, NEW i \in DOMAIN performed', NEW j \in DOMAIN performed',
                 performed'[i].key = performed'[j].key
          PROVE  i = j
      BY <2>1, <2>4, <3>1, <3>2, <3>3, DeedAdded DEF KeysCountOnce
    <3> QED BY <2>1, <3>3 DEF KeysCountOnce
  <2> QED BY <1>2, <2>3, <2>4, OneDeed
<1>3. CASE NoRoute \/ Send \/ Resend \/ Minute \/ TurnAway
           \/ Refuse \/ FallBack \/ Return \/ UNCHANGED wireVars
  <2>1. /\ performed' = performed /\ ask' = ask
        /\ step' # "idle" => step # "idle"
    BY <1>3 DEF NoRoute, Send, Resend, Minute, TurnAway, Refuse, FallBack, Return, Settled,
                wireVars
  <2> QED BY <2>1 DEF KeysCountOnce
<1> QED BY <1>1, <1>2, <1>3 DEF WireNext

\* A document is answered only after the shop did its work.
LEMMA DocumentsKept ==
  ASSUME WireInv, [WireNext]_wireVars
  PROVE  DocumentsAreOfWork'
<1> USE DEF WireInv
<1>1. CASE Perform
  <2>1. request' = request
    BY <1>1 DEF Perform
  <2>3. CASE performed' = performed /\ \E i \in DOMAIN performed : performed[i].key = request.key
    BY <2>1, <2>3 DEF DocumentsAreOfWork
  <2>4. CASE \E e : IsAsked(e, ask) /\ performed' = Append(performed, Deed(e))
    <3>1. PICK e : performed' = Append(performed, Deed(e))
      BY <2>4
    <3>2. Deed(e).key = request.key
      BY DEF Deed
    <3>3. Len(performed) + 1 \in DOMAIN performed'
      BY <3>1, DeedAdded
    <3> QED BY <2>1, <3>1, <3>2, <3>3, DeedAdded DEF DocumentsAreOfWork
  <2> QED BY <1>1, <2>3, <2>4, OneDeed
<1>2. CASE CallUcp \/ NoRoute \/ Send \/ Resend \/ Minute
           \/ TurnAway \/ Refuse \/ FallBack \/ Return \/ UNCHANGED wireVars
  BY <1>2 DEF CallUcp, NoRoute, Send, Resend, Minute, TurnAway, Refuse, FallBack, Return,
     wireVars, DocumentsAreOfWork, Steps, Silence, Sayings, McpOnly
<1> QED BY <1>1, <1>2 DEF WireNext

\* No other answer is read as a document, over either transport.
LEMMA RepliesKept ==
  ASSUME WireInv, [WireNext]_wireVars
  PROVE  RepliesAreRead'
<1> USE DEF WireInv
<1>1. CASE Return
  <2>1. /\ reply' = Verdict /\ answer' = answer /\ ask' = ask
        /\ answer \in Sayings \cup {"turned away"}
    BY <1>1 DEF Return, Settled, Steps, WireTypeOK
  <2>2. Verdict = "document" => answer = "document" \/ (answer = "error document" /\ ask.lenient)
    BY <2>1 DEF Verdict, ReadMcp, ReadRest, ClassifyMcpError, UnwrapEnvelope,
                MaybeDocumentError, Steps, Sayings, McpOnly
  <2> QED BY <2>1, <2>2 DEF RepliesAreRead
<1>2. CASE CallUcp \/ NoRoute \/ Send \/ Resend \/ Minute
           \/ TurnAway \/ Perform \/ Refuse \/ FallBack \/ UNCHANGED wireVars
  BY <1>2 DEF CallUcp, NoRoute, Send, Resend, Minute, TurnAway, Perform, Refuse, FallBack,
     wireVars, RepliesAreRead, Steps, Settled
<1> QED BY <1>1, <1>2 DEF WireNext

\* A signature made when its request was sent is refused only for the clocks or its age.
LEMMA TurnedAwayKept ==
  ASSUME WireInv, [WireNext]_wireVars
  PROVE  TurnedAwayForCause'
<1> USE DEF WireInv
<1>1. CASE TurnAway
  <2>1. /\ UNCHANGED <<skew, clock, request>> /\ ~Heard
        /\ request.signature = Sign(request.wire, request.sent)
        /\ request.sent \in Nat /\ request.sent <= clock /\ clock \in Nat
    BY <1>1 DEF TurnAway, SentAsAsked, UnderWay, WireTypeOK
  <2>8. skew \in Int
    <3>1. skew \in Skews \cup {0}
      BY DEF WireTypeOK
    <3>2. Skews \subseteq Int
      BY WireAssumption
    <3> QED BY <3>1, <3>2
  <2>2. /\ request.signature.over = request.wire /\ request.signature.created = request.sent
        /\ request.signature.expires = request.sent + Lifetime
    BY <2>1 DEF Sign
  <2>3. /\ Lifetime \in Nat /\ Lifetime <= MaxLifetime /\ Tolerance \in Nat
        /\ MaxLifetime \in Nat
    BY WireAssumption
  <2>4. ~(/\ request.sent <= (clock + skew) + Tolerance
          /\ request.sent + Lifetime >= (clock + skew) - Tolerance
          /\ (request.sent + Lifetime) - request.sent <= MaxLifetime)
    BY <2>1, <2>2 DEF Heard, Verify
  <2> DEFINE sent == request.sent
  <2>5. sent \in Nat /\ sent <= clock /\ clock \in Nat /\ skew \in Int
    BY <2>1, <2>8
  <2>6. ~(/\ sent <= (clock + skew) + Tolerance
          /\ sent + Lifetime >= (clock + skew) - Tolerance
          /\ (sent + Lifetime) - sent <= MaxLifetime)
    BY <2>4
  <2> HIDE DEF sent
  <2>7. skew \notin -Tolerance .. Tolerance \/ clock - sent > Lifetime
    BY ONLY <2>3, <2>5, <2>6
  <2> QED BY <2>1, <2>7 DEF TurnedAwayForCause, sent
<1>2. CASE CallUcp \/ NoRoute \/ Send \/ Resend \/ Minute
           \/ Perform \/ Refuse \/ FallBack \/ Return \/ UNCHANGED wireVars
  BY <1>2 DEF CallUcp, NoRoute, Send, Resend, Minute, Perform, Refuse, FallBack, Return, wireVars,
     TurnedAwayForCause, Steps, Silence, Sayings, McpOnly
<1> QED BY <1>1, <1>2 DEF WireNext

\* The invariant holds in every state.
LEMMA WireInvHolds == WireSpec => []WireInv
<1>1. WireInv /\ [WireNext]_wireVars => WireInv'
  <2> SUFFICES ASSUME WireInv, [WireNext]_wireVars PROVE WireInv'
    OBVIOUS
  <2> QED BY HistoryKept, WireTypesKept, SentAsAskedKept, StepsKept, PerformedKept, KeysStayApart,
             DocumentsKept, RepliesKept, TurnedAwayKept DEF WireInv
<1> QED BY WireBegins, <1>1, PTL DEF WireSpec

\* AskedIsDone: whatever the shop performs for a call is the operation asked for, on the
\* document and with the fields asked for, for every list of operations that is well formed,
\* and no failed tool call is taken for done (call_ucp, rest_request, mcp_arguments,
\* _document_from_tool).
THEOREM ShopDoesTheAsked == WireSpec => []AskedIsDone
<1>1. WireInv => AskedIsDone
  <2> SUFFICES ASSUME WireInv PROVE AskedIsDone
    OBVIOUS
  <2>1. \A i \in DOMAIN performed : IsAsked(performed[i].effect, ask)
    BY DEF WireInv, PerformedAsAsked
  <2>2. reply = "document" => \/ answer = "error document" /\ ask.lenient
                             \/ \E i \in DOMAIN performed : performed[i].key = request.key
    BY DEF WireInv, RepliesAreRead, DocumentsAreOfWork
  <2> QED BY <2>1, <2>2 DEF AskedIsDone, IsAsked
<1> QED BY <1>1, WireInvHolds, PTL

\* ResendingIsSafe: an operation counts at most once on each transport however often it is
\* sent, and a request in time is heard by any shop whose clock is within the tolerance, for
\* every lifetime, tolerance and flight time (_rest_send, RequestSigner.sign, verify).
THEOREM ResendsAreSafe == WireSpec => []ResendingIsSafe
<1>1. WireInv => ResendingIsSafe
  <2> SUFFICES ASSUME WireInv PROVE ResendingIsSafe
    OBVIOUS
  <2>1. ASSUME step # "idle", ask.op \in Mutating, NEW i \in DOMAIN performed,
               NEW j \in DOMAIN performed, performed[i].over = performed[j].over
        PROVE  i = j
    <3>1. performed[i].key = performed[j].key
      BY <2>1 DEF WireInv, PerformedAsAsked
    <3> QED BY <2>1, <3>1 DEF WireInv, KeysCountOnce
  <2> QED BY <2>1 DEF WireInv, TurnedAwayForCause, ResendingIsSafe
<1> QED BY <1>1, WireInvHolds, PTL

-----------------------------------------------------------------------------
(* StorefrontCatalog. *)

\* The ids there are in the catalog.
Known == Products \cup Sizes

\* Sizes of x, each with whether it can be bought.
IsRows(r, x) == r = [c \in DOMAIN r |-> r[c]] /\ DOMAIN r \subseteq Kids(x)

\* What the cache says of sizes is true, and a product recorded with sizes stands for one of them.
WellKept(k) ==
  /\ DOMAIN k = {"products", "variantOf", "defaults", "chosen"}
  /\ DOMAIN k.chosen = Range(SessionOf)
  /\ \A x \in DOMAIN k.products : /\ IsRows(k.products[x].rows, x)
                                  /\ k.products[x].rows # NoRows => x \in DOMAIN k.defaults
  /\ \A c \in DOMAIN k.variantOf : c \in Kids(k.variantOf[c])
  /\ \A x \in DOMAIN k.defaults : k.defaults[x] \in Kids(x)
  /\ \A s \in Range(SessionOf) : \A x \in DOMAIN k.chosen[s] : k.chosen[s][x] \in Kids(x)

\* The fields of a call.
CallFields == {"op", "session", "arg", "id", "of", "byTitle", "store", "record", "at", "reply"}

\* A call of t's session.
IsCall(t, c) == DOMAIN c = CallFields /\ c.session = SessionOf[t]

\* The Store API's answer about x.
IsStoreDoc(doc, x) ==
  /\ IsRows(doc.kids, x)
  /\ doc.parent \notin {Missing, x} => x \in Kids(doc.parent)
  /\ doc.parent \in {Missing, x} => x \in Products

\* A call's answer, if it has one that is not a failure.
Replied(c) == c.reply \notin {Unanswered, Missing}

\* What a call that waits for the shop carries with it, by the request it waits for.
Stands(c) ==
  /\ c.at = "store" => c.id \in Known /\ (Replied(c) => IsStoreDoc(c.reply, c.id))
  /\ c.at \in {"get_product", "lookup"} =>
       /\ c.id \in Known
       /\ c.store # Missing => /\ IsStoreDoc(c.store, c.id) /\ c.store.parent \in {Missing, c.id}
       /\ Replied(c) /\ c.reply.id = c.id => IsRows(c.reply.kids, c.id)
  /\ c.at = "again" => ~ Replied(c)
  /\ c.at = "children" => /\ c.of = c.id /\ c.id \in Products /\ IsRows(c.record.rows, c.id)
                          /\ Replied(c) => IsRows(c.reply.kids, c.id)
  /\ c.at \in {"search", "listing"} =>
       /\ c.byTitle => c.arg \in Known
       /\ Replied(c) => IsRows(c.reply.kids, c.reply.id)

\* What an add sends is what it was asked for, as far as the cache k knows.
SendsAsked(k, c) ==
  c.at = "cart" =>
    \/ c.sent = c.arg /\ (Knows(k.products, c.arg) => k.products[c.arg].rows = NoRows)
    \/ c.sent \in Kids(c.arg)

\* Where a call may go on, with the cache k.
Onward(t, k, c) == (c.at \in Asking => IsCall(t, c) /\ Stands(c)) /\ SendsAsked(k, c)

\* The invariant: the cache is true, carts hold what one can buy, and each call that waits carries
\* what belongs to its request.
CatalogInv ==
  /\ DOMAIN stock = Skus
  /\ WellKept(cache)
  /\ lines = [s \in Range(SessionOf) |-> lines[s]]
  /\ \A s \in Range(SessionOf) : lines[s] \subseteq Skus
  /\ DOMAIN task = Tasks
  /\ \A t \in Tasks : task[t].at \in Asking => IsCall(t, task[t]) /\ Stands(task[t])

-----------------------------------------------------------------------------
\* A size is of one product and has no sizes itself; nothing that is no product has any.
LEMMA SizesAreKids == /\ \A x : Kids(x) \subseteq Sizes
                      /\ \A x : Kids(x) # {} => x \in Families
                      /\ \A x \in Sizes : Kids(x) = {} /\ FamilyOf(x) \in Families /\ x \in Kids(FamilyOf(x))
                      /\ \A x \in Skus : Kids(x) = {}
                      /\ Families \subseteq Known /\ Products \subseteq Known /\ Skus \subseteq Known
BY CatalogAssumption DEF Kids, Sizes, Families, FamilyOf, Known, Skus, Products

\* Without sizes there are no rows.
LEMMA NoKidsNoRows == ASSUME NEW r, NEW x, IsRows(r, x), Kids(x) = {} PROVE r = NoRows
BY DEF IsRows, NoRows

\* Rows that are not none are of some size.
LEMMA RowsAreSome == ASSUME NEW r, NEW x, IsRows(r, x), r # NoRows PROVE DOMAIN r # {}
BY DEF IsRows, NoRows

\* None are rows of any product.
LEMMA NoRowsAreRows == ASSUME NEW x PROVE IsRows(NoRows, x) /\ DOMAIN NoRows = {}
BY DEF IsRows, NoRows

\* What an entry says after others were laid over it.
LEMMA OverKeeps ==
  ASSUME NEW f, NEW g
  PROVE  /\ DOMAIN Over(f, g) = DOMAIN f \cup DOMAIN g
         /\ \A x \in DOMAIN Over(f, g) : Over(f, g)[x] = IF x \in DOMAIN g THEN g[x] ELSE f[x]
         /\ Over(f, g) = [x \in DOMAIN Over(f, g) |-> Over(f, g)[x]]
BY DEF Over, Knows

\* Rows laid over rows of the same product.
LEMMA RowsOver ==
  ASSUME NEW x, NEW f, NEW g, IsRows(f, x), IsRows(g, x)
  PROVE  IsRows(Over(f, g), x)
<1> DEFINE h == Over(f, g)
<1>1. DOMAIN h = DOMAIN f \cup DOMAIN g /\ h = [c \in DOMAIN h |-> h[c]]
  BY OverKeeps
<1> HIDE DEF h
<1> QED BY <1>1 DEF IsRows, h

\* Rows without one of them.
LEMMA RowsDropped ==
  ASSUME NEW x, NEW f, NEW y, IsRows(f, x)
  PROVE  IsRows(Drop(f, y), x)
BY DEF IsRows, Drop

\* The size a product stands for is one of its rows.
LEMMA StandsForARow ==
  ASSUME NEW x, NEW r, IsRows(r, x), r # NoRows, NEW lead
  PROVE  StandsFor(r, lead) \in DOMAIN r
<1> DEFINE S == IF Buyable(r) # {} THEN Buyable(r) ELSE DOMAIN r
<1>1. S # {} /\ S \subseteq DOMAIN r
  BY RowsAreSome DEF Buyable
<1>2. FirstOf(S, lead) \in S
  <2> HIDE DEF S
  <2> QED BY <1>1 DEF FirstOf
<1> QED BY <1>1, <1>2 DEF StandsFor

\* _remember_details keeps the cache true.
LEMMA RememberKeeps ==
  ASSUME NEW k, WellKept(k), NEW s \in Range(SessionOf), NEW id, NEW record, IsRows(record.rows, id),
         NEW lead
  PROVE  WellKept(Remember(k, s, id, record, lead))
<1> DEFINE rows == record.rows
           size == StandsFor(rows, lead)
           filed == [k EXCEPT !.products = Filed(@, id, record),
                              !.variantOf = Over(@, [c \in DOMAIN rows |-> id])]
           full == [filed EXCEPT !.defaults = Filed(@, id, size), !.chosen[s] = Filed(@, id, size)]
<1>1. /\ DOMAIN filed = DOMAIN k
      /\ filed.products = Filed(k.products, id, record)
      /\ filed.variantOf = Over(k.variantOf, [c \in DOMAIN rows |-> id])
      /\ filed.defaults = k.defaults /\ filed.chosen = k.chosen
  BY DEF WellKept
<1>2. /\ DOMAIN full = DOMAIN k
      /\ full.products = filed.products /\ full.variantOf = filed.variantOf
      /\ full.defaults = Filed(k.defaults, id, size)
      /\ full.chosen = [k.chosen EXCEPT ![s] = Filed(@, id, size)]
  BY <1>1 DEF WellKept
<1>3. /\ DOMAIN filed.products = DOMAIN k.products \cup {id} /\ filed.products[id] = record
      /\ \A x \in DOMAIN k.products \ {id} : filed.products[x] = k.products[x]
  <2> DEFINE f == k.products  h == filed.products
  <2>1. h = Filed(f, id, record)
    BY <1>1
  <2> HIDE DEF f, h
  <2>2. DOMAIN h = DOMAIN f \cup {id} /\ h[id] = record /\ \A x \in DOMAIN f \ {id} : h[x] = f[x]
    BY <2>1 DEF Filed, Over, Knows
  <2> QED BY <2>2 DEF f, h
<1>4. /\ DOMAIN filed.variantOf = DOMAIN k.variantOf \cup DOMAIN rows
      /\ \A c \in DOMAIN filed.variantOf :
           filed.variantOf[c] = IF c \in DOMAIN rows THEN id ELSE k.variantOf[c]
  <2> DEFINE mine == [c \in DOMAIN rows |-> id]
  <2>1. DOMAIN mine = DOMAIN rows /\ \A c \in DOMAIN rows : mine[c] = id
    OBVIOUS
  <2>2. filed.variantOf = Over(k.variantOf, mine)
    BY <1>1
  <2> HIDE DEF mine, filed
  <2> QED BY <2>1, <2>2 DEF Over, Knows
<1> HIDE DEF filed, full
<1>5. \A x \in DOMAIN filed.products : IsRows(filed.products[x].rows, x)
  BY <1>3 DEF WellKept
<1>6. \A c \in DOMAIN filed.variantOf : c \in Kids(filed.variantOf[c])
  BY <1>4 DEF WellKept, IsRows
<1>7. CASE rows = NoRows
  <2>1. Remember(k, s, id, record, lead) = filed
    BY <1>7 DEF Remember, filed
  <2>2. \A x \in DOMAIN filed.products : filed.products[x].rows # NoRows => x \in DOMAIN filed.defaults
    BY <1>1, <1>3, <1>7 DEF WellKept
  <2> QED BY <2>1, <2>2, <1>1, <1>5, <1>6 DEF WellKept
<1>8. CASE rows # NoRows
  <2>1. Remember(k, s, id, record, lead) = full
    BY <1>8 DEF Remember, full, filed
  <2>2. size \in Kids(id)
    BY <1>8, StandsForARow DEF IsRows
  <2> HIDE DEF size
  <2>3. /\ DOMAIN full.defaults = DOMAIN k.defaults \cup {id} /\ full.defaults[id] = size
        /\ \A x \in DOMAIN k.defaults \ {id} : full.defaults[x] = k.defaults[x]
    BY <1>2 DEF Filed, Over, Knows
  <2>4. \A x \in DOMAIN full.products : full.products[x].rows # NoRows => x \in DOMAIN full.defaults
    BY <1>2, <1>3, <2>3 DEF WellKept
  <2>5. \A x \in DOMAIN full.defaults : full.defaults[x] \in Kids(x)
    BY <2>2, <2>3 DEF WellKept
  <2>6. DOMAIN full.chosen = Range(SessionOf)
    BY <1>2 DEF WellKept
  <2>7. \A z \in Range(SessionOf) : \A x \in DOMAIN full.chosen[z] : full.chosen[z][x] \in Kids(x)
    <3> TAKE z \in Range(SessionOf)
    <3>1. CASE z = s
      <4> DEFINE mine == full.chosen[z]
      <4>1. mine = Filed(k.chosen[s], id, size)
        BY <1>2, <3>1 DEF WellKept
      <4> HIDE DEF mine
      <4>2. /\ DOMAIN mine = DOMAIN k.chosen[s] \cup {id} /\ mine[id] = size
            /\ \A x \in DOMAIN k.chosen[s] \ {id} : mine[x] = k.chosen[s][x]
        BY <4>1 DEF Filed, Over, Knows
      <4>3. \A x \in DOMAIN mine : mine[x] \in Kids(x)
        BY <4>2, <2>2 DEF WellKept
      <4> QED BY <4>3 DEF mine
    <3>2. CASE z # s
      BY <1>2, <3>2 DEF WellKept
    <3> QED BY <3>1, <3>2
  <2> QED BY <2>1, <2>4, <2>5, <2>6, <2>7, <1>1, <1>2, <1>5, <1>6 DEF WellKept
<1> QED BY <1>7, <1>8

\* An id that an add may send.
MaySend(k, c, v) ==
  \/ v = c.arg /\ (Knows(k.products, c.arg) => k.products[c.arg].rows = NoRows)
  \/ v \in Kids(c.arg)

\* A call that asks changes in nothing else.
LEMMA AskKeeps ==
  ASSUME NEW c, DOMAIN c = CallFields, NEW at
  PROVE  LET d == Ask(c, at) IN
         /\ DOMAIN d = CallFields /\ d.at = at /\ d.reply = Unanswered
         /\ d.session = c.session /\ d.arg = c.arg /\ d.id = c.id /\ d.of = c.of /\ d.op = c.op
         /\ d.byTitle = c.byTitle /\ d.store = c.store /\ d.record = c.record
BY DEF Ask, CallFields

\* add_to_cart is refused, or sends an id that may be sent.
LEMMA PutGoesOnward ==
  ASSUME NEW t, NEW k, NEW c, NEW v, MaySend(k, c, v)
  PROVE  Onward(t, k, Put(k, c, v))
<1> DEFINE d == [at |-> "cart", arg |-> c.arg, sent |-> v]
<1>1. Put(k, c, v) \in {Ended, d}
  BY DEF Put
<1>2. d.at = "cart" /\ d.arg = c.arg /\ d.sent = v /\ Ended.at = "done"
  BY DEF Ended
<1> HIDE DEF d
<1>3. Onward(t, k, d)
  BY <1>2 DEF Onward, SendsAsked, MaySend, Asking
<1>4. Onward(t, k, Ended)
  BY <1>2 DEF Onward, SendsAsked, Asking
<1> QED BY <1>1, <1>3, <1>4

\* A call that ends sends nothing.
LEMMA EndedGoesOnward == ASSUME NEW t, NEW k PROVE Onward(t, k, Ended)
BY DEF Onward, SendsAsked, Ended, Asking

\* _resolve_variant comes to an id that may be sent.
LEMMA DefaultMaySend ==
  ASSUME NEW t \in Tasks, NEW k, WellKept(k), NEW c, IsCall(t, c)
  PROVE  MaySend(k, c, Default(k, c))
<1>1. c.session \in Range(SessionOf)
  BY CatalogAssumption DEF IsCall, Range
<1>2. CASE Knows(k.chosen[c.session], c.arg)
  BY <1>1, <1>2 DEF Default, Knows, MaySend, WellKept
<1>3. CASE ~ Knows(k.chosen[c.session], c.arg) /\ Knows(k.defaults, c.arg)
  BY <1>3 DEF Default, Knows, MaySend, WellKept
<1>4. CASE ~ Knows(k.chosen[c.session], c.arg) /\ ~ Knows(k.defaults, c.arg)
  BY <1>4 DEF Default, Knows, MaySend, WellKept
<1> QED BY <1>2, <1>3, <1>4

\* get_product_details returns to a call that ends or adds.
LEMMA FoundGoesOnward ==
  ASSUME NEW t \in Tasks, NEW k, WellKept(k), NEW c, IsCall(t, c)
  PROVE  Onward(t, k, Found(k, c))
BY DefaultMaySend, PutGoesOnward, EndedGoesOnward DEF Found

\* A call that asks for the Store API's document of a product or size.
LEMMA StoreGoesOnward ==
  ASSUME NEW t, NEW k, NEW c, IsCall(t, c), NEW id \in Known
  PROVE  /\ IsCall(t, [c EXCEPT !.id = id])
         /\ Onward(t, k, Ask([c EXCEPT !.id = id], "store"))
<1> DEFINE d == [c EXCEPT !.id = id]
<1>1. DOMAIN d = CallFields /\ d.id = id /\ d.session = c.session
  BY DEF IsCall, CallFields
<1> HIDE DEF d
<1> DEFINE e == Ask(d, "store")
<1>2. DOMAIN e = CallFields /\ e.at = "store" /\ e.reply = Unanswered /\ e.session = c.session /\ e.id = id
  BY <1>1, AskKeeps
<1> HIDE DEF e
<1>3. IsCall(t, d) /\ IsCall(t, e)
  BY <1>1, <1>2 DEF IsCall
<1>4. Stands(e)
  BY <1>2 DEF Stands, Replied
<1>5. Onward(t, k, e)
  BY <1>2, <1>3, <1>4 DEF Onward, SendsAsked
<1> QED BY <1>3, <1>5 DEF d, e

\* _variant_details finds the family's record or asks for it.
LEMMA ReadSizeGoesOnward ==
  ASSUME NEW t \in Tasks, NEW k, WellKept(k), NEW c, IsCall(t, c), NEW family \in Known
  PROVE  Onward(t, k, ReadSize(k, c, family))
<1> DEFINE d == [c EXCEPT !.id = family]
<1>1. IsCall(t, d) /\ Onward(t, k, Ask(d, "store"))
  BY StoreGoesOnward
<1> HIDE DEF d
<1>2. Onward(t, k, Found(k, d))
  BY <1>1, FoundGoesOnward
<1>3. ReadSize(k, c, family) \in {Found(k, d), Ask(d, "store")}
  BY DEF ReadSize, d
<1> QED BY <1>1, <1>2, <1>3

\* get_product_details from an id.
LEMMA LookUpGoesOnward ==
  ASSUME NEW t \in Tasks, NEW k, WellKept(k), NEW c, IsCall(t, c), NEW id \in Known
  PROVE  Onward(t, k, LookUp(k, c, id))
<1>1. CASE Knows(k.variantOf, id) /\ k.variantOf[id] # id
  <2>1. k.variantOf[id] \in Known
    BY <1>1, SizesAreKids DEF WellKept, Knows
  <2> QED BY <1>1, <2>1, ReadSizeGoesOnward DEF LookUp
<1>2. CASE ~ (Knows(k.variantOf, id) /\ k.variantOf[id] # id)
  BY <1>2, StoreGoesOnward DEF LookUp
<1> QED BY <1>1, <1>2

\* What a step of t may send.
SendsOf(t) ==
  (task'[t].at = "cart" /\ task[t].at # "cart") =>
    LET x == task'[t].arg sent == task'[t].sent IN
    \/ sent = x /\ (Knows(cache'.products, x) => cache'.products[x].rows = NoRows)
    \/ sent \in Kids(x)

\* A call that goes on as it may, with a cache that stays true.
LEMMA CallGoesOn ==
  ASSUME CatalogInv, NEW t \in Tasks, NEW c, task' = [task EXCEPT ![t] = c],
         WellKept(cache'), Onward(t, cache', c), UNCHANGED <<stock, lines>>
  PROVE  CatalogInv' /\ \A u \in Tasks : SendsOf(u)
<1>1. DOMAIN task' = Tasks /\ task'[t] = c /\ \A u \in Tasks \ {t} : task'[u] = task[u]
  BY DEF CatalogInv
<1>2. ASSUME NEW u \in Tasks PROVE SendsOf(u)
  BY <1>1 DEF SendsOf, Onward, SendsAsked
<1>3. ASSUME NEW u \in Tasks, task'[u].at \in Asking PROVE IsCall(u, task'[u]) /\ Stands(task'[u])
  BY <1>1, <1>3 DEF CatalogInv, Onward
<1>4. CatalogInv'
  BY <1>1, <1>3 DEF CatalogInv
<1> QED BY <1>2, <1>4

-----------------------------------------------------------------------------
\* A call that begins.
LEMMA BeginKeeps ==
  ASSUME CatalogInv, NEW t \in Tasks, NEW c, Begin(t, c), Onward(t, cache, c)
  PROVE  CatalogInv' /\ \A u \in Tasks : SendsOf(u)
<1>1. task' = [task EXCEPT ![t] = c] /\ cache' = cache /\ UNCHANGED <<stock, lines>>
  BY DEF Begin
<1>2. WellKept(cache') /\ Onward(t, cache', c)
  BY <1>1 DEF CatalogInv
<1> QED BY <1>1, <1>2, CallGoesOn

\* A session's focus.
LEMMA DetailsKeeps ==
  ASSUME CatalogInv, NEW t \in Tasks, NEW x \in Asked, GetProductDetails(t, x)
  PROVE  CatalogInv' /\ \A u \in Tasks : SendsOf(u)
<1> DEFINE c == New(t, "details", x)
<1>1. IsCall(t, c)
  BY DEF New, IsCall, CallFields
<1> HIDE DEF c
<1>2. Onward(t, cache, LookUp(cache, c, x))
  BY <1>1, LookUpGoesOnward, CatalogAssumption DEF CatalogInv, Known
<1>3. Begin(t, LookUp(cache, c, x))
  BY DEF GetProductDetails, c
<1> QED BY <1>2, <1>3, BeginKeeps

\* A question for rows, of a call that asks by a name of the catalog or for a list.
LEMMA RowsGoOnward ==
  ASSUME NEW t, NEW k, NEW c, IsCall(t, c), c.byTitle => c.arg \in Known, NEW at \in {"search", "listing"}
  PROVE  Onward(t, k, Ask(c, at))
<1> DEFINE e == Ask(c, at)
<1>1. /\ DOMAIN e = CallFields /\ e.at = at /\ e.reply = Unanswered /\ e.session = c.session
      /\ e.byTitle = c.byTitle /\ e.arg = c.arg
  BY AskKeeps DEF IsCall
<1> HIDE DEF e
<1>2. IsCall(t, e) /\ Stands(e)
  BY <1>1 DEF IsCall, Stands, Replied
<1>3. Onward(t, k, e)
  BY <1>1, <1>2 DEF Onward, SendsAsked
<1> QED BY <1>3 DEF e

\* A lookup by title.
LEMMA ByTitleKeeps ==
  ASSUME CatalogInv, NEW t \in Tasks, NEW x \in Titled, GetByTitle(t, x)
  PROVE  CatalogInv' /\ \A u \in Tasks : SendsOf(u)
<1> DEFINE n == New(t, "details", x)  c == [n EXCEPT !.byTitle = TRUE]
           d == IF TitleKnown(cache, x) THEN LookUp(cache, c, x) ELSE Ask(c, "search")
<1>1. IsCall(t, n) /\ n.arg = x
  BY DEF New, IsCall, CallFields
<1>2. Begin(t, d)
  BY DEF GetByTitle
<1> HIDE DEF n
<1>3. IsCall(t, c) /\ c.arg = x
  BY <1>1 DEF IsCall, CallFields
<1> HIDE DEF c
<1>4. x \in Known
  BY CatalogAssumption DEF Known
<1>5. Onward(t, cache, LookUp(cache, c, x))
  BY <1>3, <1>4, LookUpGoesOnward DEF CatalogInv
<1>6. Onward(t, cache, Ask(c, "search"))
  BY <1>3, <1>4, RowsGoOnward
<1>7. Onward(t, cache, d)
  BY <1>5, <1>6
<1> HIDE DEF d
<1> QED BY <1>2, <1>7, BeginKeeps

\* A search.
LEMMA SearchKeeps ==
  ASSUME CatalogInv, NEW t \in Tasks, SearchProducts(t)
  PROVE  CatalogInv' /\ \A u \in Tasks : SendsOf(u)
<1> DEFINE c == New(t, "search", "term")
<1>1. IsCall(t, c) /\ c.byTitle = FALSE
  BY DEF New, IsCall, CallFields
<1>2. PICK at \in {"search", "listing"} : Begin(t, Ask(c, at))
  BY DEF SearchProducts
<1> HIDE DEF c
<1>3. Onward(t, cache, Ask(c, at))
  BY <1>1, RowsGoOnward
<1> QED BY <1>2, <1>3, BeginKeeps

\* An id that is a line of the cart or a size that the cache knows is sent as it is.
LEMMA LinesMayBeSent ==
  ASSUME CatalogInv, NEW t \in Tasks, NEW c, c.arg \in Skus \/ Knows(cache.variantOf, c.arg)
  PROVE  MaySend(cache, c, c.arg)
<1>1. Kids(c.arg) = {}
  BY SizesAreKids DEF CatalogInv, WellKept, Knows
<1> QED BY <1>1, NoKidsNoRows DEF MaySend, CatalogInv, WellKept, Knows

\* An add begins: it sends what it was given, looks it up, or sends what it stands for.
LEMMA AddKeeps ==
  ASSUME CatalogInv, NEW t \in Tasks, NEW x \in Asked, AddToCart(t, x)
  PROVE  CatalogInv' /\ \A u \in Tasks : SendsOf(u)
<1> DEFINE c == New(t, "add", x)
           unread == \/ ~ Knows(cache.products, x)
                     \/ cache.products[x].rows # NoRows /\ ~ Knows(cache.defaults, x)
           next == IF x \in lines[SessionOf[t]] \/ Knows(cache.variantOf, x) THEN Put(cache, c, x)
                   ELSE IF unread THEN LookUp(cache, c, x) ELSE Put(cache, c, Default(cache, c))
<1>1. IsCall(t, c) /\ c.arg = x
  BY DEF New, IsCall, CallFields
<1>2. Begin(t, next)
  BY DEF AddToCart
<1> HIDE DEF c
<1>3. x \in Known /\ WellKept(cache)
  BY CatalogAssumption DEF CatalogInv, Known
<1>4. CASE x \in lines[SessionOf[t]] \/ Knows(cache.variantOf, x)
  <2>1. x \in Skus \/ Knows(cache.variantOf, x)
    BY <1>4, CatalogAssumption DEF CatalogInv, Range
  <2>2. MaySend(cache, c, x)
    BY <1>1, <2>1, LinesMayBeSent
  <2>3. next = Put(cache, c, x)
    BY <1>4
  <2> QED BY <1>2, <2>2, <2>3, PutGoesOnward, BeginKeeps
<1>5. CASE ~ (x \in lines[SessionOf[t]] \/ Knows(cache.variantOf, x)) /\ unread
  <2>1. next = LookUp(cache, c, x)
    BY <1>5
  <2> QED BY <1>1, <1>2, <1>3, <2>1, LookUpGoesOnward, BeginKeeps
<1>6. CASE ~ (x \in lines[SessionOf[t]] \/ Knows(cache.variantOf, x)) /\ ~ unread
  <2>1. next = Put(cache, c, Default(cache, c))
    BY <1>6
  <2>2. MaySend(cache, c, Default(cache, c))
    BY <1>1, <1>3, DefaultMaySend
  <2> QED BY <1>2, <2>1, <2>2, PutGoesOnward, BeginKeeps
<1> QED BY <1>4, <1>5, <1>6

\* Facts come from the plugin or the host, and end there.
LEMMA FactsGoOnward ==
  ASSUME NEW t, NEW k, NEW c, IsCall(t, c), NEW at \in {"plugin", "host"}
  PROVE  Onward(t, k, Ask(c, at))
<1> DEFINE e == Ask(c, at)
<1>1. DOMAIN e = CallFields /\ e.at = at /\ e.session = c.session
  BY AskKeeps DEF IsCall
<1> HIDE DEF e
<1>2. IsCall(t, e) /\ Stands(e)
  BY <1>1 DEF IsCall, Stands
<1>3. Onward(t, k, e)
  BY <1>1, <1>2 DEF Onward, SendsAsked
<1> QED BY <1>3 DEF e

\* A question about policies, disclosures or delivery.
LEMMA AskFactsKeeps ==
  ASSUME CatalogInv, NEW t \in Tasks, AskFacts(t)
  PROVE  CatalogInv' /\ \A u \in Tasks : SendsOf(u)
<1> DEFINE c == New(t, "facts", "any")
<1>1. IsCall(t, c)
  BY DEF New, IsCall, CallFields
<1>2. Begin(t, Ask(c, Mode))
  BY DEF AskFacts
<1>3. Mode \in {"plugin", "host"}
  BY DEF Mode, ResolveMode
<1> HIDE DEF c
<1>4. Onward(t, cache, Ask(c, Mode))
  BY <1>1, <1>3, FactsGoOnward
<1> QED BY <1>2, <1>4, BeginKeeps

-----------------------------------------------------------------------------
\* The host goes on with a call, as it may, and the cache stays true.
LEMMA GoesOnWell ==
  ASSUME CatalogInv, NEW t \in Tasks, NEW k, NEW c, GoOn(t, k, c), WellKept(k), Onward(t, k, c)
  PROVE  CatalogInv' /\ \A u \in Tasks : SendsOf(u)
<1>1. cache' = k /\ task' = [task EXCEPT ![t] = c] /\ UNCHANGED <<stock, lines>>
  BY DEF GoOn, GoesOn
<1>2. WellKept(cache') /\ Onward(t, cache', c)
  BY <1>1
<1> QED BY <1>1, <1>2, CallGoesOn

\* The plugin's or the host's facts arrive.
LEMMA FactsAnsweredKeeps ==
  ASSUME CatalogInv, NEW t \in Tasks, FactsAnswered(t)
  PROVE  CatalogInv' /\ \A u \in Tasks : SendsOf(u)
<1> DEFINE c == task[t]
           d == IF c.at = "plugin" /\ c.reply = Missing THEN Ask(c, "host") ELSE Ended
<1>1. GoOn(t, cache, d) /\ IsCall(t, c)
  BY DEF FactsAnswered, CatalogInv, Asking
<1> HIDE DEF c
<1>2. Onward(t, cache, d)
  BY <1>1, FactsGoOnward, EndedGoesOnward
<1> HIDE DEF d
<1> QED BY <1>1, <1>2, GoesOnWell DEF CatalogInv

-----------------------------------------------------------------------------
\* Some sizes of a product, as the shop lists them.
LEMMA ListedAreRows ==
  ASSUME NEW x, NEW S, S \subseteq Kids(x)
  PROVE  IsRows(Listed(S), x)
BY DEF IsRows, Listed

\* The Store API's document tells whether it is of a size.
LEMMA StoreDocsAreTrue ==
  ASSUME NEW x \in Known, NEW doc \in StoreDocs(x)
  PROVE  IsStoreDoc(doc, x)
<1>1. CASE x \in Families
  <2>1. PICK kids \in {NoRows, Listed(Children[x])} : doc = [parent |-> x, kids |-> kids, inStock |-> InStock(x)]
    BY <1>1 DEF StoreDocs
  <2>2. IsRows(kids, x)
    BY <1>1, NoRowsAreRows, ListedAreRows DEF Kids, Families
  <2> QED BY <1>1, <2>1, <2>2 DEF IsStoreDoc, Families
<1>2. CASE x \notin Families
  <2>1. /\ doc.kids = NoRows
        /\ doc.parent = IF x \in Sizes THEN FamilyOf(x) ELSE Missing
    BY <1>2 DEF StoreDocs
  <2>2. x \in Sizes => FamilyOf(x) \notin {Missing, x} /\ x \in Kids(FamilyOf(x))
    BY SizesAreKids, CatalogAssumption DEF Families
  <2>3. x \notin Sizes => x \in Products
    BY DEF Known
  <2> QED BY <2>1, <2>2, <2>3, NoRowsAreRows DEF IsStoreDoc
<1> QED BY <1>1, <1>2

\* UCP's document lists sizes of what it is about.
LEMMA UcpDocsAreTrue ==
  ASSUME NEW x
  PROVE  UcpDoc(x).id = x /\ IsRows(UcpDoc(x).kids, x)
<1>1. IsRows(IF x \in Families THEN Listed({c \in Children[x] : stock[c]}) ELSE NoRows, x)
  BY NoRowsAreRows, ListedAreRows DEF Kids, Families
<1> QED BY <1>1 DEF UcpDoc

\* So does a row of the Store API's list.
LEMMA StoreRowsAreTrue ==
  ASSUME NEW p
  PROVE  /\ StoreToUcp(p, StoreRow(p)).id = p
         /\ IsRows(StoreToUcp(p, StoreRow(p)).kids, p)
<1>1. IsRows(IF p \in Families THEN Listed(Children[p]) ELSE NoRows, p)
  BY NoRowsAreRows, ListedAreRows DEF Kids, Families
<1> QED BY <1>1 DEF StoreToUcp, StoreRow

\* What the shop may answer is true.
LEMMA AnswersStand ==
  ASSUME CatalogInv, NEW c, Stands(c), DOMAIN c = CallFields, c.reply = Unanswered, c.at \in Asking,
         NEW said \in {Missing} \cup Answers(c), c.at = "again" => said = Missing
  PROVE  Stands([c EXCEPT !.reply = said])
<1> DEFINE d == [c EXCEPT !.reply = said]
<1>1. /\ d.reply = said /\ d.at = c.at /\ d.id = c.id /\ d.of = c.of /\ d.store = c.store
      /\ d.record = c.record /\ d.byTitle = c.byTitle /\ d.arg = c.arg
  BY DEF CallFields
<1> HIDE DEF d
<1> SUFFICES Stands(d)
  BY DEF d
<1>2. said # Missing => said \in Answers(c)
  OBVIOUS
<1>3. CASE c.at = "store"
  <2>1. Answers(c) = StoreDocs(c.id)
    BY <1>3 DEF Answers
  <2>2. c.id \in Known
    BY <1>3 DEF Stands
  <2>3. said # Missing => IsStoreDoc(said, c.id)
    BY <1>2, <2>1, <2>2, StoreDocsAreTrue
  <2> QED BY <1>1, <1>3, <2>2, <2>3 DEF Stands, Replied
<1>4. CASE c.at \in {"get_product", "lookup"}
  <2>1. Answers(c) = UcpDocs(c.id)
    BY <1>4 DEF Answers
  <2>2. c.id \in Known
    BY <1>4 DEF Stands
  <2>3. ASSUME said # Missing, said.id = c.id PROVE IsRows(said.kids, c.id)
    <3>1. said \in {UcpDoc(c.id), Relative}
      BY <1>2, <2>1, <2>3 DEF UcpDocs
    <3>2. said # Relative
      BY <2>2, <2>3, CatalogAssumption DEF Relative, Known
    <3> QED BY <3>1, <3>2, UcpDocsAreTrue
  <2> QED BY <1>1, <1>4, <2>2, <2>3 DEF Stands, Replied
<1>5. CASE c.at = "again"
  BY <1>1, <1>5 DEF Stands, Replied
<1>6. CASE c.at = "children"
  <2>1. Answers(c) = {[kids |-> Listed(Children[c.of])]}
    BY <1>6 DEF Answers
  <2>2. c.of = c.id /\ c.id \in Products /\ IsRows(c.record.rows, c.id)
    BY <1>6 DEF Stands
  <2>3. IsRows(Listed(Children[c.of]), c.id)
    BY <2>2, ListedAreRows DEF Kids
  <2>4. said # Missing => IsRows(said.kids, c.id)
    BY <1>2, <2>1, <2>3
  <2> QED BY <1>1, <1>6, <2>2, <2>4 DEF Stands, Replied
<1>7. CASE c.at \in {"search", "listing"}
  <2>1. said # Missing => IsRows(said.kids, said.id)
    <3>1. CASE c.at = "search"
      BY <1>2, <3>1, UcpDocsAreTrue DEF Answers
    <3>2. CASE c.at = "listing"
      BY <1>2, <3>2, StoreRowsAreTrue DEF Answers
    <3> QED BY <1>7, <3>1, <3>2
  <2> QED BY <1>1, <1>7, <2>1 DEF Stands, Replied
<1>8. CASE c.at \in {"plugin", "host"}
  BY <1>1, <1>8 DEF Stands
<1> QED BY <1>3, <1>4, <1>5, <1>6, <1>7, <1>8 DEF Asking

\* The shop answers, or the request fails.
LEMMA AnswerKeeps ==
  ASSUME CatalogInv, ~ MayFlap, NEW t \in Tasks, Answer(t)
  PROVE  CatalogInv' /\ \A u \in Tasks : SendsOf(u)
<1> DEFINE c == task[t]
<1>1. PICK said \in {Missing} \cup Answers(c) :
        /\ c.at = "again" => said = Missing
        /\ task' = [task EXCEPT ![t].reply = said]
  BY DEF Answer
<1> DEFINE d == [c EXCEPT !.reply = said]
<1>2. c.at \in Asking /\ c.reply = Unanswered /\ IsCall(t, c) /\ Stands(c)
  BY DEF Answer, CatalogInv
<1>3. task' = [task EXCEPT ![t] = d] /\ UNCHANGED <<stock, lines, cache>>
  BY <1>1 DEF Answer
<1> HIDE DEF c
<1>4. Stands(d)
  BY <1>1, <1>2, AnswersStand DEF IsCall
<1>5. IsCall(t, d) /\ d.at = c.at
  BY <1>2 DEF IsCall, CallFields
<1> HIDE DEF d
<1>6. Onward(t, cache', d)
  BY <1>2, <1>4, <1>5 DEF Onward, SendsAsked, Asking
<1>7. WellKept(cache')
  BY <1>3 DEF CatalogInv
<1> QED BY <1>3, <1>6, <1>7, CallGoesOn

\* The cart takes what one can buy.
LEMMA CartKeeps ==
  ASSUME CatalogInv, NEW t \in Tasks, CartTakes(t)
  PROVE  CatalogInv' /\ \A u \in Tasks : SendsOf(u)
<1>1. /\ lines' = [lines EXCEPT ![SessionOf[t]] = @ \cup ({task[t].sent} \cap Skus)]
      /\ task' = [task EXCEPT ![t] = Ended] /\ UNCHANGED <<stock, cache>>
  BY DEF CartTakes, GoesOn
<1>2. DOMAIN task' = Tasks /\ task'[t] = Ended /\ \A u \in Tasks \ {t} : task'[u] = task[u]
  BY <1>1 DEF CatalogInv
<1>3. Ended.at = "done"
  BY DEF Ended
<1>4. \A u \in Tasks : SendsOf(u)
  BY <1>2, <1>3 DEF SendsOf
<1>5. \A u \in Tasks : task'[u].at \in Asking => IsCall(u, task'[u]) /\ Stands(task'[u])
  BY <1>2, <1>3 DEF CatalogInv, Asking
<1>6. /\ lines' = [s \in Range(SessionOf) |-> lines'[s]]
      /\ \A s \in Range(SessionOf) : lines'[s] \subseteq Skus
  BY <1>1 DEF CatalogInv
<1> QED BY <1>1, <1>2, <1>4, <1>5, <1>6 DEF CatalogInv

\* Something sells out or is restocked.
LEMMA StockKeeps ==
  ASSUME CatalogInv, NEW c, StockChanges(c)
  PROVE  CatalogInv' /\ \A u \in Tasks : SendsOf(u)
<1>1. DOMAIN stock' = Skus /\ UNCHANGED <<cache, lines, task>>
  BY DEF StockChanges, CatalogInv
<1> QED BY <1>1 DEF CatalogInv, SendsOf

-----------------------------------------------------------------------------
\* The Store API's document arrives: a size is filed under its family.
LEMMA StoreAnsweredKeeps ==
  ASSUME CatalogInv, NEW t \in Tasks, StoreAnswered(t)
  PROVE  CatalogInv' /\ \A u \in Tasks : SendsOf(u)
<1> DEFINE c == task[t]
           doc == c.reply
           size == doc # Missing /\ doc.parent \notin {Missing, c.id}
           k == [cache EXCEPT !.variantOf = Filed(@, c.id, doc.parent)]
           held == [c EXCEPT !.store = doc]
<1>1. c.at = "store" /\ c.reply # Unanswered /\ IsCall(t, c) /\ Stands(c)
  BY DEF StoreAnswered, Has, CatalogInv, Asking
<1>2. IF size THEN GoOn(t, k, ReadSize(k, c, doc.parent)) ELSE GoOn(t, cache, Ask(held, "get_product"))
  BY DEF StoreAnswered
<1>3. WellKept(cache)
  BY DEF CatalogInv
<1> HIDE DEF c
<1>4. c.id \in Known /\ (doc # Missing => IsStoreDoc(doc, c.id))
  BY <1>1 DEF Stands, Replied
<1>5. CASE size
  <2>1. c.id \in Kids(doc.parent) /\ doc.parent \in Known
    BY <1>4, <1>5, SizesAreKids DEF IsStoreDoc
  <2>2. /\ DOMAIN k = DOMAIN cache
        /\ k.products = cache.products /\ k.defaults = cache.defaults /\ k.chosen = cache.chosen
        /\ k.variantOf = Filed(cache.variantOf, c.id, doc.parent)
    BY <1>3 DEF WellKept
  <2> HIDE DEF k
  <2>3. \A x \in DOMAIN k.variantOf : x \in Kids(k.variantOf[x])
    BY <2>1, <2>2, <1>3 DEF WellKept, Filed, Over, Knows
  <2>4. WellKept(k)
    BY <2>2, <2>3, <1>3 DEF WellKept
  <2>5. Onward(t, k, ReadSize(k, c, doc.parent))
    BY <1>1, <2>1, <2>4, ReadSizeGoesOnward
  <2> QED BY <1>2, <1>5, <2>4, <2>5, GoesOnWell
<1>6. CASE ~ size
  <2> DEFINE e == Ask(held, "get_product")
  <2>1. /\ DOMAIN held = CallFields /\ held.store = doc /\ held.id = c.id /\ held.session = c.session
    BY <1>1 DEF IsCall, CallFields
  <2>2. GoOn(t, cache, e)
    BY <1>2, <1>6
  <2> HIDE DEF held
  <2>3. /\ DOMAIN e = CallFields /\ e.store = doc /\ e.id = c.id /\ e.session = c.session
        /\ e.at = "get_product" /\ e.reply = Unanswered
    BY <2>1, AskKeeps
  <2> HIDE DEF e
  <2>4. IsCall(t, e)
    BY <1>1, <2>3 DEF IsCall
  <2>5. Stands(e)
    BY <1>4, <1>6, <2>3 DEF Stands, Replied
  <2>6. Onward(t, cache, e)
    BY <2>3, <2>4, <2>5 DEF Onward, SendsAsked
  <2> QED BY <1>3, <2>2, <2>6, GoesOnWell
<1> QED BY <1>5, <1>6

\* _remember_product: the record of a document about x has sizes of x.
LEMMA RecordIsTrue ==
  ASSUME WellKept(cache), NEW doc, IsRows(doc.kids, doc.id)
  PROVE  IsRows(RecordOf(cache, doc).rows, doc.id)
<1> DEFINE old == IF Knows(cache.products, doc.id) THEN cache.products[doc.id].rows ELSE NoRows
           shown == Drop(doc.kids, doc.id)
<1>1. IsRows(old, doc.id)
  BY NoRowsAreRows DEF WellKept, Knows
<1>2. IsRows(shown, doc.id)
  BY RowsDropped
<1>3. RecordOf(cache, doc).rows = Over(old, shown)
  BY DEF RecordOf
<1> HIDE DEF old, shown
<1> QED BY <1>1, <1>2, <1>3, RowsOver

\* _enrich_variants adds sizes of the same product.
LEMMA EnrichedIsTrue ==
  ASSUME NEW id, NEW record, IsRows(record.rows, id), NEW kids, IsRows(kids, id)
  PROVE  IsRows(Enriched(id, record, kids).rows, id)
<1>1. IsRows(Over(record.rows, kids), id)
  BY RowsOver
<1>2. Enriched(id, record, kids).rows = Drop(Over(record.rows, kids), id)
  BY DEF Enriched
<1> QED BY <1>1, <1>2, RowsDropped

\* The call's session is one of the host's.
LEMMA SessionsAreKnown == ASSUME NEW t \in Tasks, NEW c, IsCall(t, c) PROVE c.session \in Range(SessionOf)
BY CatalogAssumption DEF IsCall, Range

\* The Store API's document does not arrive a second time.
LEMMA AgainKeeps ==
  ASSUME CatalogInv, NEW t \in Tasks, StoreAnsweredAgain(t)
  PROVE  CatalogInv' /\ \A u \in Tasks : SendsOf(u)
<1>1. /\ task[t].at = "again" /\ task[t].reply # Unanswered /\ IsCall(t, task[t]) /\ Stands(task[t])
      /\ WellKept(cache)
  BY DEF StoreAnsweredAgain, Has, CatalogInv, Asking
<1>2. task[t].reply = Missing
  BY <1>1 DEF Stands, Replied
<1>3. GoOn(t, cache, Found(cache, task[t]))
  BY <1>2 DEF StoreAnsweredAgain
<1>4. Onward(t, cache, Found(cache, task[t]))
  BY <1>1, FoundGoesOnward
<1> QED BY <1>1, <1>3, <1>4, GoesOnWell

\* The children arrive, which are those of the record's product.
LEMMA ChildrenKeeps ==
  ASSUME CatalogInv, NEW t \in Tasks, ChildrenAnswered(t)
  PROVE  CatalogInv' /\ \A u \in Tasks : SendsOf(u)
<1> DEFINE c == task[t]
           listed == IF c.reply = Missing THEN NoRows ELSE c.reply.kids
           record == IF listed = NoRows THEN c.record ELSE Enriched(c.id, c.record, listed)
           After(lead) == Remember(cache, c.session, c.id, record, lead)
<1>1. /\ c.at = "children" /\ c.reply # Unanswered /\ IsCall(t, c) /\ Stands(c)
      /\ WellKept(cache)
  BY DEF ChildrenAnswered, Has, CatalogInv, Asking
<1>2. PICK lead \in Sizes : GoOn(t, After(lead), Found(After(lead), c))
  BY DEF ChildrenAnswered, Remembering
<1> HIDE DEF c
<1>3. IsRows(c.record.rows, c.id) /\ IsRows(listed, c.id)
  BY <1>1, NoRowsAreRows DEF Stands, Replied
<1> HIDE DEF listed
<1>4. IsRows(record.rows, c.id)
  BY <1>3, EnrichedIsTrue
<1> HIDE DEF record
<1>5. WellKept(After(lead))
  BY <1>1, <1>4, SessionsAreKnown, RememberKeeps
<1> HIDE DEF After
<1>6. Onward(t, After(lead), Found(After(lead), c))
  BY <1>1, <1>5, FoundGoesOnward
<1> QED BY <1>2, <1>5, <1>6, GoesOnWell

\* The rows of a search arrive, or none do and others are asked for.
LEMMA RowsKeep ==
  ASSUME CatalogInv, NEW t \in Tasks, RowsAnswered(t)
  PROVE  CatalogInv' /\ \A u \in Tasks : SendsOf(u)
<1> DEFINE c == task[t]
           Then(k) == IF ~ c.byTitle THEN Ended
                       ELSE IF TitleKnown(k, c.arg) THEN LookUp(k, c, c.arg) ELSE Found(k, c)
           Kept(row, lead) == Remember(cache, c.session, row.id, RecordOf(cache, row), lead)
           Row(row) == \E lead \in Sizes : GoOn(t, Kept(row, lead), Then(Kept(row, lead)))
<1>1. /\ c.at \in {"search", "listing"} /\ c.reply # Unanswered /\ IsCall(t, c) /\ Stands(c)
      /\ WellKept(cache)
  BY DEF RowsAnswered, CatalogInv, Asking
<1>2. \/ c.reply # Missing /\ Row(c.reply)
      \/ GoOn(t, cache, Ask(c, "listing"))
      \/ GoOn(t, cache, Then(cache))
      \/ \E p \in DOMAIN cache.products : Row(DetailsToUcp(cache, p))
  BY DEF RowsAnswered, Remembering
<1> HIDE DEF c
<1>3. c.byTitle => c.arg \in Known
  BY <1>1 DEF Stands
<1>4. ASSUME NEW k, WellKept(k) PROVE Onward(t, k, Then(k))
  BY <1>1, <1>3, <1>4, LookUpGoesOnward, FoundGoesOnward, EndedGoesOnward
<1>5. ASSUME NEW row, IsRows(row.kids, row.id), Row(row)
      PROVE  CatalogInv' /\ \A u \in Tasks : SendsOf(u)
  <2>1. PICK lead \in Sizes : GoOn(t, Kept(row, lead), Then(Kept(row, lead)))
    BY <1>5
  <2>2. WellKept(Kept(row, lead))
    BY <1>1, <1>5, RecordIsTrue, SessionsAreKnown, RememberKeeps
  <2>3. Onward(t, Kept(row, lead), Then(Kept(row, lead)))
    BY <2>2, <1>4
  <2> HIDE DEF Kept, Then
  <2> QED BY <2>1, <2>2, <2>3, GoesOnWell
<1>6. CASE c.reply # Missing /\ Row(c.reply)
  <2>1. IsRows(c.reply.kids, c.reply.id)
    BY <1>1, <1>6 DEF Stands, Replied
  <2> HIDE DEF Row
  <2> QED BY <1>5, <1>6, <2>1
<1>7. CASE GoOn(t, cache, Ask(c, "listing"))
  BY <1>1, <1>3, <1>7, RowsGoOnward, GoesOnWell
<1>8. CASE GoOn(t, cache, Then(cache))
  <2>1. Onward(t, cache, Then(cache))
    BY <1>1, <1>4
  <2> HIDE DEF Then
  <2> QED BY <1>1, <1>8, <2>1, GoesOnWell
<1>9. CASE \E p \in DOMAIN cache.products : Row(DetailsToUcp(cache, p))
  <2> HIDE DEF Row
  <2>1. PICK p \in DOMAIN cache.products : Row(DetailsToUcp(cache, p))
    BY <1>9
  <2>2. IsRows(DetailsToUcp(cache, p).kids, DetailsToUcp(cache, p).id)
    BY <1>1 DEF WellKept, DetailsToUcp
  <2> QED BY <1>5, <2>1, <2>2
<1> HIDE DEF Row, Then
<1> QED BY <1>2, <1>6, <1>7, <1>8, <1>9

\* _fetch_family_record and what follows it up to the next request.
LEMMA RecordKeeps ==
  ASSUME CatalogInv, NEW t \in Tasks, RecordAnswered(t)
  PROVE  CatalogInv' /\ \A u \in Tasks : SendsOf(u)
<1> DEFINE c == task[t]
           own == c.reply # Missing /\ c.reply.id = c.id
           doc == IF own THEN c.reply
                  ELSE IF c.store # Missing THEN StoreToUcp(c.id, c.store) ELSE Missing
           record == RecordOf(cache, doc)
           d == [c EXCEPT !.record = record]
           K(lead) == Remember(cache, c.session, c.id, record, lead)
           full == Enriched(c.id, record, c.store.kids)
           L(lead) == Remember(K(lead), c.session, c.id, full, lead)
           of == [d EXCEPT !.of = IF c.store.parent = Missing THEN c.id ELSE c.store.parent]
<1>1. /\ c.at \in {"get_product", "lookup"} /\ c.reply # Unanswered /\ IsCall(t, c) /\ Stands(c)
      /\ WellKept(cache)
  BY DEF RecordAnswered, CatalogInv, Asking
<1>2. \/ GoOn(t, cache, Ask(c, "lookup"))
      \/ doc = Missing /\ GoOn(t, cache, Found(cache, c))
      \/ /\ doc # Missing
         /\ \E lead \in Sizes :
              \/ c.store = Missing /\ GoOn(t, K(lead), Ask(d, "again"))
              \/ c.store # Missing /\ GoOn(t, L(lead), Found(L(lead), d))
              \/ c.store # Missing /\ GoOn(t, K(lead), Ask(of, "children"))
  BY DEF RecordAnswered, Remembering
<1> HIDE DEF c
<1>3. /\ c.id \in Known
      /\ c.store # Missing => /\ IsStoreDoc(c.store, c.id) /\ c.store.parent \in {Missing, c.id}
  BY <1>1 DEF Stands
<1>4. doc # Missing => doc.id = c.id /\ IsRows(doc.kids, c.id)
  BY <1>1, <1>3 DEF Stands, Replied, StoreToUcp, IsStoreDoc
<1> HIDE DEF doc
<1>5. CASE GoOn(t, cache, Ask(c, "lookup"))
  <2> DEFINE e == Ask(c, "lookup")
  <2>1. /\ DOMAIN e = CallFields /\ e.store = c.store /\ e.id = c.id /\ e.session = c.session
        /\ e.at = "lookup" /\ e.reply = Unanswered
    BY <1>1, AskKeeps DEF IsCall
  <2>2. GoOn(t, cache, e)
    BY <1>5
  <2> HIDE DEF e
  <2>3. IsCall(t, e) /\ Stands(e)
    BY <1>1, <1>3, <2>1 DEF IsCall, Stands, Replied
  <2>4. Onward(t, cache, e)
    BY <2>1, <2>3 DEF Onward, SendsAsked
  <2> QED BY <1>1, <2>2, <2>4, GoesOnWell
<1>6. CASE GoOn(t, cache, Found(cache, c))
  BY <1>1, <1>6, FoundGoesOnward, GoesOnWell
<1>7. ASSUME doc # Missing, NEW lead \in Sizes,
             \/ c.store = Missing /\ GoOn(t, K(lead), Ask(d, "again"))
             \/ c.store # Missing /\ GoOn(t, L(lead), Found(L(lead), d))
             \/ c.store # Missing /\ GoOn(t, K(lead), Ask(of, "children"))
      PROVE  CatalogInv' /\ \A u \in Tasks : SendsOf(u)
  <2>1. IsRows(record.rows, c.id)
    BY <1>1, <1>4, <1>7, RecordIsTrue
  <2> HIDE DEF record
  <2>2. /\ DOMAIN d = CallFields /\ d.id = c.id /\ d.session = c.session /\ d.record = record
    BY <1>1 DEF IsCall, CallFields
  <2>3. WellKept(K(lead))
    BY <1>1, <2>1, SessionsAreKnown, RememberKeeps
  <2>4. c.store # Missing => IsRows(full.rows, c.id)
    BY <1>3, <2>1, EnrichedIsTrue DEF IsStoreDoc
  <2> HIDE DEF d, K, full
  <2>5. c.store # Missing => WellKept(L(lead))
    BY <1>1, <2>3, <2>4, SessionsAreKnown, RememberKeeps
  <2> HIDE DEF L
  <2>6. IsCall(t, d)
    BY <1>1, <2>2 DEF IsCall
  <2>7. CASE c.store = Missing /\ GoOn(t, K(lead), Ask(d, "again"))
    <3> DEFINE e == Ask(d, "again")
    <3>1. DOMAIN e = CallFields /\ e.session = c.session /\ e.at = "again" /\ e.reply = Unanswered
      BY <2>2, AskKeeps
    <3>2. GoOn(t, K(lead), e)
      BY <2>7
    <3> HIDE DEF e
    <3>3. IsCall(t, e) /\ Stands(e)
      BY <1>1, <3>1 DEF IsCall, Stands, Replied
    <3>4. Onward(t, K(lead), e)
      BY <3>1, <3>3 DEF Onward, SendsAsked
    <3> QED BY <2>3, <3>2, <3>4, GoesOnWell
  <2>8. CASE c.store # Missing /\ GoOn(t, L(lead), Found(L(lead), d))
    BY <2>5, <2>6, <2>8, FoundGoesOnward, GoesOnWell
  <2>9. CASE c.store # Missing /\ GoOn(t, K(lead), Ask(of, "children"))
    <3> DEFINE e == Ask(of, "children")
    <3>1. /\ DOMAIN of = CallFields /\ of.id = c.id /\ of.of = c.id /\ of.session = c.session
          /\ of.record = record
      BY <1>3, <2>2, <2>9 DEF CallFields
    <3>2. GoOn(t, K(lead), e)
      BY <2>9
    <3> HIDE DEF of
    <3>3. /\ DOMAIN e = CallFields /\ e.id = c.id /\ e.of = c.id /\ e.session = c.session
          /\ e.record = record /\ e.at = "children" /\ e.reply = Unanswered
      BY <3>1, AskKeeps
    <3> HIDE DEF e
    <3>4. c.id \in Products
      BY <1>3, <2>9 DEF IsStoreDoc
    <3>5. IsCall(t, e) /\ Stands(e)
      BY <1>1, <2>1, <3>3, <3>4 DEF IsCall, Stands, Replied
    <3>6. Onward(t, K(lead), e)
      BY <3>3, <3>5 DEF Onward, SendsAsked
    <3> QED BY <2>3, <3>2, <3>6, GoesOnWell
  <2> QED BY <1>7, <2>7, <2>8, <2>9
<1> HIDE DEF record, d, K, full, L, of
<1> QED BY <1>2, <1>5, <1>6, <1>7

-----------------------------------------------------------------------------
\* A cache without entries is true.
LEMMA EmptyIsTrue == WellKept(EmptyCache)
BY DEF WellKept, EmptyCache, NoRows

\* So is the one that warm-up leaves.
LEMMA WarmedIsTrue == ASSUME NEW now PROVE WellKept(Warmed(now))
<1> DEFINE rows == [p \in Products |-> [c \in Children[p] |-> now[c]]]
           k == Warmed(now)
<1>1. \A p \in Products : IsRows(rows[p], p)
  BY DEF IsRows, Kids
<1>2. /\ DOMAIN k = {"products", "variantOf", "defaults", "chosen"}
      /\ DOMAIN k.products = Products /\ \A p \in Products : k.products[p].rows = rows[p]
      /\ k.variantOf = [c \in Sizes |-> FamilyOf(c)]
      /\ k.defaults = [f \in Families |-> StandsFor(rows[f], CHOOSE c \in Sizes : TRUE)]
      /\ k.chosen = [s \in Range(SessionOf) |-> NoRows]
  BY DEF Warmed, EmptyCache
<1>3. \A p \in Products : p \in Families <=> rows[p] # NoRows
  BY DEF Families, NoRows
<1> HIDE DEF rows, k
<1>4. \A f \in Families : k.defaults[f] \in Kids(f)
  <2> DEFINE lead == CHOOSE c \in Sizes : TRUE
  <2> TAKE f \in Families
  <2>1. k.defaults[f] = StandsFor(rows[f], lead)
    BY <1>2
  <2> HIDE DEF lead
  <2>2. IsRows(rows[f], f) /\ rows[f] # NoRows
    BY <1>1, <1>3 DEF Families
  <2>3. StandsFor(rows[f], lead) \in DOMAIN rows[f]
    BY <2>2, StandsForARow
  <2> QED BY <2>1, <2>2, <2>3 DEF IsRows
<1>5. \A c \in DOMAIN k.variantOf : c \in Kids(k.variantOf[c])
  BY <1>2, SizesAreKids
<1>6. \A s \in Range(SessionOf) : DOMAIN k.chosen[s] = {}
  BY <1>2 DEF NoRows
<1>7. WellKept(k)
  BY <1>1, <1>2, <1>3, <1>4, <1>5, <1>6 DEF WellKept
<1> QED BY <1>7 DEF k

\* The invariant at the start.
LEMMA CatalogStarts == ASSUME CatalogInit PROVE CatalogInv
<1>1. DOMAIN stock = Skus /\ lines = Attached /\ task = [t \in Tasks |-> AtRest]
      /\ cache \in {EmptyCache, Warmed(stock)}
  BY DEF CatalogInit
<1>2. WellKept(cache)
  BY <1>1, EmptyIsTrue, WarmedIsTrue
<1>3. AtRest.at = "idle"
  BY DEF AtRest
<1> QED BY <1>1, <1>2, <1>3, CatalogAssumption DEF CatalogInv, Asking

\* Every step keeps the invariant and sends what was asked for.
LEMMA CatalogStep ==
  ASSUME CatalogInv, ~ MayFlap, [CatalogNext]_catalogVars
  PROVE  CatalogInv' /\ \A u \in Tasks : SendsOf(u)
<1>1. CASE UNCHANGED catalogVars
  BY <1>1 DEF catalogVars, CatalogInv, SendsOf
<1>2. ASSUME NEW c \in Skus, StockChanges(c) PROVE CatalogInv' /\ \A u \in Tasks : SendsOf(u)
  BY <1>2, StockKeeps
<1>3. ASSUME NEW t \in Tasks,
             \/ \E x \in Asked : GetProductDetails(t, x) \/ AddToCart(t, x)
             \/ \E x \in Titled : GetByTitle(t, x)
             \/ SearchProducts(t) \/ AskFacts(t)
      PROVE  CatalogInv' /\ \A u \in Tasks : SendsOf(u)
  BY <1>3, DetailsKeeps, AddKeeps, ByTitleKeeps, SearchKeeps, AskFactsKeeps
<1>4. ASSUME NEW t \in Tasks, Answer(t) \/ HostReads(t) \/ CartTakes(t)
      PROVE  CatalogInv' /\ \A u \in Tasks : SendsOf(u)
  BY <1>4, AnswerKeeps, CartKeeps, StoreAnsweredKeeps, RecordKeeps, AgainKeeps, ChildrenKeeps,
     RowsKeep, FactsAnsweredKeeps DEF HostReads
<1> QED BY <1>1, <1>2, <1>3, <1>4 DEF CatalogNext

\* WhatIsAsked: for any catalog, calls, sessions and answers, if the Store API that failed does not
\* answer later within the same call, an add sends the product asked for, of which the host knows
\* no sizes, or one of its sizes (_resolve_variant over what _remember_details filed).
THEOREM AddsSendWhatIsAsked ==
  ASSUME ~ MayFlap
  PROVE  CatalogSpec => WhatIsAsked
<1>1. CatalogInit => CatalogInv
  BY CatalogStarts
<1>2. CatalogInv /\ [CatalogNext]_catalogVars => CatalogInv'
  BY CatalogStep
<1>3. CatalogInv /\ [CatalogNext]_catalogVars =>
        [\A t \in Tasks :
           (task'[t].at = "cart" /\ task[t].at # "cart") =>
             LET x == task'[t].arg sent == task'[t].sent IN
             \/ sent = x /\ (Knows(cache'.products, x) => cache'.products[x].rows = NoRows)
             \/ sent \in Kids(x)]_catalogVars
  BY CatalogStep DEF SendsOf
<1> QED BY <1>1, <1>2, <1>3, PTL DEF CatalogSpec, WhatIsAsked
=============================================================================
