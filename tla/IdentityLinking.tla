-------------------------- MODULE IdentityLinking --------------------------
(***************************************************************************)
(* The identity a storefront session is linked to (ShopwareIdentityLinking *)
(* and ShopwareStorefrontBackend._ucp): a customer signs in and out while  *)
(* calls of the session read the access token, refresh it, send it, are    *)
(* refused and repeat as a guest.  Each await is a step, so a refresh or a *)
(* refusal may answer after the link it belongs to was replaced.           *)
(*                                                                         *)
(* A link is an object that a refresh under way holds on to: links[n] is   *)
(* the n-th, linked is the one the session's entry points to, 0 for none.  *)
(* Tokens are numbered as the shop issues them; a refresh token works once *)
(* (the shop rotates it), an access token until it expires.                *)
(***************************************************************************)
EXTENDS Integers, Sequences

CONSTANTS
  Customers,
  Calls,      \* calls of the session to the shop
  Logins,     \* sign-ins of the session
  MaxTokens,  \* bound: tokens the shop issues
  MaxFaults   \* bound: requests that fail in the network, tokens revoked

ASSUME LinkBoundsAssumption == {MaxTokens, MaxFaults} \subseteq Nat

VARIABLES
  links,    \* the LinkedIdentity objects made so far
  linked,   \* the object in _linked, or 0
  call,     \* call[c]: a call and where it stands
  login,    \* login[l]: a sign-in and where it stands
  issued,   \* issued[t]: whom the shop gave the t-th token, and what is left of it
  cart,     \* the customer whose cart the session's cart is, or "guest"
  signIns,  \* history: the customers whose links were stored, in order
  faults

vars == <<links, linked, call, login, issued, cart, signIns, faults>>

Guest == "guest"
Idle == [at |-> "idle"]
Done == [at |-> "done"]
Fault == faults < MaxFaults /\ faults' = faults + 1

\* The shop's tokens: an access token and the refresh token that comes with it.
Issue(who) ==
  /\ Len(issued) < MaxTokens
  /\ issued' = Append(issued, [who |-> who, access |-> "fresh", refresh |-> TRUE])

Init ==
  /\ links = <<>> /\ linked = 0 /\ issued = <<>> /\ signIns = <<>>
  /\ call = [c \in Calls |-> Idle] /\ login = [l \in Logins |-> Idle]
  /\ cart = Guest /\ faults = 0

-----------------------------------------------------------------------------
(* Signing in and out: shopware_login, link, auth_signout. *)

\* link: the customer's credentials, then _authorize and _token.
SignIn(l, who) ==
  /\ login[l] = Idle
  /\ login' = [login EXCEPT ![l] = [at |-> "login", who |-> who]]
  /\ UNCHANGED <<links, linked, call, issued, cart, signIns, faults>>

Authorized(l) ==
  /\ login[l].at = "login"
  /\ login' = [login EXCEPT ![l].at = "token"]
  /\ UNCHANGED <<links, linked, call, issued, cart, signIns, faults>>

\* Mutant: a new link is written into the session's object.
LinkInPlace(l) ==
  /\ login[l].at = "token"
  /\ Issue(login[l].who)
  /\ LET link == [token |-> Len(issued')] IN
     IF linked = 0
     THEN links' = Append(links, link) /\ linked' = Len(links')
     ELSE links' = [links EXCEPT ![linked] = link] /\ UNCHANGED linked
  /\ signIns' = Append(signIns, login[l].who)
  /\ login' = [login EXCEPT ![l].at = "attach"]
  /\ UNCHANGED <<call, cart, faults>>

\* The code is exchanged; the session gets an object of its own for the tokens.
Link(l) ==
  /\ login[l].at = "token"
  /\ Issue(login[l].who)
  /\ links' = Append(links, [token |-> Len(issued')]) /\ linked' = Len(links')
  /\ signIns' = Append(signIns, login[l].who)
  /\ login' = [login EXCEPT ![l].at = "attach"]
  /\ UNCHANGED <<call, cart, faults>>

\* IdentityError at any of the three requests: the session stays as it is.
SignInFails(l) ==
  /\ login[l].at \in {"login", "token"}
  /\ Fault
  /\ login' = [login EXCEPT ![l] = Done]
  /\ UNCHANGED <<links, linked, call, issued, cart, signIns>>

\* shopware_login: attach_cart binds the customer's cart, unless get_cart fails.
Attach(l) ==
  /\ login[l].at = "attach"
  /\ \/ cart' = login[l].who /\ UNCHANGED faults
     \/ Fault /\ UNCHANGED cart
  /\ login' = [login EXCEPT ![l] = Done]
  /\ UNCHANGED <<links, linked, call, issued, signIns>>

SignOut ==
  /\ linked # 0
  /\ linked' = 0
  /\ UNCHANGED <<links, call, login, issued, cart, signIns, faults>>

-----------------------------------------------------------------------------
(* A call: bearer, refresh, _ucp. *)

Token(n) == links[n].token
Expired(n) == issued[Token(n)].access # "fresh"

\* bearer: the token of the session's link, or none; an expired one is refreshed first.
Bearer(c) ==
  /\ call[c] = Idle
  /\ call' = [call EXCEPT ![c] =
       IF linked = 0 THEN [at |-> "guest"]
       ELSE IF Expired(linked)
            THEN [at |-> "refresh", link |-> linked, with |-> Token(linked), new |-> 0]
            ELSE [at |-> "send", token |-> Token(linked)]]
  /\ UNCHANGED <<links, linked, login, issued, cart, signIns, faults>>

\* The shop takes a refresh token once and issues the next pair.
RefreshPerformed(c) ==
  /\ call[c].at = "refresh" /\ call[c].new = 0
  /\ issued[call[c].with].refresh
  /\ Len(issued) < MaxTokens
  /\ issued' = Append([issued EXCEPT ![call[c].with].refresh = FALSE],
                      [who |-> issued[call[c].with].who, access |-> "fresh", refresh |-> TRUE])
  /\ call' = [call EXCEPT ![c].new = Len(issued')]
  /\ UNCHANGED <<links, linked, login, cart, signIns, faults>>

\* Mutant: the refreshed link is stored under the session.
RefreshAnsweredStored(c) ==
  /\ call[c].at = "refresh" /\ call[c].new # 0
  /\ links' = [links EXCEPT ![call[c].link].token = call[c].new]
  /\ linked' = call[c].link
  /\ call' = [call EXCEPT ![c] = [at |-> "send", token |-> call[c].new]]
  /\ UNCHANGED <<login, issued, cart, signIns, faults>>

\* refresh: the tokens go into the object it read before the request, wherever that is now.
RefreshAnswered(c) ==
  /\ call[c].at = "refresh" /\ call[c].new # 0
  /\ links' = [links EXCEPT ![call[c].link].token = call[c].new]
  /\ call' = [call EXCEPT ![c] = [at |-> "send", token |-> call[c].new]]
  /\ UNCHANGED <<linked, login, issued, cart, signIns, faults>>

\* Refused, or no answer: whatever link the session has by now is dropped.
RefreshFails(c) ==
  /\ call[c].at = "refresh"
  /\ \/ ~issued[call[c].with].refresh /\ call[c].new = 0 /\ UNCHANGED faults
     \/ Fault
  /\ linked' = 0
  /\ call' = [call EXCEPT ![c] = [at |-> "guest"]]
  /\ UNCHANGED <<links, login, issued, cart, signIns>>

\* The shop answers a call that carries a token it takes, and a guest's.
Answered(c) ==
  /\ \/ call[c].at = "send" /\ issued[call[c].token].access # "revoked"
     \/ call[c].at = "guest"
  /\ call' = [call EXCEPT ![c] = Done]
  /\ UNCHANGED <<links, linked, login, issued, cart, signIns, faults>>

\* UcpAuthError: the session's link is dropped, the call repeated as a guest.
AuthRefused(c) ==
  /\ call[c].at = "send" /\ issued[call[c].token].access = "revoked"
  /\ linked' = 0
  /\ call' = [call EXCEPT ![c] = [at |-> "guest"]]
  /\ UNCHANGED <<links, login, issued, cart, signIns, faults>>

\* Time passes, the shop withdraws a token.  The host counts a token as expired before the
\* shop does.
TokenAges(t) ==
  /\ \/ /\ issued[t].access = "fresh"
        /\ issued' = [issued EXCEPT ![t].access = "expiring"] /\ UNCHANGED faults
     \/ /\ issued[t].access # "revoked" /\ Fault
        /\ issued' = [issued EXCEPT ![t].access = "revoked"]
  /\ UNCHANGED <<links, linked, call, login, cart, signIns>>

Next ==
  \/ \E l \in Logins : \/ \E who \in Customers : SignIn(l, who)
                      \/ Authorized(l) \/ Link(l) \/ SignInFails(l) \/ Attach(l)
  \/ SignOut
  \/ \E c \in Calls : \/ Bearer(c) \/ RefreshPerformed(c) \/ RefreshAnswered(c) \/ RefreshFails(c)
                     \/ Answered(c) \/ AuthRefused(c)
  \/ \E t \in DOMAIN issued : TokenAges(t)

Spec == Init /\ [][Next]_vars

-----------------------------------------------------------------------------
(* Properties. *)

\* A session that signed out is a guest's until a sign-in is completed: no refresh that was
\* under way brings the link back (refresh, auth_signout).
SignedOutStaysOut ==
  [][linked = 0 /\ linked' # 0 => Len(signIns') > Len(signIns)]_vars

\* The token a session would send is the one of the customer who signed in last: a refresh
\* that answers after somebody else signed in does not put the former customer's token there
\* (link makes an object of its own, refresh writes into the one it read).
StoredTokenIsTheirs ==
  linked # 0 => issued[Token(linked)].who = signIns[Len(signIns)]
=============================================================================
