----------------------------- MODULE HostedTools -----------------------------
(***************************************************************************)
(* The two hosted tool servers (merchant-mcp-server and                    *)
(* storefront-mcp-server): every tool call of every connection is served   *)
(* by one process over one backend, which reads from the shop what it      *)
(* needs on the first call that needs it.  The merchant's server warms its *)
(* backend under a lock, a failure being left to the next call; the        *)
(* storefront's policy index is built by whichever search finds none, with *)
(* no lock.  Calls interleave at every await.                              *)
(***************************************************************************)
EXTENDS Naturals, Sequences, SequencesExt

CONSTANTS
  Connections,  \* connections with a call under way at once
  Requested,    \* SHOPWARE_AGENT_TOOLS: "auto", "plugin" or "host"
  Menus,        \* the shop's two navigations: a sequence of sequences of categories
  Bare,         \* categories without any text
  MaxFaults     \* bound: requests that fail

ASSUME HostedAssumption == MaxFaults \in Nat /\ "nobody" \notin Connections

Texts == {"agents-md", "llms-txt"}
NoLock == "nobody"

VARIABLES
  done,      \* _Warmup._done
  lock,      \* the connection that holds _Warmup._lock
  backend,   \* the merchant backend: the agent tools' mode, catalog, channel, recent orders
  at,        \* where a connection's merchant call stands
  pages,     \* PolicyIndex._policies
  walk,      \* a connection's search: where it stands, what is to be read, what was found
  faults

merchantVars == <<done, lock, backend, at>>
policyVars == <<pages, walk>>
hostedVars == <<merchantVars, policyVars, faults>>

Unread == "unread"
NoWalk == [at |-> "idle", menus |-> <<>>, todo |-> <<>>, seen |-> {}, found |-> <<>>]

HostedTypeOK ==
  /\ done \in BOOLEAN /\ lock \in Connections \cup {NoLock}
  /\ backend \in [mode : {Unread, "plugin", "host"}, catalog : {Unread, "read"},
                  channel : {Unread, "known"}, orders : {Unread, "read", "empty"}]
  /\ at \in [Connections -> {"idle", "ensure", "detect", "catalog", "channel", "orders", "tool"}]
  /\ faults \in 0 .. MaxFaults

HostedInit ==
  /\ done = FALSE /\ lock = NoLock
  /\ backend = [mode |-> Unread, catalog |-> Unread, channel |-> Unread, orders |-> Unread]
  /\ at = [c \in Connections |-> "idle"]
  /\ pages = <<Unread>>
  /\ walk = [c \in Connections |-> NoWalk]
  /\ faults = 0

Goes(c, place) == at' = [at EXCEPT ![c] = place]

\* A request fails, within the bound.
Fault == faults < MaxFaults /\ faults' = faults + 1

-----------------------------------------------------------------------------
(* The merchant's server *)

\* A registered tool is called: whatever the tool, the warm-up comes first.
Call(c) ==
  /\ at[c] = "idle"
  /\ Goes(c, "ensure")
  /\ UNCHANGED <<done, lock, backend, policyVars, faults>>

\* Passing ensure() at once, by the flag.
AlreadyWarm(c) ==
  /\ at[c] = "ensure" /\ done
  /\ Goes(c, "tool")
  /\ UNCHANGED <<done, lock, backend, policyVars, faults>>

TakeLockTrusting(c) ==
  /\ at[c] = "ensure" /\ lock = NoLock /\ ~done
  /\ lock' = c /\ done' = TRUE /\ Goes(c, "detect")
  /\ UNCHANGED <<backend, policyVars, faults>>

\* The flag is looked at again under the lock.
TakeLock(c) ==
  /\ at[c] = "ensure" /\ lock = NoLock /\ ~done
  /\ lock' = c /\ Goes(c, "detect")
  /\ UNCHANGED <<done, backend, policyVars, faults>>

\* resolve_mode: host and plugin as asked for, auto the plugin only where all six tools show.
ResolveMode(advertised) ==
  IF Requested = "host" THEN "host"
  ELSE IF Requested = "plugin" THEN "plugin"
  ELSE IF advertised = "all" THEN "plugin" ELSE "host"

\* A tools/list that fails advertises nothing.
Detect(c) ==
  /\ at[c] = "detect"
  /\ \/ \E advertised \in {"all", "some"} :
          backend' = [backend EXCEPT !.mode = ResolveMode(advertised)] /\ UNCHANGED faults
     \/ /\ Fault /\ Requested # "host"
        /\ backend' = [backend EXCEPT !.mode = ResolveMode("none")]
  /\ Goes(c, "catalog")
  /\ UNCHANGED <<done, lock, policyVars>>

\* The catalog must load: a failure fails the call and leaves the lock.
ReadCatalog(c) ==
  /\ at[c] = "catalog"
  /\ \/ /\ backend' = [backend EXCEPT !.catalog = "read"]
        /\ Goes(c, "channel") /\ UNCHANGED <<lock, faults>>
     \/ /\ Fault /\ Goes(c, "idle") /\ lock' = NoLock
        /\ UNCHANGED backend
  /\ UNCHANGED <<done, policyVars>>

\* No row, or a failure, leaves the channel as it was.
ResolveChannel(c) ==
  /\ at[c] = "channel"
  /\ \/ backend' = [backend EXCEPT !.channel = "known"] /\ UNCHANGED faults
     \/ Fault /\ UNCHANGED backend
  /\ Goes(c, "orders")
  /\ UNCHANGED <<done, lock, policyVars>>

\* The feed of recent orders ends the warm-up, empty where it failed.
ReadOrders(c) ==
  /\ at[c] = "orders"
  /\ \/ backend' = [backend EXCEPT !.orders = "read"] /\ UNCHANGED faults
     \/ Fault /\ backend' = [backend EXCEPT !.orders = "empty"]
  /\ done' = TRUE /\ lock' = NoLock
  /\ Goes(c, "tool")
  /\ UNCHANGED policyVars

\* The connection's own executor answers the call.
Answer(c) ==
  /\ at[c] = "tool"
  /\ Goes(c, "idle")
  /\ UNCHANGED <<done, lock, backend, policyVars, faults>>

-----------------------------------------------------------------------------
(* The storefront's server: search_policies *)

Steps(c, w) == walk' = [walk EXCEPT ![c] = w]

\* A search: with an index it answers at once, without one it builds the index.
SearchPolicies(c) ==
  /\ walk[c].at = "idle"
  /\ IF pages # <<Unread>> THEN UNCHANGED walk
     ELSE Steps(c, [NoWalk EXCEPT !.at = "walking", !.menus = Menus])
  /\ UNCHANGED <<merchantVars, pages, faults>>

\* The next navigation, left out where it cannot be read; one set of seen categories for all.
ReadMenu(c) ==
  LET w == walk[c] IN
  /\ w.at = "walking" /\ w.todo = <<>> /\ w.menus # <<>>
  /\ \/ Steps(c, [w EXCEPT !.menus = Tail(@), !.todo = Head(w.menus)]) /\ UNCHANGED faults
     \/ Fault /\ Steps(c, [w EXCEPT !.menus = Tail(@)])
  /\ UNCHANGED <<merchantVars, pages>>

\* The next category of a navigation: read once, and kept when its page has text.
Walk(c) ==
  LET w == walk[c]
      category == Head(w.todo)
      on == [w EXCEPT !.todo = Tail(@), !.seen = @ \cup {category}]
  IN /\ w.at = "walking" /\ w.todo # <<>>
     /\ \/ /\ category \in w.seen \cup Bare
           /\ Steps(c, on) /\ UNCHANGED faults
        \/ /\ category \notin w.seen \cup Bare
           /\ Steps(c, [on EXCEPT !.found = Append(@, category)]) /\ UNCHANGED faults
        \/ category \notin w.seen /\ Fault /\ Steps(c, on)
     /\ UNCHANGED <<merchantVars, pages>>

Fallback == <<"returns", "shipping", "vat">>

\* /agents.md and /llms.txt, each if the shop has it; the fallback copy for want of any page.
Publish(c) ==
  LET w == walk[c] IN
  /\ w.at = "walking" /\ w.todo = <<>> /\ w.menus = <<>>
  /\ \E texts \in SUBSET Texts :
       LET found == w.found \o SelectSeq(<<"agents-md", "llms-txt">>, LAMBDA t : t \in texts)
       IN pages' = IF found = <<>> THEN Fallback ELSE found
  /\ Steps(c, NoWalk)
  /\ UNCHANGED <<merchantVars, faults>>

HostedNext ==
  \E c \in Connections :
    \/ Call(c) \/ AlreadyWarm(c) \/ TakeLock(c) \/ Detect(c) \/ ReadCatalog(c)
    \/ ResolveChannel(c) \/ ReadOrders(c) \/ Answer(c)
    \/ SearchPolicies(c) \/ ReadMenu(c) \/ Walk(c) \/ Publish(c)

HostedSpec == HostedInit /\ [][HostedNext]_hostedVars

-----------------------------------------------------------------------------
(* No tool runs over a backend that was not warmed to the end: its mode,   *)
(* its catalog and its feed are there, and nobody is changing them; a call *)
(* that failed leaves no lock behind.                                      *)
ToolsFindAWarmBackend ==
  /\ \A c \in Connections :
       at[c] = "tool" => /\ backend.mode # Unread /\ backend.catalog = "read"
                         /\ backend.orders # Unread
                         /\ \A d \in Connections :
                              at[d] \notin {"detect", "catalog", "channel", "orders"}
  /\ lock # NoLock => at[lock] \in {"detect", "catalog", "channel", "orders"}
=============================================================================
