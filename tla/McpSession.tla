----------------------------- MODULE McpSession -----------------------------
(***************************************************************************)
(* McpClient: one client object, its MCP session on the Shopware server,   *)
(* and the asyncio tasks that call tools through it at the same time.      *)
(*                                                                         *)
(* A task runs alone between two awaits.  The awaits are the two locks,    *)
(* the headers provider (an access token) and the HTTP exchanges; the      *)
(* session header is read after the provider has answered.  The handshake  *)
(* runs under _lock when a task finds no session, and under _io_lock when  *)
(* the server answers that it forgot the session.                          *)
(***************************************************************************)
EXTENDS Integers, FiniteSets

CONSTANTS
  Tasks,       \* the tasks that share the client
  MaxCalls,    \* bound: tool calls ever made
  MaxForgets,  \* bound: sessions the server forgets
  MaxFaults    \* bound: transient answers, failed exchanges and timeouts

ASSUME McpBoundsAssumption == {MaxCalls, MaxForgets, MaxFaults} \subseteq Nat
ASSUME TasksAssumption == "none" \notin Tasks

VARIABLES
  session,     \* session_id, 0 for None
  lock,        \* the task that holds _lock, or None
  io,          \* the task that holds _io_lock, or None
  task,        \* task[t]: the call task t is making
  live,        \* the sessions the server knows
  running,     \* the calls the server is performing
  created,     \* sessions created
  calls,       \* calls made
  forgets,     \* sessions forgotten
  faults,      \* transient answers, failures and timeouts
  performed,   \* history: how often the server performed each call
  broken,      \* history: a handshake exchange failed
  resent,      \* history: how often each call was answered with a transient status
  givenUp,     \* history: calls whose client stopped waiting
  outcome      \* history: how each call ended; "lostAtOnce" if no session was
               \* forgotten since its handshake began

clientVars == <<session, lock, io, task>>
serverVars == <<live, running, created>>
historyVars == <<performed, broken, resent, givenUp, outcome>>
vars == <<clientVars, serverVars, calls, forgets, faults, historyVars>>

-----------------------------------------------------------------------------
None == "none"
Numbers == 1 .. MaxCalls

Phases == {"idle", "ensuring", "queued", "handshake", "notifying", "posting", "posted", "received"}

\* A call: its number, the session header of the exchange under way, whether it was replayed
\* on a new session, whether the exchange is the second one after a transient status, and how
\* many sessions the server had forgotten when its handshake began.
Task == [phase: Phases, call: {0} \cup Numbers, header: Nat, replay: BOOLEAN,
         again: BOOLEAN, seen: 0 .. MaxForgets]
Idle == [phase |-> "idle", call |-> 0, header |-> 0, replay |-> FALSE, again |-> FALSE, seen |-> 0]

Init ==
  /\ session = 0 /\ lock = None /\ io = None
  /\ task = [t \in Tasks |-> Idle]
  /\ live = {} /\ running = {} /\ created = 0
  /\ calls = 0 /\ forgets = 0 /\ faults = 0
  /\ performed = [n \in Numbers |-> 0]
  /\ broken = FALSE /\ givenUp = {}
  /\ resent = [n \in Numbers |-> 0]
  /\ outcome = [n \in Numbers |-> "open"]

At(t, phase) == task[t].phase = phase
Move(t, phase) == task' = [task EXCEPT ![t].phase = phase]

-----------------------------------------------------------------------------
\* Mutant: a call that fails keeps the lock.
EndKeepingIo(t, how) ==
  /\ task' = [task EXCEPT ![t] = Idle]
  /\ lock' = IF lock = t THEN None ELSE lock
  /\ io' = IF io = t /\ how # "failed" THEN None ELSE io
  /\ outcome' = [outcome EXCEPT ![task[t].call] = how]

\* The call returns or raises: the locks it holds are released.
End(t, how) ==
  /\ task' = [task EXCEPT ![t] = Idle]
  /\ lock' = IF lock = t THEN None ELSE lock
  /\ io' = IF io = t THEN None ELSE io
  /\ outcome' = [outcome EXCEPT ![task[t].call] = how]

\* request, call_tool: ensure_session first looks at the session without the lock.
Request(t) ==
  /\ At(t, "idle") /\ calls < MaxCalls
  /\ calls' = calls + 1
  /\ task' = [task EXCEPT ![t] =
               [Idle EXCEPT !.call = calls + 1,
                            !.phase = IF session = 0 THEN "ensuring" ELSE "queued"]]
  /\ UNCHANGED <<session, lock, io, serverVars, forgets, faults, historyVars>>

\* ensure_session: with the lock the session is looked at again; without one the handshake begins.
EnsureSession(t) ==
  /\ At(t, "ensuring") /\ lock = None
  /\ IF session # 0
     THEN Move(t, "queued") /\ lock' = lock
     ELSE /\ task' = [task EXCEPT ![t] = [@ EXCEPT !.phase = "handshake", !.seen = forgets]]
          /\ lock' = t
  /\ UNCHANGED <<session, io, serverVars, calls, forgets, faults, historyVars>>

\* initialize: the answer's session replaces whatever was there.
Adopt(new) == new

\* initialize, the answer: the server created a session, and the notification follows.
Initialized(t) ==
  /\ At(t, "handshake")
  /\ created' = created + 1
  /\ live' = live \cup {created + 1}
  /\ session' = Adopt(created + 1)
  /\ Move(t, "notifying")
  /\ UNCHANGED <<lock, io, running, calls, forgets, faults, historyVars>>

\* notifications/initialized, sent with the session of that moment.  The handshake of
\* ensure_session releases its lock, that of a replay goes on to the second exchange.
Notified(t) ==
  /\ At(t, "notifying") /\ session \in live
  /\ IF lock = t THEN Move(t, "queued") /\ lock' = None
                 ELSE Move(t, "posting") /\ lock' = lock
  /\ UNCHANGED <<session, io, live, running, created, calls, forgets, faults, historyVars>>

\* A handshake exchange fails: the call raises.
HandshakeFails(t) ==
  /\ At(t, "handshake") \/ At(t, "notifying")
  /\ faults < MaxFaults
  /\ faults' = faults + 1
  /\ broken' = TRUE
  /\ End(t, "failed")
  /\ UNCHANGED <<session, serverVars, calls, forgets, performed, resent, givenUp>>

\* Mutant: calls of one session run side by side.
AcquireUnserialised(t) ==
  /\ At(t, "queued")
  /\ io' = t
  /\ Move(t, "posting")
  /\ UNCHANGED <<session, lock, serverVars, calls, forgets, faults, historyVars>>

\* request: one call at a time.
Acquire(t) ==
  /\ At(t, "queued") /\ io = None
  /\ io' = t
  /\ Move(t, "posting")
  /\ UNCHANGED <<session, lock, serverVars, calls, forgets, faults, historyVars>>

\* _send: the headers are read and the body is posted.
Post(t) ==
  /\ At(t, "posting")
  /\ task' = [task EXCEPT ![t] = [@ EXCEPT !.phase = "posted", !.header = session, !.again = FALSE]]
  /\ UNCHANGED <<session, lock, io, serverVars, calls, forgets, faults, historyVars>>

\* The server knows no session of that header (_transport_error: McpSessionLost).
Lost(t) == At(t, "posted") /\ task[t].header \notin live

\* The first time the call is replayed after a handshake under _io_lock; initialize drops the
\* session at once.
Reinitialise(t) ==
  /\ Lost(t) /\ ~task[t].replay
  /\ task' = [task EXCEPT ![t] = [@ EXCEPT !.phase = "handshake", !.replay = TRUE,
                                              !.seen = forgets]]
  /\ session' = 0
  /\ UNCHANGED <<lock, io, serverVars, calls, forgets, faults, historyVars>>

\* The second time, and when the notification finds no session, the call fails.
LostAgain(t) ==
  /\ (Lost(t) /\ task[t].replay) \/ (At(t, "notifying") /\ session \notin live)
  /\ End(t, IF task[t].seen = forgets THEN "lostAtOnce" ELSE "lost")
  /\ UNCHANGED <<session, serverVars, calls, forgets, faults, performed, broken, resent, givenUp>>

-----------------------------------------------------------------------------
\* The server takes up a call of a session it knows.
Receive(t) ==
  /\ At(t, "posted") /\ task[t].header \in live
  /\ running' = running \cup {[call |-> task[t].call, session |-> task[t].header]}
  /\ Move(t, "received")
  /\ UNCHANGED <<session, lock, io, live, created, calls, forgets, faults, historyVars>>

Running(n) == {x \in running : x.call = n}

\* Mutant: an error in the answer is replayed like a lost session.
AnswerReplayed(t) ==
  /\ At(t, "received") /\ Running(task[t].call) # {}
  /\ running' = running \ Running(task[t].call)
  /\ performed' = [performed EXCEPT ![task[t].call] = @ + 1]
  /\ IF task[t].replay
     THEN End(t, "answered")
     ELSE /\ task' = [task EXCEPT ![t] = [@ EXCEPT !.phase = "posting", !.replay = TRUE]]
          /\ UNCHANGED <<lock, io, outcome>>
  /\ UNCHANGED <<session, live, created, calls, forgets, faults, broken, resent, givenUp>>

\* The server has performed a call and its answer, a result or an error, reaches the client.
Answer(t) ==
  /\ At(t, "received") /\ Running(task[t].call) # {}
  /\ running' = running \ Running(task[t].call)
  /\ performed' = [performed EXCEPT ![task[t].call] = @ + 1]
  /\ End(t, "answered")
  /\ UNCHANGED <<session, live, created, calls, forgets, faults, broken, resent, givenUp>>

\* A transient status, before or after the call was performed: the same body goes out a second
\* time with the same headers; a second transient status fails the call.
Transient(t) ==
  /\ At(t, "received") /\ faults < MaxFaults
  /\ faults' = faults + 1
  /\ running' = running \ Running(task[t].call)
  /\ resent' = [resent EXCEPT ![task[t].call] = @ + 1]
  /\ \E done \in {0, 1} : performed' = [performed EXCEPT ![task[t].call] = @ + done]
  /\ IF task[t].again
     THEN End(t, "failed")
     ELSE /\ task' = [task EXCEPT ![t] = [@ EXCEPT !.phase = "posted", !.again = TRUE]]
          /\ UNCHANGED <<lock, io, outcome>>
  /\ UNCHANGED <<session, live, created, calls, forgets, broken, givenUp>>

\* The client stops waiting; the server goes on with the call.
TimeOut(t) ==
  /\ At(t, "received") /\ faults < MaxFaults
  /\ faults' = faults + 1
  /\ givenUp' = givenUp \cup {task[t].call}
  /\ End(t, "failed")
  /\ UNCHANGED <<session, serverVars, calls, forgets, performed, broken, resent>>

\* The server finishes a call nobody waits for.
FinishUnheard(n) ==
  /\ n \in givenUp /\ Running(n) # {}
  /\ running' = running \ Running(n)
  /\ performed' = [performed EXCEPT ![n] = @ + 1]
  /\ UNCHANGED <<clientVars, live, created, calls, forgets, faults, broken, resent, givenUp, outcome>>

\* The server forgets a session.
Forget(s) ==
  /\ s \in live /\ forgets < MaxForgets
  /\ live' = live \ {s}
  /\ forgets' = forgets + 1
  /\ UNCHANGED <<clientVars, running, created, calls, faults, historyVars>>

Step(t) ==
  \/ EnsureSession(t) \/ Initialized(t) \/ Notified(t) \/ HandshakeFails(t)
  \/ Acquire(t) \/ Post(t) \/ Reinitialise(t) \/ LostAgain(t)
  \/ Receive(t) \/ Answer(t) \/ Transient(t) \/ TimeOut(t)

Next ==
  \/ \E t \in Tasks : Request(t) \/ Step(t)
  \/ \E n \in Numbers : FinishUnheard(n)
  \/ \E s \in live : Forget(s)

\* A task that can go on does: the event loop runs it, its exchange is answered or times out.
Fairness == \A t \in Tasks : WF_vars(Step(t))

Spec == Init /\ [][Next]_vars /\ Fairness

-----------------------------------------------------------------------------
TypeOK ==
  /\ created \in Nat /\ session \in 0 .. created
  /\ {lock, io} \subseteq Tasks \cup {None}
  /\ task \in [Tasks -> Task]
  /\ live \subseteq 1 .. created
  /\ running \subseteq [call: Numbers, session: Nat]
  /\ calls \in 0 .. MaxCalls /\ forgets \in 0 .. MaxForgets /\ faults \in 0 .. MaxFaults
  /\ {performed, resent} \subseteq [Numbers -> Nat]
  /\ broken \in BOOLEAN /\ givenUp \subseteq Numbers
  /\ outcome \in [Numbers -> {"open", "answered", "failed", "lost", "lostAtOnce"}]

\* The server performs one call of a session at a time; a second one only while an earlier one
\* runs on that the client has given up (request, _io_lock).
OneCallAtATime ==
  \A x, y \in running :
    x # y /\ x.session = y.session => x.call \in givenUp \/ y.call \in givenUp

\* A call is performed once, and once more for every transient status it was answered with,
\* however often it is replayed on a new session: never more than three times, for the posts of
\* the replay are counted anew.  And the replay makes the loss of a session invisible:
\* a call fails for a lost session only if the server forgot another one after the call's own
\* handshake began, or a handshake has failed (request, _send, _transport_error).
ReplaysAreSafe ==
  \A n \in Numbers : /\ performed[n] <= 1 + resent[n] /\ performed[n] <= 3
                     /\ ~broken => outcome[n] # "lostAtOnce"

\* Every call ends, whichever of the two locks it waits for (ensure_session, request).
CallsEnd == \A t \in Tasks : ~At(t, "idle") ~> At(t, "idle")

\* What the module's comment says of the handshake: calls follow notifications/initialized.
CallsAfterHandshake ==
  \A t \in Tasks, x \in running : At(t, "notifying") => x.session # session
=============================================================================
