----------------------------- MODULE McpProofs -----------------------------
(***************************************************************************)
(* Proofs about McpSession, for any tasks, calls, forgotten sessions and   *)
(* faults: calls of one session never run side by side, no call is         *)
(* performed more often than it was repeated for, and the loss of one      *)
(* session never reaches a caller.                                         *)
(*                                                                         *)
(* Neither property is inductive.  Behind the first stands who holds which *)
(* lock in which phase; behind the second how often a task may still post  *)
(* its call, and what a task that began a handshake may rely on: as long   *)
(* as the server forgot nothing since, the client's session is one the     *)
(* server knows.                                                           *)
(***************************************************************************)
EXTENDS McpSession, TLAPS

Handshaking(t) == task[t].phase \in {"handshake", "notifying"}
Exchanging(t) == task[t].phase \in {"posted", "received"}
Sending(t) == At(t, "posting") \/ Exchanging(t)

\* Each lock belongs to the task whose phase needs it.
Locks ==
  \A t \in Tasks :
    /\ lock = t <=> Handshaking(t) /\ ~task[t].replay
    /\ io = t <=> Sending(t) \/ (Handshaking(t) /\ task[t].replay)
    /\ task[t].replay => Handshaking(t) \/ Sending(t)

\* A call has one task and one number; nobody waits for a call that was given up.
Numbering ==
  /\ givenUp \subseteq 1 .. calls
  /\ \A t \in Tasks : ~At(t, "idle") =>
       /\ task[t].call \in 1 .. calls
       /\ task[t].call \notin givenUp
       /\ \A u \in Tasks : ~At(u, "idle") /\ task[u].call = task[t].call => u = t

\* The server performs the calls of tasks that wait, and calls that were given up.
Awaited ==
  \A x \in running : \/ x.call \in givenUp
                     \/ \E t \in Tasks : /\ At(t, "received")
                                         /\ task[t].call = x.call /\ task[t].header = x.session

\* How often a task's call may have been answered with a transient status so far.
Allowance(t) ==
  (IF task[t].replay THEN 1 ELSE 0) + (IF task[t].again /\ Exchanging(t) THEN 1 ELSE 0)

Pending(n) == (\E t \in Tasks : ~At(t, "idle") /\ task[t].call = n) \/ Running(n) # {}

\* A call that is under way has been performed only for answers that were lost.
Counts ==
  /\ \A t \in Tasks : ~At(t, "idle") => resent[task[t].call] <= Allowance(t)
  /\ \A n \in Numbers :
       /\ n > calls => performed[n] = 0 /\ resent[n] = 0
       /\ performed[n] <= 1 + resent[n] /\ performed[n] <= 3
       /\ Pending(n) => performed[n] <= resent[n] /\ resent[n] <= 2

\* No call goes out without a session, unless a handshake failed.
SessionAtHand ==
  session = 0 => \A t \in Tasks : /\ ~Sending(t)
                                  /\ ~(At(t, "notifying") /\ task[t].replay)
                                  /\ At(t, "queued") => io # None

\* What a task may rely on that began a handshake after the server last forgot a session.
Reliable ==
  \A t \in Tasks : (Handshaking(t) \/ task[t].replay) /\ task[t].seen = forgets =>
    /\ session \in live \cup {0}
    /\ At(t, "notifying") => session # 0
    /\ \A u \in Tasks : Exchanging(u) => task[u].header \in live

NeverLostAtOnce == \A n \in Numbers : outcome[n] # "lostAtOnce"

SessionsKept ==
  /\ \A t \in Tasks : task[t].seen <= forgets
  /\ broken \/ (SessionAtHand /\ Reliable /\ NeverLostAtOnce)

IInv == TypeOK /\ Locks /\ Numbering /\ Awaited /\ Counts /\ SessionsKept

-----------------------------------------------------------------------------
(* What a step does to the call of its task. *)

Turns(t, phase, call, header, replay, again, seen) ==
  /\ task' \in [Tasks -> Task]
  /\ \A u \in Tasks : u # t => task'[u] = task[u]
  /\ task'[t].phase = phase /\ task'[t].call = call /\ task'[t].header = header
  /\ task'[t].replay = replay /\ task'[t].again = again /\ task'[t].seen = seen

\* The task goes on to another phase, or its call ends, and that is all.
MovesTo(t, phase) ==
  Turns(t, phase, task[t].call, task[t].header, task[t].replay, task[t].again, task[t].seen)

LEMMA Fields ==
  ASSUME TypeOK, NEW t \in Tasks
  PROVE  /\ task[t] \in Task
         /\ task[t].phase \in Phases /\ task[t].call \in {0} \cup Numbers
         /\ task[t].header \in Nat /\ task[t].replay \in BOOLEAN /\ task[t].again \in BOOLEAN
         /\ task[t].seen \in 0 .. MaxForgets
BY DEF TypeOK, Task

LEMMA Turned ==
  ASSUME TypeOK, NEW t \in Tasks, NEW r \in Task, task' = [task EXCEPT ![t] = r]
  PROVE  Turns(t, r.phase, r.call, r.header, r.replay, r.again, r.seen)
BY DEF TypeOK, Turns

LEMMA NewPhase ==
  ASSUME NEW q \in Task, NEW v \in Phases
  PROVE  LET x == [q EXCEPT !.phase = v] IN
         /\ x \in Task /\ x.phase = v
         /\ x.call = q.call /\ x.header = q.header
         /\ x.replay = q.replay /\ x.again = q.again /\ x.seen = q.seen
BY DEF Task

LEMMA NewCall ==
  ASSUME NEW q \in Task, NEW v \in {0} \cup Numbers
  PROVE  LET x == [q EXCEPT !.call = v] IN
         /\ x \in Task /\ x.call = v
         /\ x.phase = q.phase /\ x.header = q.header
         /\ x.replay = q.replay /\ x.again = q.again /\ x.seen = q.seen
BY DEF Task

LEMMA NewHeader ==
  ASSUME NEW q \in Task, NEW v \in Nat
  PROVE  LET x == [q EXCEPT !.header = v] IN
         /\ x \in Task /\ x.header = v
         /\ x.phase = q.phase /\ x.call = q.call
         /\ x.replay = q.replay /\ x.again = q.again /\ x.seen = q.seen
BY DEF Task

LEMMA NewReplay ==
  ASSUME NEW q \in Task, NEW v \in BOOLEAN
  PROVE  LET x == [q EXCEPT !.replay = v] IN
         /\ x \in Task /\ x.replay = v
         /\ x.phase = q.phase /\ x.call = q.call /\ x.header = q.header /\ x.again = q.again /\ x.seen = q.seen
BY DEF Task

LEMMA NewAgain ==
  ASSUME NEW q \in Task, NEW v \in BOOLEAN
  PROVE  LET x == [q EXCEPT !.again = v] IN
         /\ x \in Task /\ x.again = v
         /\ x.phase = q.phase /\ x.call = q.call /\ x.header = q.header
         /\ x.replay = q.replay /\ x.seen = q.seen
BY DEF Task

LEMMA NewSeen ==
  ASSUME NEW q \in Task, NEW v \in 0 .. MaxForgets
  PROVE  LET x == [q EXCEPT !.seen = v] IN
         /\ x \in Task /\ x.seen = v
         /\ x.phase = q.phase /\ x.call = q.call /\ x.header = q.header
         /\ x.replay = q.replay /\ x.again = q.again
BY DEF Task

LEMMA Moved ==
  ASSUME TypeOK, NEW t \in Tasks, NEW phase \in Phases, Move(t, phase)
  PROVE  MovesTo(t, phase)
<1> DEFINE r == [task[t] EXCEPT !.phase = phase]
<1>1. task' = [task EXCEPT ![t] = r]
  BY DEF Move
<1>2. /\ r \in Task /\ r.phase = phase /\ r.call = task[t].call /\ r.header = task[t].header
      /\ r.replay = task[t].replay /\ r.again = task[t].again /\ r.seen = task[t].seen
  BY Fields, NewPhase
<1> HIDE DEF r
<1>3. QED
  BY <1>1, <1>2, Turned DEF MovesTo

LEMMA IdleFields ==
  /\ Idle \in Task /\ Idle.phase = "idle" /\ Idle.call = 0 /\ Idle.header = 0
  /\ Idle.replay = FALSE /\ Idle.again = FALSE /\ Idle.seen = 0
BY McpBoundsAssumption DEF Idle, Task, Phases

LEMMA Ended ==
  ASSUME TypeOK, NEW t \in Tasks, NEW how, End(t, how)
  PROVE  Turns(t, "idle", 0, 0, FALSE, FALSE, 0)
BY IdleFields, Turned DEF End

LEMMA EnsureTurns ==
  ASSUME TypeOK, NEW t \in Tasks, EnsureSession(t), session = 0
  PROVE  Turns(t, "handshake", task[t].call, task[t].header, task[t].replay, task[t].again, forgets)
<1> DEFINE q == [task[t] EXCEPT !.phase = "handshake"]
           r == [q EXCEPT !.seen = forgets]
<1>1. task[t] \in Task
  BY Fields
<1>2. task' = [task EXCEPT ![t] = r]
  BY DEF EnsureSession
<1>3. /\ q \in Task /\ q.phase = "handshake" /\ q.call = task[t].call
      /\ q.header = task[t].header /\ q.replay = task[t].replay
      /\ q.again = task[t].again /\ q.seen = task[t].seen
  BY <1>1, NewPhase DEF Phases
<1> HIDE DEF q
<1>4. /\ r \in Task /\ r.phase = "handshake" /\ r.call = task[t].call
      /\ r.header = task[t].header /\ r.replay = task[t].replay
      /\ r.again = task[t].again /\ r.seen = forgets
  BY <1>3, NewSeen DEF TypeOK
<1> HIDE DEF r
<1>5. QED
  BY <1>2, <1>4, Turned

LEMMA PostTurns ==
  ASSUME TypeOK, NEW t \in Tasks, Post(t)
  PROVE  Turns(t, "posted", task[t].call, session, task[t].replay, FALSE, task[t].seen)
<1> DEFINE q == [task[t] EXCEPT !.phase = "posted"]
           r == [q EXCEPT !.header = session]
           s == [r EXCEPT !.again = FALSE]
<1>1. task[t] \in Task
  BY Fields
<1>2. task' = [task EXCEPT ![t] = s]
  BY DEF Post
<1>3. /\ q \in Task /\ q.phase = "posted" /\ q.call = task[t].call
      /\ q.header = task[t].header /\ q.replay = task[t].replay
      /\ q.again = task[t].again /\ q.seen = task[t].seen
  BY <1>1, NewPhase DEF Phases
<1> HIDE DEF q
<1>4. /\ r \in Task /\ r.phase = "posted" /\ r.call = task[t].call
      /\ r.header = session /\ r.replay = task[t].replay
      /\ r.again = task[t].again /\ r.seen = task[t].seen
  BY <1>3, NewHeader DEF TypeOK
<1> HIDE DEF r
<1>5. /\ s \in Task /\ s.phase = "posted" /\ s.call = task[t].call
      /\ s.header = session /\ s.replay = task[t].replay
      /\ s.again = FALSE /\ s.seen = task[t].seen
  BY <1>4, NewAgain
<1> HIDE DEF s
<1>6. QED
  BY <1>2, <1>5, Turned

LEMMA ReinitialiseTurns ==
  ASSUME TypeOK, NEW t \in Tasks, Reinitialise(t)
  PROVE  Turns(t, "handshake", task[t].call, task[t].header, TRUE, task[t].again, forgets)
<1> DEFINE q == [task[t] EXCEPT !.phase = "handshake"]
           r == [q EXCEPT !.replay = TRUE]
           s == [r EXCEPT !.seen = forgets]
<1>1. task[t] \in Task
  BY Fields
<1>2. task' = [task EXCEPT ![t] = s]
  BY DEF Reinitialise
<1>3. /\ q \in Task /\ q.phase = "handshake" /\ q.call = task[t].call
      /\ q.header = task[t].header /\ q.replay = task[t].replay
      /\ q.again = task[t].again /\ q.seen = task[t].seen
  BY <1>1, NewPhase DEF Phases
<1> HIDE DEF q
<1>4. /\ r \in Task /\ r.phase = "handshake" /\ r.call = task[t].call
      /\ r.header = task[t].header /\ r.replay = TRUE
      /\ r.again = task[t].again /\ r.seen = task[t].seen
  BY <1>3, NewReplay
<1> HIDE DEF r
<1>5. /\ s \in Task /\ s.phase = "handshake" /\ s.call = task[t].call
      /\ s.header = task[t].header /\ s.replay = TRUE
      /\ s.again = task[t].again /\ s.seen = forgets
  BY <1>4, NewSeen DEF TypeOK
<1> HIDE DEF s
<1>6. QED
  BY <1>2, <1>5, Turned

LEMMA TransientTurns ==
  ASSUME TypeOK, NEW t \in Tasks, Transient(t), ~task[t].again
  PROVE  Turns(t, "posted", task[t].call, task[t].header, task[t].replay, TRUE, task[t].seen)
<1> DEFINE q == [task[t] EXCEPT !.phase = "posted"]
           r == [q EXCEPT !.again = TRUE]
<1>1. task[t] \in Task
  BY Fields
<1>2. task' = [task EXCEPT ![t] = r]
  BY DEF Transient
<1>3. /\ q \in Task /\ q.phase = "posted" /\ q.call = task[t].call
      /\ q.header = task[t].header /\ q.replay = task[t].replay
      /\ q.again = task[t].again /\ q.seen = task[t].seen
  BY <1>1, NewPhase DEF Phases
<1> HIDE DEF q
<1>4. /\ r \in Task /\ r.phase = "posted" /\ r.call = task[t].call
      /\ r.header = task[t].header /\ r.replay = task[t].replay
      /\ r.again = TRUE /\ r.seen = task[t].seen
  BY <1>3, NewAgain
<1> HIDE DEF r
<1>5. QED
  BY <1>2, <1>4, Turned

LEMMA RequestTurns ==
  ASSUME TypeOK, NEW t \in Tasks, Request(t)
  PROVE  Turns(t, IF session = 0 THEN "ensuring" ELSE "queued", calls + 1, 0, FALSE, FALSE, 0)
<1> DEFINE phase == IF session = 0 THEN "ensuring" ELSE "queued"
           q == [Idle EXCEPT !.call = calls + 1]
           r == [q EXCEPT !.phase = phase]
<1>1. calls + 1 \in Numbers /\ phase \in Phases
  BY McpBoundsAssumption DEF Request, TypeOK, Numbers, Phases
<1>2. task' = [task EXCEPT ![t] = r]
  BY DEF Request
<1> HIDE DEF phase
<1>3. /\ q \in Task /\ q.call = calls + 1 /\ q.header = 0
      /\ q.replay = FALSE /\ q.again = FALSE /\ q.seen = 0
  BY <1>1, IdleFields, NewCall
<1> HIDE DEF q
<1>4. /\ r \in Task /\ r.phase = phase /\ r.call = calls + 1 /\ r.header = 0
      /\ r.replay = FALSE /\ r.again = FALSE /\ r.seen = 0
  BY <1>1, <1>3, NewPhase
<1> HIDE DEF r
<1>5. Turns(t, phase, calls + 1, 0, FALSE, FALSE, 0)
  BY <1>2, <1>4, Turned
<1>6. QED
  BY <1>5 DEF phase


\* The counts stay right as long as no call is performed or started, no allowance shrinks and
\* no call gets under way.
LEMMA CountsStay ==
  ASSUME TypeOK, Numbering, Counts,
         performed' = performed, resent' = resent, calls' = calls,
         \A u \in Tasks : ~At(u, "idle")' =>
           ~At(u, "idle") /\ task'[u].call = task[u].call /\ Allowance(u) <= Allowance(u)',
         \A n \in Numbers : Pending(n)' => Pending(n)
  PROVE  Counts'
<1>1. \A u \in Tasks : ~At(u, "idle")' => (resent[task[u].call] <= Allowance(u))'
  <2> SUFFICES ASSUME NEW u \in Tasks, ~At(u, "idle")'
               PROVE  (resent[task[u].call] <= Allowance(u))'
    OBVIOUS
  <2>1. Allowance(u) \in Nat /\ Allowance(u)' \in Nat
    BY DEF Allowance
  <2>2. ~At(u, "idle")
    OBVIOUS
  <2>3. task[u].call \in Numbers /\ resent[task[u].call] \in Nat
    BY <2>2, McpBoundsAssumption DEF Numbering, TypeOK, Numbers
  <2>4. QED
    BY <2>1, <2>2, <2>3 DEF Counts
<1>2. QED
  BY <1>1 DEF Counts


-----------------------------------------------------------------------------
(* Every step keeps the invariant. *)

LEMMA AcquireKeeps ==
  ASSUME IInv, NEW t \in Tasks, Acquire(t)
  PROVE  IInv'
<1> USE DEF IInv
<1>1. MovesTo(t, "posting")
  BY Moved DEF Acquire, Phases
<1>2. /\ At(t, "queued") /\ io = "none" /\ io' = t /\ lock' = lock
      /\ session' = session /\ live' = live /\ created' = created
      /\ running' = running /\ performed' = performed /\ resent' = resent
      /\ broken' = broken /\ givenUp' = givenUp
      /\ calls' = calls /\ forgets' = forgets
      /\ faults' = faults
      /\ outcome' = outcome
  BY DEF Acquire, At, End, None, clientVars, serverVars, historyVars
<1> USE Fields DEF MovesTo, Turns
<1>3. TypeOK'
  BY <1>1, <1>2, McpBoundsAssumption DEF TypeOK, Numbers, Numbering, Running, None, At,
     Handshaking, Sending, Exchanging
<1>4. Locks'
  BY <1>1, <1>2, TasksAssumption DEF Locks, At, Handshaking, Sending, Exchanging
<1>5. Numbering'
  BY <1>1, <1>2 DEF Numbering, TypeOK, At, Handshaking, Sending, Exchanging
<1>6. Awaited'
  BY <1>1, <1>2 DEF Awaited, Running, Numbering, At, Handshaking, Sending, Exchanging
<1>7. Counts'
  <2>1. \A u \in Tasks : ~At(u, "idle")' =>
         ~At(u, "idle") /\ task'[u].call = task[u].call /\ Allowance(u) <= Allowance(u)'
    BY <1>1, <1>2 DEF Allowance, Locks, At, Handshaking, Sending, Exchanging
  <2>2. \A n \in Numbers : Pending(n)' => Pending(n)
    BY <1>1, <1>2 DEF Pending, Running, At, Handshaking, Sending, Exchanging
  <2>3. QED
    BY <1>2, <2>1, <2>2, CountsStay
<1>8. SessionsKept'
  <2>1. \A u \in Tasks : task'[u].seen <= forgets'
    BY <1>1, <1>2 DEF SessionsKept, TypeOK
  <2>2. ASSUME ~broken' PROVE SessionAtHand'
    BY <1>1, <1>2, <2>2 DEF SessionsKept, SessionAtHand, Locks, None, At, Handshaking, Sending,
       Exchanging
  <2>3. ASSUME ~broken' PROVE Reliable'
    BY <1>1, <1>2, <2>3 DEF SessionsKept, SessionAtHand, Reliable, Locks, None, At, Handshaking,
       Sending, Exchanging
  <2>4. ASSUME ~broken' PROVE NeverLostAtOnce'
    BY <1>1, <1>2, <2>4 DEF SessionsKept, NeverLostAtOnce, TypeOK
  <2>5. QED
    BY <2>1, <2>2, <2>3, <2>4 DEF SessionsKept
<1>9. QED
  BY <1>3, <1>4, <1>5, <1>6, <1>7, <1>8

LEMMA PostKeeps ==
  ASSUME IInv, NEW t \in Tasks, Post(t)
  PROVE  IInv'
<1> USE DEF IInv
<1>1. Turns(t, "posted", task[t].call, session, task[t].replay, FALSE, task[t].seen)
  BY PostTurns
<1>2. /\ At(t, "posting") /\ lock' = lock /\ io' = io
      /\ session' = session /\ live' = live /\ created' = created
      /\ running' = running /\ performed' = performed /\ resent' = resent
      /\ broken' = broken /\ givenUp' = givenUp
      /\ calls' = calls /\ forgets' = forgets
      /\ faults' = faults
      /\ outcome' = outcome
  BY DEF Post, At, End, None, clientVars, serverVars, historyVars
<1> USE Fields DEF MovesTo, Turns
<1>3. TypeOK'
  BY <1>1, <1>2, McpBoundsAssumption DEF TypeOK, Numbers, Numbering, Running, None, At,
     Handshaking, Sending, Exchanging
<1>4. Locks'
  BY <1>1, <1>2, TasksAssumption DEF Locks, At, Handshaking, Sending, Exchanging
<1>5. Numbering'
  BY <1>1, <1>2 DEF Numbering, TypeOK, At, Handshaking, Sending, Exchanging
<1>6. Awaited'
  BY <1>1, <1>2 DEF Awaited, Running, Numbering, At, Handshaking, Sending, Exchanging
<1>7. Counts'
  <2>1. \A u \in Tasks : ~At(u, "idle")' =>
         ~At(u, "idle") /\ task'[u].call = task[u].call /\ Allowance(u) <= Allowance(u)'
    BY <1>1, <1>2 DEF Allowance, At, Handshaking, Sending, Exchanging
  <2>2. \A n \in Numbers : Pending(n)' => Pending(n)
    BY <1>1, <1>2 DEF Pending, Running, At, Handshaking, Sending, Exchanging
  <2>3. QED
    BY <1>2, <2>1, <2>2, CountsStay
<1>8. SessionsKept'
  <2>1. \A u \in Tasks : task'[u].seen <= forgets'
    BY <1>1, <1>2 DEF SessionsKept, TypeOK
  <2>2. ASSUME ~broken' PROVE SessionAtHand'
    BY <1>1, <1>2, <2>2 DEF SessionsKept, SessionAtHand, Locks, None, At, Handshaking, Sending,
       Exchanging
  <2>3. ASSUME ~broken' PROVE Reliable'
    BY <1>1, <1>2, <2>3 DEF SessionsKept, SessionAtHand, Reliable, Locks, None, At, Handshaking,
       Sending, Exchanging
  <2>4. ASSUME ~broken' PROVE NeverLostAtOnce'
    BY <1>1, <1>2, <2>4 DEF SessionsKept, NeverLostAtOnce, TypeOK
  <2>5. QED
    BY <2>1, <2>2, <2>3, <2>4 DEF SessionsKept
<1>9. QED
  BY <1>3, <1>4, <1>5, <1>6, <1>7, <1>8

LEMMA ReceiveKeeps ==
  ASSUME IInv, NEW t \in Tasks, Receive(t)
  PROVE  IInv'
<1> USE DEF IInv
<1>1. MovesTo(t, "received")
  BY Moved DEF Receive, Phases
<1>2. /\ At(t, "posted") /\ lock' = lock /\ io' = io
      /\ running' = running \cup {[call |-> task[t].call, session |-> task[t].header]}
      /\ performed' = performed /\ resent' = resent
      /\ session' = session /\ live' = live /\ created' = created
      /\ broken' = broken /\ givenUp' = givenUp
      /\ calls' = calls /\ forgets' = forgets
      /\ faults' = faults
      /\ outcome' = outcome
  BY DEF Receive, At, End, None, clientVars, serverVars, historyVars
<1> USE Fields DEF MovesTo, Turns
<1>3. TypeOK'
  <2>1. [call |-> task[t].call, session |-> task[t].header] \in [call: Numbers, session: Nat]
    BY <1>2 DEF Numbering, TypeOK, Numbers, At
  <2>2. running' \subseteq [call: Numbers, session: Nat]
    BY <1>2, <2>1 DEF TypeOK
  <2>3. QED
    BY <1>1, <1>2, <2>1, <2>2, McpBoundsAssumption DEF TypeOK, None
<1>4. Locks'
  BY <1>1, <1>2, TasksAssumption DEF Locks, At, Handshaking, Sending, Exchanging
<1>5. Numbering'
  BY <1>1, <1>2 DEF Numbering, TypeOK, At, Handshaking, Sending, Exchanging
<1>6. Awaited'
  BY <1>1, <1>2 DEF Awaited, Running, Numbering, At, Handshaking, Sending, Exchanging
<1>7. Counts'
  <2>1. \A u \in Tasks : ~At(u, "idle")' =>
         ~At(u, "idle") /\ task'[u].call = task[u].call /\ Allowance(u) <= Allowance(u)'
    BY <1>1, <1>2 DEF Allowance, At, Handshaking, Sending, Exchanging
  <2>2. \A n \in Numbers : Pending(n)' => Pending(n)
    BY <1>1, <1>2 DEF Pending, Running, At, Handshaking, Sending, Exchanging
  <2>3. QED
    BY <1>2, <2>1, <2>2, CountsStay
<1>8. SessionsKept'
  <2>1. \A u \in Tasks : task'[u].seen <= forgets'
    BY <1>1, <1>2 DEF SessionsKept, TypeOK
  <2>2. ASSUME ~broken' PROVE SessionAtHand'
    BY <1>1, <1>2, <2>2 DEF SessionsKept, SessionAtHand, Locks, None, At, Handshaking, Sending,
       Exchanging
  <2>3. ASSUME ~broken' PROVE Reliable'
    BY <1>1, <1>2, <2>3 DEF SessionsKept, SessionAtHand, Reliable, Locks, None, At, Handshaking,
       Sending, Exchanging
  <2>4. ASSUME ~broken' PROVE NeverLostAtOnce'
    BY <1>1, <1>2, <2>4 DEF SessionsKept, NeverLostAtOnce, TypeOK
  <2>5. QED
    BY <2>1, <2>2, <2>3, <2>4 DEF SessionsKept
<1>9. QED
  BY <1>3, <1>4, <1>5, <1>6, <1>7, <1>8

\* A new call has a number nobody has, and nothing has happened to it.
LEMMA RequestKeeps ==
  ASSUME IInv, NEW t \in Tasks, Request(t)
  PROVE  IInv'
<1> USE DEF IInv
<1>1. Turns(t, IF session = 0 THEN "ensuring" ELSE "queued", calls + 1, 0, FALSE, FALSE, 0)
  BY RequestTurns
<1>2. /\ At(t, "idle") /\ calls < MaxCalls /\ lock' = lock /\ io' = io
      /\ session' = session /\ live' = live /\ created' = created
      /\ running' = running /\ performed' = performed /\ resent' = resent
      /\ broken' = broken /\ givenUp' = givenUp
      /\ calls' = calls + 1 /\ forgets' = forgets
      /\ faults' = faults
      /\ outcome' = outcome
  BY DEF Request, At, End, None, clientVars, serverVars, historyVars
<1> USE Fields DEF MovesTo, Turns
<1>3. TypeOK'
  BY <1>1, <1>2, McpBoundsAssumption DEF TypeOK, Numbers, Numbering, Running, None, At,
     Handshaking, Sending, Exchanging
<1>4. Locks'
  BY <1>1, <1>2, TasksAssumption DEF Locks, At, Handshaking, Sending, Exchanging
<1>5. Numbering'
  BY <1>1, <1>2 DEF Numbering, TypeOK, At, Handshaking, Sending, Exchanging
<1>6. Awaited'
  BY <1>1, <1>2 DEF Awaited, Running, Numbering, At, Handshaking, Sending, Exchanging
<1>7. Counts'
  <2>1. calls + 1 \in Numbers /\ resent[calls + 1] = 0 /\ performed[calls + 1] = 0
    BY <1>2, McpBoundsAssumption DEF Counts, TypeOK, Numbers
  <2>2. \A u \in Tasks : u # t /\ ~At(u, "idle")' => Allowance(u)' = Allowance(u) /\ task'[u] = task[u]
    BY <1>1 DEF Allowance, Exchanging
  <2>3. Allowance(t)' = 0 /\ task'[t].call = calls + 1
    BY <1>1 DEF Allowance
  <2>4. \A n \in Numbers : Pending(n)' => n = calls + 1 \/ Pending(n)
    BY <1>1, <1>2 DEF Pending, Running, At
  <2>5. \A u \in Tasks : ~At(u, "idle")' => (resent[task[u].call] <= Allowance(u))'
    BY <1>2, <2>1, <2>2, <2>3 DEF Counts, At
  <2>6. \A n \in Numbers :
        /\ n > calls' => performed'[n] = 0 /\ resent'[n] = 0
        /\ performed'[n] <= 1 + resent'[n] /\ performed'[n] <= 3
        /\ Pending(n)' => performed'[n] <= resent'[n] /\ resent'[n] <= 2
    BY <1>2, <2>1, <2>4, McpBoundsAssumption DEF Counts, TypeOK, Numbers
  <2>7. QED
    BY <2>1, <2>2, <2>3, <2>4, <2>5, <2>6 DEF Counts, At
<1>8. SessionsKept'
  <2>1. \A u \in Tasks : task'[u].seen <= forgets'
    BY <1>1, <1>2 DEF SessionsKept, TypeOK
  <2>2. ASSUME ~broken' PROVE SessionAtHand'
    BY <1>1, <1>2, <2>2 DEF SessionsKept, SessionAtHand, Locks, None, At, Handshaking, Sending,
       Exchanging
  <2>3. ASSUME ~broken' PROVE Reliable'
    BY <1>1, <1>2, <2>3 DEF SessionsKept, SessionAtHand, Reliable, Locks, None, At, Handshaking,
       Sending, Exchanging
  <2>4. ASSUME ~broken' PROVE NeverLostAtOnce'
    BY <1>1, <1>2, <2>4 DEF SessionsKept, NeverLostAtOnce, TypeOK
  <2>5. QED
    BY <2>1, <2>2, <2>3, <2>4 DEF SessionsKept
<1>9. QED
  BY <1>3, <1>4, <1>5, <1>6, <1>7, <1>8

\* The session the client adopts is one the server knows.
LEMMA InitializedKeeps ==
  ASSUME IInv, NEW t \in Tasks, Initialized(t)
  PROVE  IInv'
<1> USE DEF IInv
<1>1. MovesTo(t, "notifying")
  BY Moved DEF Initialized, Phases
<1>2. /\ At(t, "handshake") /\ lock' = lock /\ io' = io
      /\ session' = created + 1 /\ live' = live \cup {created + 1} /\ created' = created + 1
      /\ running' = running /\ performed' = performed /\ resent' = resent
      /\ broken' = broken /\ givenUp' = givenUp
      /\ calls' = calls /\ forgets' = forgets
      /\ faults' = faults
      /\ outcome' = outcome
  BY DEF Initialized, Adopt, At, End, None, clientVars, serverVars, historyVars
<1> USE Fields DEF MovesTo, Turns
<1>3. TypeOK'
  BY <1>1, <1>2, McpBoundsAssumption DEF TypeOK, Numbers, Numbering, Running, None, At,
     Handshaking, Sending, Exchanging
<1>4. Locks'
  BY <1>1, <1>2, TasksAssumption DEF Locks, At, Handshaking, Sending, Exchanging
<1>5. Numbering'
  BY <1>1, <1>2 DEF Numbering, TypeOK, At, Handshaking, Sending, Exchanging
<1>6. Awaited'
  BY <1>1, <1>2 DEF Awaited, Running, Numbering, At, Handshaking, Sending, Exchanging
<1>7. Counts'
  <2>1. \A u \in Tasks : ~At(u, "idle")' =>
         ~At(u, "idle") /\ task'[u].call = task[u].call /\ Allowance(u) <= Allowance(u)'
    BY <1>1, <1>2 DEF Allowance, At, Handshaking, Sending, Exchanging
  <2>2. \A n \in Numbers : Pending(n)' => Pending(n)
    BY <1>1, <1>2 DEF Pending, Running, At, Handshaking, Sending, Exchanging
  <2>3. QED
    BY <1>2, <2>1, <2>2, CountsStay
<1>8. SessionsKept'
  <2>1. \A u \in Tasks : task'[u].seen <= forgets'
    BY <1>1, <1>2 DEF SessionsKept, TypeOK
  <2>2. ASSUME ~broken' PROVE SessionAtHand'
    BY <1>1, <1>2, <2>2 DEF TypeOK, SessionsKept, SessionAtHand, Locks, None, At, Handshaking,
       Sending, Exchanging
  <2>3. ASSUME ~broken' PROVE Reliable'
    BY <1>1, <1>2, <2>3 DEF TypeOK, SessionsKept, SessionAtHand, Reliable, Locks, None, At,
       Handshaking, Sending, Exchanging
  <2>4. ASSUME ~broken' PROVE NeverLostAtOnce'
    BY <1>1, <1>2, <2>4 DEF TypeOK, SessionsKept, NeverLostAtOnce, TypeOK
  <2>5. QED
    BY <2>1, <2>2, <2>3, <2>4 DEF SessionsKept
<1>9. QED
  BY <1>3, <1>4, <1>5, <1>6, <1>7, <1>8

\* Without a session and without a failed handshake nobody has a call on the way.
LEMMA EnsureHandshakeKeeps ==
  ASSUME IInv, NEW t \in Tasks, EnsureSession(t), session = 0
  PROVE  IInv'
<1> USE DEF IInv
<1>1. Turns(t, "handshake", task[t].call, task[t].header, task[t].replay, task[t].again, forgets)
  BY EnsureTurns
<1>2. /\ At(t, "ensuring") /\ lock = "none" /\ lock' = t /\ io' = io
      /\ session' = session /\ live' = live /\ created' = created
      /\ running' = running /\ performed' = performed /\ resent' = resent
      /\ broken' = broken /\ givenUp' = givenUp
      /\ calls' = calls /\ forgets' = forgets
      /\ faults' = faults
      /\ outcome' = outcome
  BY DEF EnsureSession, At, End, None, clientVars, serverVars, historyVars
<1> USE Fields DEF MovesTo, Turns
<1>3. TypeOK'
  BY <1>1, <1>2, McpBoundsAssumption DEF TypeOK, Numbers, Numbering, Running, None, At,
     Handshaking, Sending, Exchanging
<1>4. Locks'
  BY <1>1, <1>2, TasksAssumption DEF Locks, At, Handshaking, Sending, Exchanging
<1>5. Numbering'
  BY <1>1, <1>2 DEF Numbering, TypeOK, At, Handshaking, Sending, Exchanging
<1>6. Awaited'
  BY <1>1, <1>2 DEF Awaited, Running, Numbering, At, Handshaking, Sending, Exchanging
<1>7. Counts'
  <2>1. \A u \in Tasks : ~At(u, "idle")' =>
         ~At(u, "idle") /\ task'[u].call = task[u].call /\ Allowance(u) <= Allowance(u)'
    BY <1>1, <1>2 DEF Allowance, At, Handshaking, Sending, Exchanging
  <2>2. \A n \in Numbers : Pending(n)' => Pending(n)
    BY <1>1, <1>2 DEF Pending, Running, At, Handshaking, Sending, Exchanging
  <2>3. QED
    BY <1>2, <2>1, <2>2, CountsStay
<1>8. SessionsKept'
  <2>1. \A u \in Tasks : task'[u].seen <= forgets'
    BY <1>1, <1>2 DEF SessionsKept, TypeOK
  <2>2. ASSUME ~broken' PROVE SessionAtHand'
    BY <1>1, <1>2, <2>2 DEF SessionsKept, SessionAtHand, Locks, None, At, Handshaking, Sending,
       Exchanging
  <2>3. ASSUME ~broken' PROVE Reliable'
    BY <1>1, <1>2, <2>3 DEF SessionsKept, SessionAtHand, Reliable, Locks, None, At, Handshaking,
       Sending, Exchanging
  <2>4. ASSUME ~broken' PROVE NeverLostAtOnce'
    BY <1>1, <1>2, <2>4 DEF SessionsKept, NeverLostAtOnce, TypeOK
  <2>5. QED
    BY <2>1, <2>2, <2>3, <2>4 DEF SessionsKept
<1>9. QED
  BY <1>3, <1>4, <1>5, <1>6, <1>7, <1>8

LEMMA EnsureQueuedKeeps ==
  ASSUME IInv, NEW t \in Tasks, EnsureSession(t), session # 0
  PROVE  IInv'
<1> USE DEF IInv
<1>1. MovesTo(t, "queued")
  BY Moved DEF EnsureSession, Phases
<1>2. /\ At(t, "ensuring") /\ lock' = lock /\ io' = io
      /\ session' = session /\ live' = live /\ created' = created
      /\ running' = running /\ performed' = performed /\ resent' = resent
      /\ broken' = broken /\ givenUp' = givenUp
      /\ calls' = calls /\ forgets' = forgets
      /\ faults' = faults
      /\ outcome' = outcome
  BY DEF EnsureSession, At, End, None, clientVars, serverVars, historyVars
<1> USE Fields DEF MovesTo, Turns
<1>3. TypeOK'
  BY <1>1, <1>2, McpBoundsAssumption DEF TypeOK, Numbers, Numbering, Running, None, At,
     Handshaking, Sending, Exchanging
<1>4. Locks'
  BY <1>1, <1>2, TasksAssumption DEF Locks, At, Handshaking, Sending, Exchanging
<1>5. Numbering'
  BY <1>1, <1>2 DEF Numbering, TypeOK, At, Handshaking, Sending, Exchanging
<1>6. Awaited'
  BY <1>1, <1>2 DEF Awaited, Running, Numbering, At, Handshaking, Sending, Exchanging
<1>7. Counts'
  <2>1. \A u \in Tasks : ~At(u, "idle")' =>
         ~At(u, "idle") /\ task'[u].call = task[u].call /\ Allowance(u) <= Allowance(u)'
    BY <1>1, <1>2 DEF Allowance, At, Handshaking, Sending, Exchanging
  <2>2. \A n \in Numbers : Pending(n)' => Pending(n)
    BY <1>1, <1>2 DEF Pending, Running, At, Handshaking, Sending, Exchanging
  <2>3. QED
    BY <1>2, <2>1, <2>2, CountsStay
<1>8. SessionsKept'
  <2>1. \A u \in Tasks : task'[u].seen <= forgets'
    BY <1>1, <1>2 DEF SessionsKept, TypeOK
  <2>2. ASSUME ~broken' PROVE SessionAtHand'
    BY <1>1, <1>2, <2>2 DEF SessionsKept, SessionAtHand, Locks, None, At, Handshaking, Sending,
       Exchanging
  <2>3. ASSUME ~broken' PROVE Reliable'
    BY <1>1, <1>2, <2>3 DEF SessionsKept, SessionAtHand, Reliable, Locks, None, At, Handshaking,
       Sending, Exchanging
  <2>4. ASSUME ~broken' PROVE NeverLostAtOnce'
    BY <1>1, <1>2, <2>4 DEF SessionsKept, NeverLostAtOnce, TypeOK
  <2>5. QED
    BY <2>1, <2>2, <2>3, <2>4 DEF SessionsKept
<1>9. QED
  BY <1>3, <1>4, <1>5, <1>6, <1>7, <1>8

LEMMA NotifiedEnsuringKeeps ==
  ASSUME IInv, NEW t \in Tasks, Notified(t), lock = t
  PROVE  IInv'
<1> USE DEF IInv
<1>1. MovesTo(t, "queued")
  BY Moved DEF Notified, Phases
<1>2. /\ At(t, "notifying") /\ session \in live /\ lock' = "none" /\ io' = io
      /\ session' = session /\ live' = live /\ created' = created
      /\ running' = running /\ performed' = performed /\ resent' = resent
      /\ broken' = broken /\ givenUp' = givenUp
      /\ calls' = calls /\ forgets' = forgets
      /\ faults' = faults
      /\ outcome' = outcome
  BY DEF Notified, At, End, None, clientVars, serverVars, historyVars
<1> USE Fields DEF MovesTo, Turns
<1>3. TypeOK'
  BY <1>1, <1>2, McpBoundsAssumption DEF TypeOK, Numbers, Numbering, Running, None, At,
     Handshaking, Sending, Exchanging
<1>4. Locks'
  BY <1>1, <1>2, TasksAssumption DEF Locks, At, Handshaking, Sending, Exchanging
<1>5. Numbering'
  BY <1>1, <1>2 DEF Numbering, TypeOK, At, Handshaking, Sending, Exchanging
<1>6. Awaited'
  BY <1>1, <1>2 DEF Awaited, Running, Numbering, At, Handshaking, Sending, Exchanging
<1>7. Counts'
  <2>1. \A u \in Tasks : ~At(u, "idle")' =>
         ~At(u, "idle") /\ task'[u].call = task[u].call /\ Allowance(u) <= Allowance(u)'
    BY <1>1, <1>2 DEF Allowance, At, Handshaking, Sending, Exchanging
  <2>2. \A n \in Numbers : Pending(n)' => Pending(n)
    BY <1>1, <1>2 DEF Pending, Running, At, Handshaking, Sending, Exchanging
  <2>3. QED
    BY <1>2, <2>1, <2>2, CountsStay
<1>8. SessionsKept'
  <2>1. \A u \in Tasks : task'[u].seen <= forgets'
    BY <1>1, <1>2 DEF SessionsKept, TypeOK
  <2>2. ASSUME ~broken' PROVE SessionAtHand'
    BY <1>1, <1>2, <2>2 DEF TypeOK, SessionsKept, SessionAtHand, Locks, None, At, Handshaking,
       Sending, Exchanging
  <2>3. ASSUME ~broken' PROVE Reliable'
    BY <1>1, <1>2, <2>3 DEF TypeOK, SessionsKept, SessionAtHand, Reliable, Locks, None, At,
       Handshaking, Sending, Exchanging
  <2>4. ASSUME ~broken' PROVE NeverLostAtOnce'
    BY <1>1, <1>2, <2>4 DEF TypeOK, SessionsKept, NeverLostAtOnce, TypeOK
  <2>5. QED
    BY <2>1, <2>2, <2>3, <2>4 DEF SessionsKept
<1>9. QED
  BY <1>3, <1>4, <1>5, <1>6, <1>7, <1>8

LEMMA NotifiedReplayingKeeps ==
  ASSUME IInv, NEW t \in Tasks, Notified(t), lock # t
  PROVE  IInv'
<1> USE DEF IInv
<1>1. MovesTo(t, "posting")
  BY Moved DEF Notified, Phases
<1>2. /\ At(t, "notifying") /\ session \in live /\ lock' = lock /\ io' = io
      /\ session' = session /\ live' = live /\ created' = created
      /\ running' = running /\ performed' = performed /\ resent' = resent
      /\ broken' = broken /\ givenUp' = givenUp
      /\ calls' = calls /\ forgets' = forgets
      /\ faults' = faults
      /\ outcome' = outcome
  BY DEF Notified, At, End, None, clientVars, serverVars, historyVars
<1> USE Fields DEF MovesTo, Turns
<1>3. TypeOK'
  BY <1>1, <1>2, McpBoundsAssumption DEF TypeOK, Numbers, Numbering, Running, None, At,
     Handshaking, Sending, Exchanging
<1>4. Locks'
  BY <1>1, <1>2, TasksAssumption DEF Locks, At, Handshaking, Sending, Exchanging
<1>5. Numbering'
  BY <1>1, <1>2 DEF Numbering, TypeOK, At, Handshaking, Sending, Exchanging
<1>6. Awaited'
  BY <1>1, <1>2 DEF Awaited, Running, Numbering, At, Handshaking, Sending, Exchanging
<1>7. Counts'
  <2>1. \A u \in Tasks : ~At(u, "idle")' =>
         ~At(u, "idle") /\ task'[u].call = task[u].call /\ Allowance(u) <= Allowance(u)'
    BY <1>1, <1>2 DEF Allowance, At, Handshaking, Sending, Exchanging
  <2>2. \A n \in Numbers : Pending(n)' => Pending(n)
    BY <1>1, <1>2 DEF Pending, Running, At, Handshaking, Sending, Exchanging
  <2>3. QED
    BY <1>2, <2>1, <2>2, CountsStay
<1>8. SessionsKept'
  <2>1. \A u \in Tasks : task'[u].seen <= forgets'
    BY <1>1, <1>2 DEF SessionsKept, TypeOK
  <2>2. ASSUME ~broken' PROVE SessionAtHand'
    BY <1>1, <1>2, <2>2 DEF SessionsKept, SessionAtHand, Locks, None, At, Handshaking, Sending,
       Exchanging
  <2>3. ASSUME ~broken' PROVE Reliable'
    BY <1>1, <1>2, <2>3 DEF SessionsKept, SessionAtHand, Reliable, Locks, None, At, Handshaking,
       Sending, Exchanging
  <2>4. ASSUME ~broken' PROVE NeverLostAtOnce'
    BY <1>1, <1>2, <2>4 DEF SessionsKept, NeverLostAtOnce, TypeOK
  <2>5. QED
    BY <2>1, <2>2, <2>3, <2>4 DEF SessionsKept
<1>9. QED
  BY <1>3, <1>4, <1>5, <1>6, <1>7, <1>8

\* Whoever began a handshake since the server forgot something rules this step out.
LEMMA ReinitialiseKeeps ==
  ASSUME IInv, NEW t \in Tasks, Reinitialise(t)
  PROVE  IInv'
<1> USE DEF IInv
<1>1. Turns(t, "handshake", task[t].call, task[t].header, TRUE, task[t].again, forgets)
  BY ReinitialiseTurns
<1>2. /\ At(t, "posted") /\ task[t].header \notin live /\ ~task[t].replay /\ lock' = lock /\ io' = io
      /\ session' = 0 /\ live' = live /\ created' = created
      /\ running' = running /\ performed' = performed /\ resent' = resent
      /\ broken' = broken /\ givenUp' = givenUp
      /\ calls' = calls /\ forgets' = forgets
      /\ faults' = faults
      /\ outcome' = outcome
  BY DEF Reinitialise, Lost, At, End, None, clientVars, serverVars, historyVars
<1> USE Fields DEF MovesTo, Turns
<1>3. TypeOK'
  BY <1>1, <1>2, McpBoundsAssumption DEF TypeOK, Numbers, Numbering, Running, None, At,
     Handshaking, Sending, Exchanging
<1>4. Locks'
  BY <1>1, <1>2, TasksAssumption DEF Locks, At, Handshaking, Sending, Exchanging
<1>5. Numbering'
  BY <1>1, <1>2 DEF Numbering, TypeOK, At, Handshaking, Sending, Exchanging
<1>6. Awaited'
  BY <1>1, <1>2 DEF Awaited, Running, Numbering, At, Handshaking, Sending, Exchanging
<1>7. Counts'
  <2>1. \A u \in Tasks : ~At(u, "idle")' =>
         ~At(u, "idle") /\ task'[u].call = task[u].call /\ Allowance(u) <= Allowance(u)'
    BY <1>1, <1>2 DEF Allowance, At, Handshaking, Sending, Exchanging
  <2>2. \A n \in Numbers : Pending(n)' => Pending(n)
    BY <1>1, <1>2 DEF Pending, Running, At, Handshaking, Sending, Exchanging
  <2>3. QED
    BY <1>2, <2>1, <2>2, CountsStay
<1>8. SessionsKept'
  <2>1. \A u \in Tasks : task'[u].seen <= forgets'
    BY <1>1, <1>2 DEF SessionsKept, TypeOK
  <2>2. ASSUME ~broken' PROVE SessionAtHand'
    BY TasksAssumption, <1>1, <1>2, <2>2 DEF SessionsKept, SessionAtHand, Locks, None, At,
       Handshaking, Sending, Exchanging
  <2>3. ASSUME ~broken' PROVE Reliable'
    BY <1>1, <1>2, <2>3 DEF SessionsKept, SessionAtHand, Reliable, Locks, None, At, Handshaking,
       Sending, Exchanging
  <2>4. ASSUME ~broken' PROVE NeverLostAtOnce'
    BY <1>1, <1>2, <2>4 DEF SessionsKept, NeverLostAtOnce, TypeOK
  <2>5. QED
    BY <2>1, <2>2, <2>3, <2>4 DEF SessionsKept
<1>9. QED
  BY <1>3, <1>4, <1>5, <1>6, <1>7, <1>8

\* What a failed handshake leaves behind is excused.
LEMMA HandshakeFailsKeeps ==
  ASSUME IInv, NEW t \in Tasks, HandshakeFails(t)
  PROVE  IInv'
<1> USE DEF IInv
<1>1. Turns(t, "idle", 0, 0, FALSE, FALSE, 0)
  BY Ended DEF HandshakeFails
<1>2. /\ Handshaking(t)
      /\ lock' = IF lock = t THEN "none" ELSE lock
      /\ io' = IF io = t THEN "none" ELSE io
      /\ outcome' = [outcome EXCEPT ![task[t].call] = "failed"]
      /\ session' = session /\ live' = live /\ created' = created
      /\ running' = running /\ performed' = performed /\ resent' = resent
      /\ broken' = TRUE /\ givenUp' = givenUp
      /\ calls' = calls /\ forgets' = forgets
      /\ faults' = faults + 1 /\ faults < MaxFaults
  BY DEF HandshakeFails, Handshaking, At, End, None, clientVars, serverVars, historyVars
<1> USE Fields DEF MovesTo, Turns
<1>3. TypeOK'
  BY <1>1, <1>2, McpBoundsAssumption DEF TypeOK, Numbers, Numbering, Running, None, At,
     Handshaking, Sending, Exchanging
<1>4. Locks'
  BY <1>1, <1>2, TasksAssumption DEF Locks, At, Handshaking, Sending, Exchanging
<1>5. Numbering'
  BY <1>1, <1>2 DEF Numbering, TypeOK, At, Handshaking, Sending, Exchanging
<1>6. Awaited'
  BY <1>1, <1>2 DEF Awaited, Running, Numbering, At, Handshaking, Sending, Exchanging
<1>7. Counts'
  <2>1. \A u \in Tasks : ~At(u, "idle")' =>
         ~At(u, "idle") /\ task'[u].call = task[u].call /\ Allowance(u) <= Allowance(u)'
    BY <1>1, <1>2 DEF Allowance, At, Handshaking, Sending, Exchanging
  <2>2. \A n \in Numbers : Pending(n)' => Pending(n)
    BY <1>1, <1>2 DEF Pending, Running, At, Handshaking, Sending, Exchanging
  <2>3. QED
    BY <1>2, <2>1, <2>2, CountsStay
<1>8. SessionsKept'
  <2>1. \A u \in Tasks : task'[u].seen <= forgets'
    BY <1>1, <1>2 DEF SessionsKept, TypeOK
  <2>2. ASSUME ~broken' PROVE SessionAtHand'
    BY <1>1, <1>2, <2>2 DEF SessionsKept, SessionAtHand, Locks, None, At, Handshaking, Sending,
       Exchanging
  <2>3. ASSUME ~broken' PROVE Reliable'
    BY <1>1, <1>2, <2>3 DEF SessionsKept, SessionAtHand, Reliable, Locks, None, At, Handshaking,
       Sending, Exchanging
  <2>4. ASSUME ~broken' PROVE NeverLostAtOnce'
    BY <1>1, <1>2, <2>4 DEF SessionsKept, NeverLostAtOnce, TypeOK
  <2>5. QED
    BY <2>1, <2>2, <2>3, <2>4 DEF SessionsKept
<1>9. QED
  BY <1>3, <1>4, <1>5, <1>6, <1>7, <1>8

\* A session lost at once contradicts Reliable.
LEMMA LostAgainKeeps ==
  ASSUME IInv, NEW t \in Tasks, LostAgain(t)
  PROVE  IInv'
<1> USE DEF IInv
<1>1. Turns(t, "idle", 0, 0, FALSE, FALSE, 0)
  BY Ended DEF LostAgain
<1>2. /\ \/ At(t, "posted") /\ task[t].header \notin live /\ task[t].replay
         \/ At(t, "notifying") /\ session \notin live
      /\ lock' = IF lock = t THEN "none" ELSE lock
      /\ io' = IF io = t THEN "none" ELSE io
      /\ outcome' = [outcome EXCEPT ![task[t].call] =
                    IF task[t].seen = forgets THEN "lostAtOnce" ELSE "lost"]
      /\ session' = session /\ live' = live /\ created' = created
      /\ running' = running /\ performed' = performed /\ resent' = resent
      /\ broken' = broken /\ givenUp' = givenUp
      /\ calls' = calls /\ forgets' = forgets
      /\ faults' = faults
  BY DEF LostAgain, Lost, At, End, None, clientVars, serverVars, historyVars
<1> USE Fields DEF MovesTo, Turns
<1>3. TypeOK'
  BY <1>1, <1>2, McpBoundsAssumption DEF TypeOK, Numbers, Numbering, Running, None, At,
     Handshaking, Sending, Exchanging
<1>4. Locks'
  BY <1>1, <1>2, TasksAssumption DEF Locks, At, Handshaking, Sending, Exchanging
<1>5. Numbering'
  BY <1>1, <1>2 DEF Numbering, TypeOK, At, Handshaking, Sending, Exchanging
<1>6. Awaited'
  BY <1>1, <1>2 DEF Awaited, Running, Numbering, At, Handshaking, Sending, Exchanging
<1>7. Counts'
  <2>1. \A u \in Tasks : ~At(u, "idle")' =>
         ~At(u, "idle") /\ task'[u].call = task[u].call /\ Allowance(u) <= Allowance(u)'
    BY <1>1, <1>2 DEF Allowance, At, Handshaking, Sending, Exchanging
  <2>2. \A n \in Numbers : Pending(n)' => Pending(n)
    BY <1>1, <1>2 DEF Pending, Running, At, Handshaking, Sending, Exchanging
  <2>3. QED
    BY <1>2, <2>1, <2>2, CountsStay
<1>8. SessionsKept'
  <2>1. \A u \in Tasks : task'[u].seen <= forgets'
    BY <1>1, <1>2 DEF SessionsKept, TypeOK
  <2>2. ASSUME ~broken' PROVE SessionAtHand'
    BY <1>1, <1>2, <2>2 DEF SessionsKept, SessionAtHand, Locks, None, At, Handshaking, Sending,
       Exchanging
  <2>3. ASSUME ~broken' PROVE Reliable'
    BY <1>1, <1>2, <2>3 DEF SessionsKept, SessionAtHand, Reliable, Locks, None, At, Handshaking,
       Sending, Exchanging
  <2>4. ASSUME ~broken' PROVE NeverLostAtOnce'
    BY <1>1, <1>2, <2>4 DEF SessionAtHand, Reliable, Locks, At, Handshaking, Sending, Exchanging,
       SessionsKept, NeverLostAtOnce, TypeOK
  <2>5. QED
    BY <2>1, <2>2, <2>3, <2>4 DEF SessionsKept
<1>9. QED
  BY <1>3, <1>4, <1>5, <1>6, <1>7, <1>8

\* The allowance of the call bounds how often it was performed.
LEMMA AnswerKeeps ==
  ASSUME IInv, NEW t \in Tasks, Answer(t)
  PROVE  IInv'
<1> USE DEF IInv
<1>1. Turns(t, "idle", 0, 0, FALSE, FALSE, 0)
  BY Ended DEF Answer
<1>2. /\ At(t, "received") /\ Running(task[t].call) # {}
      /\ running' = running \ Running(task[t].call)
      /\ performed' = [performed EXCEPT ![task[t].call] = @ + 1] /\ resent' = resent
      /\ lock' = IF lock = t THEN "none" ELSE lock
      /\ io' = IF io = t THEN "none" ELSE io
      /\ outcome' = [outcome EXCEPT ![task[t].call] = "answered"]
      /\ session' = session /\ live' = live /\ created' = created
      /\ broken' = broken /\ givenUp' = givenUp
      /\ calls' = calls /\ forgets' = forgets
      /\ faults' = faults
  BY DEF Answer, At, End, None, clientVars, serverVars, historyVars
<1> USE Fields DEF MovesTo, Turns
<1>3. TypeOK'
  <2>1. task[t].call \in Numbers
    BY <1>2 DEF Numbering, TypeOK, Numbers, At
  <2>2. running' \subseteq running /\ running' \subseteq [call: Numbers, session: Nat]
    BY <1>2 DEF TypeOK
  <2>3. performed' \in [Numbers -> Nat]
    BY <1>2, <2>1 DEF TypeOK
  <2>4. QED
    BY <1>1, <1>2, <2>1, <2>2, <2>3, McpBoundsAssumption DEF TypeOK, None
<1>4. Locks'
  BY <1>1, <1>2, TasksAssumption DEF Locks, At, Handshaking, Sending, Exchanging
<1>5. Numbering'
  BY <1>1, <1>2 DEF Numbering, TypeOK, At, Handshaking, Sending, Exchanging
<1>6. Awaited'
  BY <1>1, <1>2 DEF Awaited, Running, Numbering, At, Handshaking, Sending, Exchanging
<1>7. Counts'
  <2>1. /\ task[t].call \in Numbers /\ task[t].call <= calls /\ Pending(task[t].call)
        /\ performed[task[t].call] \in Nat /\ resent[task[t].call] \in Nat
    BY <1>2 DEF Numbering, TypeOK, Numbers, At, Pending
  <2>2. \A u \in Tasks : ~At(u, "idle")' =>
        u # t /\ task'[u] = task[u] /\ task[u].call # task[t].call /\ Allowance(u)' = Allowance(u)
    BY <1>1, <1>2 DEF Numbering, At, Allowance, Exchanging
  <2>3. \A n \in Numbers : Pending(n)' => n # task[t].call /\ Pending(n)
    BY <1>1, <1>2, <2>2 DEF Pending, Running, At
  <2>4. \A u \in Tasks : ~At(u, "idle")' => (resent[task[u].call] <= Allowance(u))'
    BY <1>2, <2>1, <2>2 DEF Counts, Numbering, Numbers, TypeOK, At
  <2>5. /\ \A n \in Numbers : n # task[t].call =>
           performed'[n] = performed[n] /\ resent'[n] = resent[n]
        /\ performed'[task[t].call] = performed[task[t].call] + 1
        /\ resent'[task[t].call] = resent[task[t].call]
    BY <1>2, <2>1 DEF TypeOK
  <2>6. /\ performed[task[t].call] <= resent[task[t].call] /\ resent[task[t].call] <= 2
    BY <2>1 DEF Counts
  <2>7. \A n \in Numbers :
        /\ n > calls' => performed'[n] = 0 /\ resent'[n] = 0
        /\ performed'[n] <= 1 + resent'[n] /\ performed'[n] <= 3
        /\ Pending(n)' => performed'[n] <= resent'[n] /\ resent'[n] <= 2
    <3> SUFFICES ASSUME NEW n \in Numbers
                 PROVE  /\ n > calls' => performed'[n] = 0 /\ resent'[n] = 0
                        /\ performed'[n] <= 1 + resent'[n] /\ performed'[n] <= 3
                        /\ Pending(n)' => performed'[n] <= resent'[n] /\ resent'[n] <= 2
      OBVIOUS
    <3>1. performed[n] \in Nat /\ resent[n] \in Nat
      BY DEF TypeOK
    <3>2. CASE n = task[t].call
      <4>1. performed'[n] = performed[n] + 1 /\ resent'[n] = resent[n] /\ performed[n] <= resent[n]
        BY <2>5, <2>6, <3>2
      <4>2. resent[n] \in 0 .. 2
        BY <2>6, <3>1, <3>2
      <4>3. n <= calls /\ ~Pending(n)' /\ calls' = calls /\ calls \in Nat /\ n \in Nat
        BY <1>2, <2>1, <2>3, <3>2 DEF TypeOK, Numbers
      <4>4. QED
        BY <3>1, <4>1, <4>2, <4>3
    <3>3. CASE n # task[t].call
      BY <1>2, <3>1, <3>3, <2>3, <2>5, <2>6 DEF Counts
    <3>4. QED
      BY <3>2, <3>3
  <2>8. QED
    BY <2>1, <2>2, <2>3, <2>4, <2>5, <2>6, <2>7 DEF Counts, At
<1>8. SessionsKept'
  <2>1. \A u \in Tasks : task'[u].seen <= forgets'
    BY <1>1, <1>2 DEF SessionsKept, TypeOK
  <2>2. ASSUME ~broken' PROVE SessionAtHand'
    BY <1>1, <1>2, <2>2 DEF SessionsKept, SessionAtHand, Locks, None, At, Handshaking, Sending,
       Exchanging
  <2>3. ASSUME ~broken' PROVE Reliable'
    BY <1>1, <1>2, <2>3 DEF SessionsKept, SessionAtHand, Reliable, Locks, None, At, Handshaking,
       Sending, Exchanging
  <2>4. ASSUME ~broken' PROVE NeverLostAtOnce'
    BY <1>1, <1>2, <2>4 DEF SessionsKept, NeverLostAtOnce, TypeOK
  <2>5. QED
    BY <2>1, <2>2, <2>3, <2>4 DEF SessionsKept
<1>9. QED
  BY <1>3, <1>4, <1>5, <1>6, <1>7, <1>8

\* The server may go on with a call nobody waits for.
LEMMA TimeOutKeeps ==
  ASSUME IInv, NEW t \in Tasks, TimeOut(t)
  PROVE  IInv'
<1> USE DEF IInv
<1>1. Turns(t, "idle", 0, 0, FALSE, FALSE, 0)
  BY Ended DEF TimeOut
<1>2. /\ At(t, "received")
      /\ lock' = IF lock = t THEN "none" ELSE lock
      /\ io' = IF io = t THEN "none" ELSE io
      /\ outcome' = [outcome EXCEPT ![task[t].call] = "failed"]
      /\ session' = session /\ live' = live /\ created' = created
      /\ running' = running /\ performed' = performed /\ resent' = resent
      /\ broken' = broken /\ givenUp' = givenUp \cup {task[t].call}
      /\ calls' = calls /\ forgets' = forgets
      /\ faults' = faults + 1 /\ faults < MaxFaults
  BY DEF TimeOut, At, End, None, clientVars, serverVars, historyVars
<1> USE Fields DEF MovesTo, Turns
<1>3. TypeOK'
  <2>1. task[t].call \in Numbers
    BY <1>2 DEF Numbering, TypeOK, Numbers, At
  <2>2. givenUp' \subseteq Numbers
    BY <1>2, <2>1 DEF TypeOK
  <2>3. QED
    BY <1>1, <1>2, <2>1, <2>2, McpBoundsAssumption DEF TypeOK, None
<1>4. Locks'
  BY <1>1, <1>2, TasksAssumption DEF Locks, At, Handshaking, Sending, Exchanging
<1>5. Numbering'
  <2>1. givenUp' \subseteq 1 .. calls'
    BY <1>2 DEF Numbering, At
  <2>2. \A u \in Tasks : ~At(u, "idle")' => u # t /\ task'[u] = task[u]
    BY <1>1 DEF At
  <2>3. \A u \in Tasks : ~At(u, "idle")' => task[u].call # task[t].call
    BY <2>2, <1>2 DEF Numbering, At
  <2>4. QED
    BY <1>2, <2>1, <2>2, <2>3 DEF Numbering, At
<1>6. Awaited'
  BY <1>1, <1>2 DEF Awaited, Running, Numbering, At, Handshaking, Sending, Exchanging
<1>7. Counts'
  <2>1. \A u \in Tasks : ~At(u, "idle")' =>
         ~At(u, "idle") /\ task'[u].call = task[u].call /\ Allowance(u) <= Allowance(u)'
    BY <1>1, <1>2 DEF Allowance, At, Handshaking, Sending, Exchanging
  <2>2. \A n \in Numbers : Pending(n)' => Pending(n)
    BY <1>1, <1>2 DEF Pending, Running, At, Handshaking, Sending, Exchanging
  <2>3. QED
    BY <1>2, <2>1, <2>2, CountsStay
<1>8. SessionsKept'
  <2>1. \A u \in Tasks : task'[u].seen <= forgets'
    BY <1>1, <1>2 DEF SessionsKept, TypeOK
  <2>2. ASSUME ~broken' PROVE SessionAtHand'
    BY <1>1, <1>2, <2>2 DEF SessionsKept, SessionAtHand, Locks, None, At, Handshaking, Sending,
       Exchanging
  <2>3. ASSUME ~broken' PROVE Reliable'
    BY <1>1, <1>2, <2>3 DEF SessionsKept, SessionAtHand, Reliable, Locks, None, At, Handshaking,
       Sending, Exchanging
  <2>4. ASSUME ~broken' PROVE NeverLostAtOnce'
    BY <1>1, <1>2, <2>4 DEF SessionsKept, NeverLostAtOnce, TypeOK
  <2>5. QED
    BY <2>1, <2>2, <2>3, <2>4 DEF SessionsKept
<1>9. QED
  BY <1>3, <1>4, <1>5, <1>6, <1>7, <1>8

LEMMA TransientFailsKeeps ==
  ASSUME IInv, NEW t \in Tasks, Transient(t), task[t].again
  PROVE  IInv'
<1> USE DEF IInv
<1>1. Turns(t, "idle", 0, 0, FALSE, FALSE, 0)
  BY Ended DEF Transient
<1>2. /\ At(t, "received")
      /\ running' = running \ Running(task[t].call)
      /\ resent' = [resent EXCEPT ![task[t].call] = @ + 1]
      /\ \E done \in {0, 1} : performed' = [performed EXCEPT ![task[t].call] = @ + done]
      /\ lock' = IF lock = t THEN "none" ELSE lock
      /\ io' = IF io = t THEN "none" ELSE io
      /\ outcome' = [outcome EXCEPT ![task[t].call] = "failed"]
      /\ session' = session /\ live' = live /\ created' = created
      /\ broken' = broken /\ givenUp' = givenUp
      /\ calls' = calls /\ forgets' = forgets
      /\ faults' = faults + 1 /\ faults < MaxFaults
  BY DEF Transient, At, End, None, clientVars, serverVars, historyVars
<1> USE Fields DEF MovesTo, Turns
<1>3. TypeOK'
  <2>1. task[t].call \in Numbers
    BY <1>2 DEF Numbering, TypeOK, Numbers, At
  <2>2. running' \subseteq running /\ running' \subseteq [call: Numbers, session: Nat]
    BY <1>2 DEF TypeOK
  <2>3. performed' \in [Numbers -> Nat]
    BY <1>2, <2>1 DEF TypeOK
  <2>4. resent' \in [Numbers -> Nat]
    BY <1>2, <2>1 DEF TypeOK
  <2>5. QED
    BY <1>1, <1>2, <2>1, <2>2, <2>3, <2>4, McpBoundsAssumption DEF TypeOK, None
<1>4. Locks'
  BY <1>1, <1>2, TasksAssumption DEF Locks, At, Handshaking, Sending, Exchanging
<1>5. Numbering'
  BY <1>1, <1>2 DEF Numbering, TypeOK, At, Handshaking, Sending, Exchanging
<1>6. Awaited'
  BY <1>1, <1>2 DEF Awaited, Running, Numbering, At, Handshaking, Sending, Exchanging
<1>7. Counts'
  <2>1. /\ task[t].call \in Numbers /\ task[t].call <= calls /\ Pending(task[t].call)
        /\ performed[task[t].call] \in Nat /\ resent[task[t].call] \in Nat
    BY <1>2 DEF Numbering, TypeOK, Numbers, At, Pending
  <2>2. \A u \in Tasks : ~At(u, "idle")' =>
        u # t /\ task'[u] = task[u] /\ task[u].call # task[t].call /\ Allowance(u)' = Allowance(u)
    BY <1>1, <1>2 DEF Numbering, At, Allowance, Exchanging
  <2>3. \A n \in Numbers : Pending(n)' => n # task[t].call /\ Pending(n)
    BY <1>1, <1>2, <2>2 DEF Pending, Running, At
  <2>4. \A u \in Tasks : ~At(u, "idle")' => (resent[task[u].call] <= Allowance(u))'
    BY <1>2, <2>1, <2>2 DEF Counts, Numbering, Numbers, TypeOK, At
  <2>5. /\ \A n \in Numbers : n # task[t].call =>
           performed'[n] = performed[n] /\ resent'[n] = resent[n]
        /\ performed'[task[t].call] \in {performed[task[t].call], performed[task[t].call] + 1}
        /\ resent'[task[t].call] = resent[task[t].call] + 1
    BY <1>2, <2>1 DEF TypeOK
  <2>6. /\ performed[task[t].call] <= resent[task[t].call] /\ resent[task[t].call] <= 2
    BY <2>1 DEF Counts
  <2>7. \A n \in Numbers :
        /\ n > calls' => performed'[n] = 0 /\ resent'[n] = 0
        /\ performed'[n] <= 1 + resent'[n] /\ performed'[n] <= 3
        /\ Pending(n)' => performed'[n] <= resent'[n] /\ resent'[n] <= 2
    <3> SUFFICES ASSUME NEW n \in Numbers
                 PROVE  /\ n > calls' => performed'[n] = 0 /\ resent'[n] = 0
                        /\ performed'[n] <= 1 + resent'[n] /\ performed'[n] <= 3
                        /\ Pending(n)' => performed'[n] <= resent'[n] /\ resent'[n] <= 2
      OBVIOUS
    <3>1. performed[n] \in Nat /\ resent[n] \in Nat
      BY DEF TypeOK
    <3>2. CASE n = task[t].call
      <4>1. /\ performed'[n] \in {performed[n], performed[n] + 1} /\ resent'[n] = resent[n] + 1
            /\ performed[n] <= resent[n]
        BY <2>5, <2>6, <3>2
      <4>2. resent[n] \in 0 .. 2
        BY <2>6, <3>1, <3>2
      <4>3. n <= calls /\ ~Pending(n)' /\ calls' = calls /\ calls \in Nat /\ n \in Nat
        BY <1>2, <2>1, <2>3, <3>2 DEF TypeOK, Numbers
      <4>4. QED
        BY <3>1, <4>1, <4>2, <4>3
    <3>3. CASE n # task[t].call
      BY <1>2, <3>1, <3>3, <2>3, <2>5, <2>6 DEF Counts
    <3>4. QED
      BY <3>2, <3>3
  <2>8. QED
    BY <2>1, <2>2, <2>3, <2>4, <2>5, <2>6, <2>7 DEF Counts, At
<1>8. SessionsKept'
  <2>1. \A u \in Tasks : task'[u].seen <= forgets'
    BY <1>1, <1>2 DEF SessionsKept, TypeOK
  <2>2. ASSUME ~broken' PROVE SessionAtHand'
    BY <1>1, <1>2, <2>2 DEF SessionsKept, SessionAtHand, Locks, None, At, Handshaking, Sending,
       Exchanging
  <2>3. ASSUME ~broken' PROVE Reliable'
    BY <1>1, <1>2, <2>3 DEF SessionsKept, SessionAtHand, Reliable, Locks, None, At, Handshaking,
       Sending, Exchanging
  <2>4. ASSUME ~broken' PROVE NeverLostAtOnce'
    BY <1>1, <1>2, <2>4 DEF SessionsKept, NeverLostAtOnce, TypeOK
  <2>5. QED
    BY <2>1, <2>2, <2>3, <2>4 DEF SessionsKept
<1>9. QED
  BY <1>3, <1>4, <1>5, <1>6, <1>7, <1>8

\* One more transient status, one more post allowed.
LEMMA TransientPostsAgainKeeps ==
  ASSUME IInv, NEW t \in Tasks, Transient(t), ~task[t].again
  PROVE  IInv'
<1> USE DEF IInv
<1>1. Turns(t, "posted", task[t].call, task[t].header, task[t].replay, TRUE, task[t].seen)
  BY TransientTurns
<1>2. /\ At(t, "received")
      /\ running' = running \ Running(task[t].call)
      /\ resent' = [resent EXCEPT ![task[t].call] = @ + 1]
      /\ \E done \in {0, 1} : performed' = [performed EXCEPT ![task[t].call] = @ + done]
      /\ lock' = lock /\ io' = io
      /\ session' = session /\ live' = live /\ created' = created
      /\ broken' = broken /\ givenUp' = givenUp
      /\ calls' = calls /\ forgets' = forgets
      /\ faults' = faults + 1 /\ faults < MaxFaults
      /\ outcome' = outcome
  BY DEF Transient, At, End, None, clientVars, serverVars, historyVars
<1> USE Fields DEF MovesTo, Turns
<1>3. TypeOK'
  <2>1. task[t].call \in Numbers
    BY <1>2 DEF Numbering, TypeOK, Numbers, At
  <2>2. running' \subseteq running /\ running' \subseteq [call: Numbers, session: Nat]
    BY <1>2 DEF TypeOK
  <2>3. performed' \in [Numbers -> Nat]
    BY <1>2, <2>1 DEF TypeOK
  <2>4. resent' \in [Numbers -> Nat]
    BY <1>2, <2>1 DEF TypeOK
  <2>5. QED
    BY <1>1, <1>2, <2>1, <2>2, <2>3, <2>4, McpBoundsAssumption DEF TypeOK, None
<1>4. Locks'
  BY <1>1, <1>2, TasksAssumption DEF Locks, At, Handshaking, Sending, Exchanging
<1>5. Numbering'
  BY <1>1, <1>2 DEF Numbering, TypeOK, At, Handshaking, Sending, Exchanging
<1>6. Awaited'
  BY <1>1, <1>2 DEF Awaited, Running, Numbering, At, Handshaking, Sending, Exchanging
<1>7. Counts'
  <2>1. /\ task[t].call \in Numbers /\ task[t].call <= calls /\ Pending(task[t].call)
        /\ performed[task[t].call] \in Nat /\ resent[task[t].call] \in Nat
    BY <1>2 DEF Numbering, TypeOK, Numbers, At, Pending
  <2>2. \A u \in Tasks : ~At(u, "idle")' =>
        /\ task'[u].call = task[u].call /\ ~At(u, "idle")
        /\ u # t => task[u].call # task[t].call /\ Allowance(u)' = Allowance(u)
    BY <1>1, <1>2 DEF Numbering, At, Allowance, Exchanging
  <2>3. /\ Allowance(t) \in {0, 1} /\ Allowance(t)' = Allowance(t) + 1
        /\ resent[task[t].call] <= Allowance(t)
    BY <1>1, <1>2 DEF Counts, Allowance, At, Exchanging
  <2>4. \A n \in Numbers : Pending(n)' => Pending(n)
    BY <1>1, <1>2, <2>2 DEF Pending, Running, At
  <2>5. /\ \A n \in Numbers : n # task[t].call =>
           performed'[n] = performed[n] /\ resent'[n] = resent[n]
        /\ performed'[task[t].call] \in {performed[task[t].call], performed[task[t].call] + 1}
        /\ resent'[task[t].call] = resent[task[t].call] + 1
    BY <1>2, <2>1 DEF TypeOK
  <2>6. /\ performed[task[t].call] <= resent[task[t].call] /\ resent[task[t].call] <= 2
    BY <2>1 DEF Counts
  <2>7. \A u \in Tasks : ~At(u, "idle")' => (resent[task[u].call] <= Allowance(u))'
    <3> SUFFICES ASSUME NEW u \in Tasks, ~At(u, "idle")'
                 PROVE  (resent[task[u].call] <= Allowance(u))'
      OBVIOUS
    <3>1. CASE u = t
      <4>1. (resent[task[u].call])' = resent[task[t].call] + 1
        BY <2>2, <2>5, <3>1
      <4>2. QED
        BY <2>1, <2>3, <3>1, <4>1
    <3>2. CASE u # t
      <4>1. task[u].call \in Numbers /\ resent[task[u].call] <= Allowance(u)
        BY <2>2, <3>2, McpBoundsAssumption DEF Counts, Numbering, Numbers, TypeOK
      <4>2. QED
        BY <2>2, <2>5, <3>2, <4>1
    <3>3. QED
      BY <3>1, <3>2
  <2>8. \A n \in Numbers :
        /\ n > calls' => performed'[n] = 0 /\ resent'[n] = 0
        /\ performed'[n] <= 1 + resent'[n] /\ performed'[n] <= 3
        /\ Pending(n)' => performed'[n] <= resent'[n] /\ resent'[n] <= 2
    <3> SUFFICES ASSUME NEW n \in Numbers
                 PROVE  /\ n > calls' => performed'[n] = 0 /\ resent'[n] = 0
                        /\ performed'[n] <= 1 + resent'[n] /\ performed'[n] <= 3
                        /\ Pending(n)' => performed'[n] <= resent'[n] /\ resent'[n] <= 2
      OBVIOUS
    <3>1. performed[n] \in Nat /\ resent[n] \in Nat
      BY DEF TypeOK
    <3>2. CASE n = task[t].call
      <4>1. /\ performed'[n] \in {performed[n], performed[n] + 1} /\ resent'[n] = resent[n] + 1
            /\ performed[n] <= resent[n]
        BY <2>5, <2>6, <3>2
      <4>2. resent[n] \in {0, 1}
        BY <2>3, <3>1, <3>2
      <4>3. n <= calls /\ calls' = calls /\ calls \in Nat /\ n \in Nat
        BY <1>2, <2>1, <2>3, <3>2 DEF TypeOK, Numbers
      <4>4. QED
        BY <3>1, <4>1, <4>2, <4>3
    <3>3. CASE n # task[t].call
      BY <1>2, <3>1, <3>3, <2>3, <2>4, <2>5, <2>6 DEF Counts
    <3>4. QED
      BY <3>2, <3>3
  <2>9. QED
    BY <2>1, <2>2, <2>3, <2>4, <2>5, <2>6, <2>7, <2>8 DEF Counts, At
<1>8. SessionsKept'
  <2>1. \A u \in Tasks : task'[u].seen <= forgets'
    BY <1>1, <1>2 DEF SessionsKept, TypeOK
  <2>2. ASSUME ~broken' PROVE SessionAtHand'
    BY <1>1, <1>2, <2>2 DEF SessionsKept, SessionAtHand, Locks, None, At, Handshaking, Sending,
       Exchanging
  <2>3. ASSUME ~broken' PROVE Reliable'
    BY <1>1, <1>2, <2>3 DEF SessionsKept, SessionAtHand, Reliable, Locks, None, At, Handshaking,
       Sending, Exchanging
  <2>4. ASSUME ~broken' PROVE NeverLostAtOnce'
    BY <1>1, <1>2, <2>4 DEF SessionsKept, NeverLostAtOnce, TypeOK
  <2>5. QED
    BY <2>1, <2>2, <2>3, <2>4 DEF SessionsKept
<1>9. QED
  BY <1>3, <1>4, <1>5, <1>6, <1>7, <1>8

LEMMA FinishUnheardKeeps ==
  ASSUME IInv, NEW n \in Numbers, FinishUnheard(n)
  PROVE  IInv'
<1> USE DEF IInv
<1>1. /\ n \in givenUp /\ running' = running \ Running(n) /\ performed' = [performed EXCEPT ![n] = @ + 1]
      /\ Running(n) # {} /\ n \in 1 .. calls
      /\ UNCHANGED <<session, lock, io, task, live, created, calls, forgets, faults, broken, resent,
                     givenUp, outcome>>
  BY DEF FinishUnheard, clientVars, Numbering
<1>2. /\ performed[n] \in Nat /\ resent[n] \in Nat
      /\ performed'[n] = performed[n] + 1
      /\ \A k \in Numbers : k # n => performed'[k] = performed[k]
  BY <1>1 DEF TypeOK
<1>3. TypeOK'
  <2>1. running' \subseteq [call: Numbers, session: Nat] /\ performed' \in [Numbers -> Nat]
    BY <1>1 DEF TypeOK
  <2>2. QED
    BY <1>1, <2>1 DEF TypeOK
<1>4. Locks' /\ Numbering'
  BY <1>1 DEF Locks, Numbering, Handshaking, Sending, Exchanging, At
<1>5. Awaited'
  BY <1>1 DEF Awaited, Numbering, At
<1>6. Counts'
  <2>1. \A k \in Numbers : Pending(k)' => k # n /\ Pending(k)
    BY <1>1 DEF Pending, Numbering, Running, At
  <2>2. Pending(n)
    BY <1>1 DEF Pending
  <2>3. \A u \in Tasks : ~At(u, "idle")' => (resent[task[u].call] <= Allowance(u))'
    BY <1>1 DEF Counts, At, Allowance, Exchanging
  <2>4. \A k \in Numbers :
        /\ k > calls' => performed'[k] = 0 /\ resent'[k] = 0
        /\ performed'[k] <= 1 + resent'[k] /\ performed'[k] <= 3
        /\ Pending(k)' => performed'[k] <= resent'[k] /\ resent'[k] <= 2
    BY <1>1, <1>2, <2>1, <2>2 DEF Counts, TypeOK
  <2>5. QED
    BY <2>3, <2>4 DEF Counts
<1>7. SessionsKept'
  BY <1>1 DEF SessionsKept, SessionAtHand, Reliable, NeverLostAtOnce, Handshaking, Sending,
              Exchanging, At
<1>8. QED
  BY <1>3, <1>4, <1>5, <1>6, <1>7

LEMMA ForgetKeeps ==
  ASSUME IInv, NEW s \in live, Forget(s)
  PROVE  IInv'
<1> USE DEF IInv
<1>1. /\ live' = live \ {s} /\ forgets < MaxForgets /\ forgets' = forgets + 1
      /\ UNCHANGED <<session, lock, io, task, running, created, calls, faults, performed, broken,
                     resent, givenUp, outcome>>
  BY DEF Forget, clientVars, historyVars
<1>2. TypeOK'
  BY <1>1, McpBoundsAssumption DEF TypeOK
<1>3. Locks' /\ Numbering' /\ Awaited'
  BY <1>1 DEF Locks, Numbering, Awaited, Handshaking, Sending, Exchanging, At
<1>4. Counts'
  BY <1>1 DEF Counts, Pending, Running, Allowance, Exchanging, At
<1>5. SessionsKept'
  <2>1. \A t \in Tasks : task'[t].seen \in Nat /\ task'[t].seen < forgets'
    BY <1>1, Fields DEF SessionsKept, TypeOK
  <2>2. QED
    BY <1>1, <2>1 DEF SessionsKept, SessionAtHand, Reliable, NeverLostAtOnce, Sending, Exchanging,
       At,
                      TypeOK
<1>6. QED
  BY <1>2, <1>3, <1>4, <1>5

\* The invariant holds at first and is kept by every step.
LEMMA InitIInv == Init => IInv
<1> SUFFICES ASSUME Init PROVE IInv
  OBVIOUS
<1>1. \A t \in Tasks : task[t] = Idle
  BY DEF Init
<1>2. TypeOK
  <2>1. task \in [Tasks -> Task]
    BY IdleFields DEF Init
  <2>2. performed \in [Numbers -> Nat] /\ resent \in [Numbers -> Nat]
        /\ outcome \in [Numbers -> {"open", "answered", "failed", "lost", "lostAtOnce"}]
    BY DEF Init
  <2>3. 0 \in 0 .. MaxCalls /\ 0 \in 0 .. MaxForgets /\ 0 \in 0 .. MaxFaults
    BY McpBoundsAssumption
  <2>4. created \in Nat /\ session \in 0 .. created /\ live \subseteq 1 .. created
    BY DEF Init
  <2>5. {lock, io} \subseteq Tasks \cup {None} /\ broken \in BOOLEAN
    BY DEF Init
  <2>6. running \subseteq [call: Numbers, session: Nat] /\ givenUp \subseteq Numbers
    BY DEF Init
  <2>7. calls \in 0 .. MaxCalls /\ forgets \in 0 .. MaxForgets /\ faults \in 0 .. MaxFaults
    BY <2>3 DEF Init
  <2>8. QED
    BY <2>1, <2>2, <2>4, <2>5, <2>6, <2>7 DEF TypeOK
<1>3. Locks /\ Numbering /\ Awaited
  BY <1>1, IdleFields, TasksAssumption
     DEF Init, None, Locks, Numbering, Awaited, Handshaking, Sending, Exchanging, At
<1>4. Counts
  BY <1>1, IdleFields DEF Init, Counts, Pending, Running, Numbers, At
<1>5. SessionsKept
  BY <1>1, IdleFields DEF Init, SessionsKept, SessionAtHand, Reliable, NeverLostAtOnce,
     Handshaking,
                          Sending, Exchanging, At
<1>6. QED
  BY <1>2, <1>3, <1>4, <1>5 DEF IInv

LEMMA StepKeeps ==
  ASSUME IInv, [Next]_vars
  PROVE  IInv'
<1>1. ASSUME NEW t \in Tasks, Step(t) PROVE IInv'
  <2>1. CASE EnsureSession(t)
    BY <2>1, EnsureHandshakeKeeps, EnsureQueuedKeeps
  <2>2. CASE Notified(t)
    BY <2>2, NotifiedEnsuringKeeps, NotifiedReplayingKeeps
  <2>3. CASE Transient(t)
    BY <2>3, TransientFailsKeeps, TransientPostsAgainKeeps
  <2>4. CASE Initialized(t) \/ HandshakeFails(t) \/ Acquire(t) \/ Post(t) \/ Reinitialise(t)
    BY <2>4, InitializedKeeps, HandshakeFailsKeeps, AcquireKeeps, PostKeeps, ReinitialiseKeeps
  <2>5. CASE LostAgain(t) \/ Receive(t) \/ Answer(t) \/ TimeOut(t)
    BY <2>5, LostAgainKeeps, ReceiveKeeps, AnswerKeeps, TimeOutKeeps
  <2>6. QED
    BY <1>1, <2>1, <2>2, <2>3, <2>4, <2>5 DEF Step
<1>2. CASE UNCHANGED vars
  <2>1. UNCHANGED <<session, lock, io, task, live, running, created, calls, forgets, faults,
                    performed, broken, resent, givenUp, outcome>>
    BY <1>2 DEF vars, clientVars, serverVars, historyVars
  <2>2. TypeOK' /\ Locks' /\ Numbering' /\ Awaited'
    BY <2>1 DEF IInv, TypeOK, Locks, Numbering, Awaited, Handshaking, Sending, Exchanging, At
  <2>3. Counts'
    BY <2>1 DEF IInv, Counts, Pending, Running, Allowance, Exchanging, At
  <2>4. SessionsKept'
    BY <2>1 DEF IInv, SessionsKept, SessionAtHand, Reliable, NeverLostAtOnce, Handshaking, Sending,
                Exchanging, At
  <2>5. QED
    BY <2>2, <2>3, <2>4 DEF IInv
<1>3. QED
  BY <1>1, <1>2, RequestKeeps, FinishUnheardKeeps, ForgetKeeps DEF Next

-----------------------------------------------------------------------------
(* The theorems. *)

\* At every moment the holders of the two locks, the tasks' calls, the server's calls and the
\* client's session fit together (McpClient.request, ensure_session, initialize, _send).
THEOREM McpInvariant == Spec => []IInv
<1>1. QED
  BY InitIInv, StepKeeps, PTL DEF Spec

\* The state has its types, whatever the tasks do.
THEOREM McpTypes == Spec => []TypeOK
<1>1. IInv => TypeOK
  BY DEF IInv
<1>2. QED
  BY <1>1, McpInvariant, PTL

\* Calls of one session do not run side by side in the server, except behind a call the client
\* has given up: any number of tasks share the client, and only the holder of _io_lock waits
\* for an answer.
THEOREM CallsAreSerialised == Spec => []OneCallAtATime
<1>1. IInv => OneCallAtATime
  <2> SUFFICES ASSUME IInv, NEW x \in running, NEW y \in running, x # y,
                      x.call \notin givenUp, y.call \notin givenUp
               PROVE  FALSE
    BY DEF OneCallAtATime
  <2>1. PICK t \in Tasks : At(t, "received") /\ task[t].call = x.call /\ task[t].header = x.session
    BY DEF IInv, Awaited
  <2>2. PICK u \in Tasks : At(u, "received") /\ task[u].call = y.call /\ task[u].header = y.session
    BY DEF IInv, Awaited
  <2>3. t = u
    BY <2>1, <2>2 DEF IInv, Locks, Sending, Exchanging, At
  <2>4. x = y
    BY <2>1, <2>2, <2>3 DEF IInv, TypeOK
  <2>5. QED
    BY <2>4
<1>2. QED
  BY <1>1, McpInvariant, PTL

\* However often the server forgets sessions, answers with transient statuses and falls silent:
\* a call is performed once and once more per transient answer, three times at most, and while
\* no handshake failed no call ends for a lost session unless another one was forgotten after
\* the call's own handshake began.
THEOREM ReplaysHold == Spec => []ReplaysAreSafe
<1>1. IInv => ReplaysAreSafe
  BY DEF IInv, Counts, SessionsKept, NeverLostAtOnce, ReplaysAreSafe
<1>2. QED
  BY <1>1, McpInvariant, PTL
=============================================================================
