---------------------------- MODULE PortalProofs ----------------------------
(***************************************************************************)
(* Proofs about PortalSession, for any slots, requests and replies: a      *)
(* session that was reset stays gone; and, as long as a session has one    *)
(* chat turn at a time (OneTurn), replies follow what they answer and a    *)
(* button's note reaches the model once.                                   *)
(*                                                                         *)
(* The invariant says what a request may rely on between two methods of    *)
(* the store.  Its record belongs to the version it loaded: as long as     *)
(* that is the stored one, the stored notes are the loaded ones (Loaded).  *)
(* A turn's messages, cut where its write-back begins, continue what is    *)
(* stored (Continues), have every message of it (Retains), and tell what   *)
(* it tells (Telling).                                                     *)
(***************************************************************************)
EXTENDS PortalSession, TLAPS

OneTurn == \A r, s \in Chats : r = s

Early == {"loading", "acting", "saving"}
Replying == {"backing", "rebasing", "again", "completing"}

\* Where a request can be, and that requests are told apart by their numbers.
Placed ==
  /\ \A r \in Slots :
       /\ req[r].phase # "idle" => req[r].id \in 1 .. started
       /\ req[r].phase \in Early => req[r].version # 0
       /\ req[r].notes \subseteq 1 .. started
  /\ \A r \in Buttons : /\ req[r].phase \in {"idle"} \cup Early
                        /\ req[r].phase # "idle" => req[r].kept = Len(req[r].msgs)
  /\ \A r \in Chats : req[r].phase # "acting"
  /\ \A r, s \in Slots : req[r].phase # "idle" /\ req[s].phase # "idle"
                           /\ req[r].id = req[s].id => r = s

\* After a reset with no turn under way nobody can write, and no turn begins.
Gone == dropped = "idle" => version = 0 /\ Turning = {}

BaseInv == TypeOK /\ Placed /\ Gone

-----------------------------------------------------------------------------
(* With one turn at a time: what is stored and what a turn is about to store. *)

\* No message twice, and a reply behind its question or the reply before it.
Follows(s) ==
  /\ \A i, j \in 1 .. Len(s) : i # j => ~(s[i].turn = s[j].turn /\ s[i].part = s[j].part)
  /\ \A i \in 2 .. Len(s) : s[i].part > 0 => /\ s[i - 1].turn = s[i].turn
                                             /\ s[i - 1].part = s[i].part - 1

Without(s, turn) == \A i \in 1 .. Len(s) : s[i].turn # turn

\* The sequence ends with the question of a turn, and has nothing else of it.
Asks(s, turn) ==
  /\ s # <<>>
  /\ s[Len(s)].turn = turn /\ s[Len(s)].part = 0
  /\ \A i \in 1 .. Len(s) - 1 : s[i].turn # turn

\* The transcript t once the record q is written (Appended).
Onto(t, q) ==
  SubSeq(t, 1, IF q.kept < Len(t) THEN q.kept ELSE Len(t))
    \o SubSeq(q.msgs, q.kept + 1, Len(q.msgs))

\* What a turn stores follows: on the transcript t, or on nothing after a reset.
Continues(t, q) ==
  /\ q.phase = "loading" => Without(t, q.id)
  /\ q.phase \in {"saving", "appending"} =>
       /\ Asks(q.msgs, q.id) /\ q.kept = Len(q.msgs) - 1
       /\ t = SubSeq(q.msgs, 1, q.kept) \/ t = <<>>
  /\ q.phase = "streaming" =>
       /\ Asks(q.msgs, q.id) /\ q.kept = Len(q.msgs)
       /\ t = <<>> \/ Asks(t, q.id)
       /\ Len(t) <= q.kept
  /\ q.phase \in Replying => Follows(Onto(t, q))
  /\ Follows(q.msgs)

\* Every message of t is in s, perhaps with its result cleared.
Contains(s, t) == \A i \in 1 .. Len(t) : Has(s, t[i])

\* What a turn is about to store has every message that is stored.
Retains(t, q) ==
  /\ q.phase = "streaming" => Contains(q.msgs, t)
  /\ q.phase \in Replying => Contains(Onto(t, q), t)

Retained == \A r \in Chats : Retains(transcript, req[r])

\* No message of a turn that has not begun.
Older(s, n) == \A i \in 1 .. Len(s) : s[i].turn <= n

Stored ==
  /\ Follows(transcript) /\ Older(transcript, started)
  /\ \A r \in Chats : Continues(transcript, req[r]) /\ Older(req[r].msgs, started)

-----------------------------------------------------------------------------
(* With one turn at a time, until the session is reset: the notes. *)

\* The version a request loaded stands for the notes it loaded.
Loaded ==
  \A r \in Slots : req[r].phase \in Early \cup {"appending", "streaming", "backing"} =>
    /\ req[r].version <= version
    /\ req[r].version = version => notes = req[r].loaded

\* What the record of a request does to the notes.
Holding ==
  /\ \A r \in Slots : req[r].phase # "idle" => req[r].loaded \subseteq queued
  /\ \A r \in Buttons :
       /\ req[r].phase # "idle" => req[r].id \notin queued
       /\ req[r].phase \in {"loading", "acting"} => req[r].notes = req[r].loaded
       /\ req[r].phase = "saving" => req[r].notes \in {req[r].loaded, req[r].loaded \cup {req[r].id}}
  /\ \A r \in Chats :
       /\ req[r].phase = "loading" => req[r].notes = req[r].loaded
       /\ req[r].phase \notin {"idle", "loading"} => req[r].notes = {}
       /\ req[r].phase \notin {"idle", "loading", "saving"} => req[r].loaded = {}

\* What is told in a sequence, that it is told once, and that it is what another one tells.
Told(s) == UNION {s[i].told : i \in 1 .. Len(s)}
Once(s) == \A i, j \in 1 .. Len(s) : i # j => s[i].told \cap s[j].told = {}
TellsAs(s, t) ==
  /\ Len(t) <= Len(s)
  /\ \A i \in 1 .. Len(s) : s[i].told = IF i <= Len(t) THEN t[i].told ELSE {}

\* What the last message of a record tells.
Carried(q) == q.msgs[Len(q.msgs)].told

\* A turn adds one message that tells to the transcript t.
Telling(t, q) ==
  /\ q.phase \in {"saving", "appending"} => /\ Len(q.msgs) = Len(t) + 1
                                            /\ t = SubSeq(q.msgs, 1, Len(t))
  /\ q.phase = "saving" => Carried(q) = q.loaded
  /\ q.phase = "streaming" => q.msgs = t
  /\ q.phase \in Replying => TellsAs(Onto(t, q), t)

\* Where the notes are: pending, told, or on their way in a question that is saved.
Reached ==
  /\ notes \subseteq queued /\ Told(transcript) \subseteq queued
  /\ Turning # {} => notes \subseteq during
  /\ \A n \in queued \ during :
       n \in notes \cup Told(transcript) \/ \E r \in Chats : req[r].phase = "appending"
                                                              /\ n \in Carried(req[r])
  /\ notes \cap Told(transcript) = {} /\ Once(transcript)
  /\ \A r \in Chats : req[r].phase = "appending" =>
       Carried(req[r]) \subseteq queued /\ Carried(req[r]) \cap (notes \cup Told(transcript)) = {}

Pending ==
  dropped = "no" => /\ version # 0
                    /\ Loaded /\ Holding /\ Reached
                    /\ \A r \in Chats : Telling(transcript, req[r])

IInv == BaseInv /\ Stored /\ Pending

-----------------------------------------------------------------------------
(* Sequences. *)

LEMMA FrontOf ==
  ASSUME NEW S, NEW s \in Seq(S), NEW m \in 0 .. Len(s)
  PROVE  /\ SubSeq(s, 1, m) \in Seq(S) /\ Len(SubSeq(s, 1, m)) = m
         /\ \A i \in 1 .. m : SubSeq(s, 1, m)[i] = s[i]
OBVIOUS

LEMMA RestOf ==
  ASSUME NEW S, NEW s \in Seq(S), NEW m \in 0 .. Len(s)
  PROVE  /\ SubSeq(s, m + 1, Len(s)) \in Seq(S) /\ Len(SubSeq(s, m + 1, Len(s))) = Len(s) - m
         /\ \A i \in 1 .. Len(s) - m : SubSeq(s, m + 1, Len(s))[i] = s[m + i]
OBVIOUS

LEMMA SameSequence ==
  ASSUME NEW S, NEW s \in Seq(S), NEW t \in Seq(S), Len(s) = Len(t),
         \A i \in 1 .. Len(s) : s[i] = t[i]
  PROVE  s = t
OBVIOUS

LEMMA JoinOf ==
  ASSUME NEW S, NEW s \in Seq(S), NEW t \in Seq(S)
  PROVE  /\ s \o t \in Seq(S) /\ Len(s \o t) = Len(s) + Len(t)
         /\ \A i \in 1 .. Len(s) : (s \o t)[i] = s[i]
         /\ \A i \in Len(s) + 1 .. Len(s) + Len(t) : (s \o t)[i] = t[i - Len(s)]
OBVIOUS

\* How much of the transcript t a request keeps, and what it appends to it.
Cut(t, q) == IF q.kept < Len(t) THEN q.kept ELSE Len(t)

LEMMA OntoIs ==
  ASSUME NEW t \in Seq(Message), NEW q \in Request, q.kept <= Len(q.msgs)
  PROVE  /\ Onto(t, q) \in Seq(Message)
         /\ Cut(t, q) \in 0 .. Len(t) /\ Cut(t, q) <= q.kept
         /\ Len(Onto(t, q)) = Cut(t, q) + Len(q.msgs) - q.kept
         /\ \A i \in 1 .. Cut(t, q) : Onto(t, q)[i] = t[i]
         /\ \A i \in Cut(t, q) + 1 .. Len(Onto(t, q)) :
              q.kept + i - Cut(t, q) \in 1 .. Len(q.msgs)
              /\ Onto(t, q)[i] = q.msgs[q.kept + i - Cut(t, q)]
<1>1. q.msgs \in Seq(Message) /\ q.kept \in 0 .. Len(q.msgs)
  BY DEF Request
<1>2. Cut(t, q) \in 0 .. Len(t) /\ Cut(t, q) <= q.kept
  BY <1>1 DEF Cut
<1> DEFINE front == SubSeq(t, 1, Cut(t, q))
           rest == SubSeq(q.msgs, q.kept + 1, Len(q.msgs))
<1>3. front \in Seq(Message) /\ Len(front) = Cut(t, q) /\ \A i \in 1 .. Cut(t, q) : front[i] = t[i]
  BY <1>2, FrontOf
<1>4. /\ rest \in Seq(Message) /\ Len(rest) = Len(q.msgs) - q.kept
      /\ \A i \in 1 .. Len(rest) : rest[i] = q.msgs[q.kept + i]
  BY <1>1, RestOf
<1>5. Onto(t, q) = front \o rest
  BY DEF Onto, Cut
<1> HIDE DEF front, rest
<1>6. /\ Onto(t, q) \in Seq(Message) /\ Len(Onto(t, q)) = Len(front) + Len(rest)
      /\ \A i \in 1 .. Len(front) : Onto(t, q)[i] = front[i]
      /\ \A i \in Len(front) + 1 .. Len(front) + Len(rest) : Onto(t, q)[i] = rest[i - Len(front)]
  <2>1. front \in Seq(Message) /\ rest \in Seq(Message)
    BY <1>3, <1>4
  <2>2. /\ front \o rest \in Seq(Message) /\ Len(front \o rest) = Len(front) + Len(rest)
        /\ \A i \in 1 .. Len(front) : (front \o rest)[i] = front[i]
        /\ \A i \in Len(front) + 1 .. Len(front) + Len(rest) : (front \o rest)[i] = rest[i - Len(front)]
    BY ONLY <2>1, JoinOf
  <2> QED
    BY <1>5, <2>2
<1>7. Len(Onto(t, q)) = Cut(t, q) + Len(q.msgs) - q.kept
  BY <1>1, <1>2, <1>3, <1>4, <1>6
<1>8. ASSUME NEW i \in Cut(t, q) + 1 .. Len(Onto(t, q))
      PROVE  /\ q.kept + i - Cut(t, q) \in 1 .. Len(q.msgs)
             /\ Onto(t, q)[i] = q.msgs[q.kept + i - Cut(t, q)]
  <2>1. i - Cut(t, q) \in 1 .. Len(rest) /\ i \in Len(front) + 1 .. Len(front) + Len(rest)
    BY <1>1, <1>2, <1>3, <1>4, <1>7
  <2>2. Onto(t, q)[i] = rest[i - Cut(t, q)] /\ rest[i - Cut(t, q)] = q.msgs[q.kept + (i - Cut(t, q))]
    BY <1>3, <1>4, <1>6, <2>1
  <2> QED
    <3>1. q.kept \in Int /\ Cut(t, q) \in Int /\ Len(q.msgs) \in Int /\ i \in Int /\ q.kept >= 0
      BY <1>1, <1>2, <1>7
    <3>2. i - Cut(t, q) \in 1 .. Len(q.msgs) - q.kept
      BY <1>4, <2>1
    <3>3. q.kept + (i - Cut(t, q)) = q.kept + i - Cut(t, q) /\ q.kept + (i - Cut(t, q)) \in 1 .. Len(q.msgs)
      BY <3>1, <3>2
    <3> QED
      BY <2>2, <3>3
<1> QED
  BY <1>2, <1>3, <1>6, <1>7, <1>8

LEMMA FollowsPart ==
  ASSUME NEW s \in Seq(Message), NEW t \in Seq(Message), NEW k \in Nat,
         Len(t) + k <= Len(s), \A i \in 1 .. Len(t) : t[i] = s[k + i], Follows(s)
  PROVE  Follows(t)
<1>1. \A i \in 1 .. Len(t) : k + i \in 1 .. Len(s)
  OBVIOUS
<1>2. ASSUME NEW i \in 1 .. Len(t), NEW j \in 1 .. Len(t), i # j
      PROVE  ~(t[i].turn = t[j].turn /\ t[i].part = t[j].part)
  <2>1. k + i # k + j /\ t[i] = s[k + i] /\ t[j] = s[k + j]
    BY <1>2
  <2> QED
    BY <1>1, <2>1 DEF Follows
<1>3. ASSUME NEW i \in 2 .. Len(t), t[i].part > 0
      PROVE  t[i - 1].turn = t[i].turn /\ t[i - 1].part = t[i].part - 1
  <2>1. k + i \in 2 .. Len(s) /\ i - 1 \in 1 .. Len(t) /\ k + (i - 1) = (k + i) - 1
    BY <1>1
  <2>2. t[i] = s[k + i] /\ t[i - 1] = s[(k + i) - 1]
    BY <2>1
  <2> QED
    BY <1>3, <2>1, <2>2 DEF Follows
<1> QED
  BY <1>2, <1>3 DEF Follows

\* A question of a new turn at the end.
LEMMA FollowsAsked ==
  ASSUME NEW s \in Seq(Message), NEW t \in Seq(Message), NEW turn, Follows(s), Without(s, turn),
         Len(t) = Len(s) + 1, \A i \in 1 .. Len(s) : t[i] = s[i],
         t[Len(t)].turn = turn, t[Len(t)].part = 0
  PROVE  Follows(t) /\ Asks(t, turn)
<1>1. ASSUME NEW i \in 1 .. Len(t), NEW j \in 1 .. Len(t), i # j
      PROVE  ~(t[i].turn = t[j].turn /\ t[i].part = t[j].part)
  <2>1. CASE i \in 1 .. Len(s) /\ j \in 1 .. Len(s)
    BY <1>1, <2>1 DEF Follows
  <2>2. CASE i = Len(t) /\ j \in 1 .. Len(s)
    BY <2>2 DEF Without
  <2>3. CASE j = Len(t) /\ i \in 1 .. Len(s)
    BY <2>3 DEF Without
  <2> QED
    BY <1>1, <2>1, <2>2, <2>3
<1>2. ASSUME NEW i \in 2 .. Len(t), t[i].part > 0
      PROVE  t[i - 1].turn = t[i].turn /\ t[i - 1].part = t[i].part - 1
  <2>1. i \in 2 .. Len(s) /\ i - 1 \in 1 .. Len(s)
    BY <1>2
  <2> QED
    BY <1>2, <2>1 DEF Follows
<1>3. Asks(t, turn)
  <2>1. t # <<>> /\ \A i \in 1 .. Len(t) - 1 : t[i].turn # turn
    BY DEF Without
  <2> QED
    BY <2>1 DEF Asks
<1> QED
  BY <1>1, <1>2, <1>3 DEF Follows

\* The replies of a turn behind its question, or alone.
LEMMA FollowsReplied ==
  ASSUME NEW s \in Seq(Message), NEW t \in Seq(Message), NEW turn, NEW n \in Nat,
         Follows(s), s = <<>> \/ Asks(s, turn), Len(t) = Len(s) + n,
         \A i \in 1 .. Len(s) : t[i].turn = s[i].turn /\ t[i].part = s[i].part,
         \A i \in Len(s) + 1 .. Len(s) + n : t[i].turn = turn /\ t[i].part = i - Len(s)
  PROVE  Follows(t)
<1>1. ASSUME NEW i \in 1 .. Len(t), NEW j \in 1 .. Len(t), i # j,
             t[i].turn = t[j].turn, t[i].part = t[j].part
      PROVE  FALSE
  <2>1. ASSUME NEW k \in 1 .. Len(s), NEW l \in Len(s) + 1 .. Len(s) + n
        PROVE  ~(t[k].turn = t[l].turn /\ t[k].part = t[l].part)
    <3>1. Len(s) \in Nat /\ Len(s) # 0 /\ l - Len(s) > 0
      OBVIOUS
    <3>2. s # <<>> /\ Asks(s, turn)
      BY <3>1
    <3>3. CASE k = Len(s)
      BY <3>1, <3>2, <3>3 DEF Asks
    <3>4. CASE k # Len(s)
      <4>1. k \in 1 .. Len(s) - 1
        BY <3>1, <3>4
      <4>2. t[k].turn # turn /\ t[l].turn = turn
        BY <3>2, <4>1 DEF Asks
      <4> QED
        BY <4>2
    <3> QED
      BY <3>3, <3>4
  <2>2. CASE i \in 1 .. Len(s) /\ j \in 1 .. Len(s)
    BY <1>1, <2>2 DEF Follows
  <2>3. CASE i \in Len(s) + 1 .. Len(s) + n /\ j \in Len(s) + 1 .. Len(s) + n
    BY <1>1, <2>3
  <2> QED
    BY <1>1, <2>1, <2>2, <2>3
<1>2. ASSUME NEW i \in 2 .. Len(t), t[i].part > 0
      PROVE  t[i - 1].turn = t[i].turn /\ t[i - 1].part = t[i].part - 1
  <2>1. CASE i \in 2 .. Len(s)
    <3>1. i - 1 \in 1 .. Len(s)
      BY <2>1
    <3> QED
      BY <1>2, <2>1, <3>1 DEF Follows
  <2>2. CASE i = Len(s) + 1
    <3>1. Len(s) # 0 /\ s # <<>> /\ i - 1 = Len(s) /\ Len(s) \in 1 .. Len(s)
      BY <1>2, <2>2
    <3>2. t[i - 1].turn = turn /\ t[i - 1].part = 0
      BY <3>1 DEF Asks
    <3> QED
      BY <1>2, <2>2, <3>2
  <2>3. CASE i \in Len(s) + 2 .. Len(s) + n
    <3>1. i - 1 \in Len(s) + 1 .. Len(s) + n
      BY <2>3
    <3> QED
      BY <2>3, <3>1
  <2> QED
    BY <1>2, <2>1, <2>2, <2>3
<1> QED
  BY <1>1, <1>2 DEF Follows

-----------------------------------------------------------------------------
(* The kinds of steps: what a request's record q becomes, and what is stored. *)

Becomes(r, q) == q \in Request /\ req' = [req EXCEPT ![r] = q]
Quiet == UNCHANGED <<storeVars, started, historyVars>>

\* The request, the version and the notes it loaded stay.
Same(q, p) == q.id = p.id /\ q.version = p.version /\ q.loaded = p.loaded

Opens(r, q) ==
  /\ req[r].phase = "idle" /\ version # 0
  /\ started < MaxRequests /\ started' = started + 1
  /\ q.phase = "loading" /\ q.id = started + 1 /\ q.version = version
  /\ q.loaded = notes /\ q.notes = notes /\ q.msgs = <<>> /\ q.kept = 0
  /\ UNCHANGED <<storeVars, historyVars>>

\* The record of a button, and of a turn with its question behind the transcript.
Takes(r, q) ==
  /\ req[r].phase = "loading" /\ r \notin Chats
  /\ q.phase = "acting" /\ Same(q, req[r]) /\ q.notes = req[r].notes
  /\ q.msgs = transcript /\ q.kept = Len(transcript)
  /\ Quiet

Questions(r, q) ==
  /\ req[r].phase = "loading" /\ r \in Chats
  /\ q.phase = "saving" /\ Same(q, req[r]) /\ q.notes = {}
  /\ q.kept = Len(transcript) /\ Len(q.msgs) = q.kept + 1
  /\ \A i \in 1 .. q.kept : q.msgs[i] = transcript[i]
  /\ q.msgs[q.kept + 1].turn = q.id /\ q.msgs[q.kept + 1].part = 0
  /\ q.msgs[q.kept + 1].told = req[r].notes
  /\ Quiet

Acts(r, q) ==
  /\ req[r].phase = "acting" /\ r \in Buttons
  /\ q.phase = "saving" /\ Same(q, req[r])
  /\ q.notes \in {req[r].notes, req[r].notes \cup {q.id}}
  /\ q.msgs = req[r].msgs /\ q.kept = req[r].kept
  /\ Quiet

Writes(r, q) ==
  LET p == req[r] IN
  /\ p.phase \in {"saving", "backing", "again"}
  /\ version = p.version /\ version' = version + 1
  /\ notes' = p.notes
  /\ queued' = queued \cup (p.notes \ p.loaded)
  /\ during' = IF Turning # {} THEN during \cup (p.notes \ p.loaded) ELSE during
  /\ UNCHANGED <<transcript, started, dropped>>
  /\ \/ ~Grew(p) /\ q = Idle
     \/ /\ Grew(p)
        /\ q.phase = IF p.phase = "saving" THEN "appending" ELSE "completing"
        /\ q.id = p.id /\ q.version = p.version + 1 /\ q.loaded = p.notes /\ q.notes = p.notes
        /\ q.msgs = p.msgs /\ q.kept = p.kept

Stores(r, q) ==
  LET p == req[r] IN
  /\ transcript' = Appended(p)
  /\ UNCHANGED <<version, notes, started, historyVars>>
  /\ \/ /\ p.phase = "appending" /\ q.phase = "streaming" /\ Same(q, p) /\ q.notes = p.notes
        /\ q.msgs = p.msgs /\ q.kept = Len(p.msgs)
     \/ p.phase = "completing" /\ q = Idle

Streams(r, q) ==
  LET p == req[r] IN
  /\ p.phase = "streaming"
  /\ q.phase = "backing" /\ Same(q, p) /\ q.notes = p.notes
  /\ q.kept \in {p.kept, 0} /\ Len(p.msgs) <= Len(q.msgs)
  /\ \A i \in 1 .. Len(p.msgs) : /\ q.msgs[i].turn = p.msgs[i].turn
                                 /\ q.msgs[i].part = p.msgs[i].part
                                 /\ q.msgs[i].told = p.msgs[i].told
  /\ \A i \in Len(p.msgs) + 1 .. Len(q.msgs) : /\ q.msgs[i].turn = q.id
                                               /\ q.msgs[i].part = i - Len(p.msgs)
                                               /\ q.msgs[i].told = {}
  /\ Quiet

Waits(r, q) ==
  LET p == req[r] IN
  /\ \/ p.phase = "backing" /\ q.phase = "rebasing"
     \/ p.phase = "rebasing" /\ q.phase = "again"
  /\ q.id = p.id /\ q.loaded = p.loaded /\ q.notes = p.notes
  /\ q.msgs = p.msgs /\ q.kept = p.kept
  /\ Quiet

Resets(r, q) ==
  /\ req[r].phase = "acting" /\ r \in Buttons /\ q = Idle
  /\ version' = 0 /\ notes' = {} /\ transcript' = <<>>
  /\ dropped' = IF Turning = {} /\ dropped # "busy" THEN "idle" ELSE "busy"
  /\ UNCHANGED <<started, queued, during>>

\* Nothing to write, a conflict, a failed action, a client gone away.
Ends(r, q) == req[r].phase # "appending" /\ q = Idle /\ Quiet

Goes(r, q) ==
  \/ Opens(r, q) \/ Takes(r, q) \/ Questions(r, q) \/ Acts(r, q)
  \/ Writes(r, q) \/ Stores(r, q) \/ Streams(r, q) \/ Waits(r, q) \/ Resets(r, q)
  \/ Ends(r, q)

LEMMA IdleIsARequest == Idle \in Request
BY DEF Idle, Request, Phases

LEMMA Fields ==
  ASSUME TypeOK, NEW r \in Slots
  PROVE  /\ req[r] \in Request /\ req[r].phase \in Phases
         /\ req[r].id \in {0} \cup Numbers /\ req[r].version \in Nat
         /\ req[r].loaded \in SUBSET Numbers /\ req[r].notes \in SUBSET Numbers
         /\ req[r].msgs \in Seq(Message) /\ req[r].kept \in Nat
BY DEF TypeOK, Request

LEMMA Opening ==
  ASSUME TypeOK, NEW r \in Slots, ReadState(r)
  PROVE  \E q : Becomes(r, q) /\ Opens(r, q)
<1> DEFINE q == [Idle EXCEPT !.phase = "loading", !.id = started + 1,
                   !.version = version, !.loaded = notes, !.notes = notes]
<1>1. started + 1 \in Numbers /\ notes \subseteq Numbers
  BY SessionBoundsAssumption DEF TypeOK, ReadState, Numbers
<1>2. /\ q.phase = "loading" /\ q.id = started + 1 /\ q.version = version
      /\ q.loaded = notes /\ q.notes = notes /\ q.msgs = <<>> /\ q.kept = 0
  BY DEF Idle
<1>3. q \in Request
  BY <1>1, IdleIsARequest DEF Request, Phases, TypeOK
<1>4. req' = [req EXCEPT ![r] = q]
  BY DEF ReadState
<1> HIDE DEF q
<1>5. req[r].phase = "idle"
  BY DEF ReadState, Idle
<1>6. Becomes(r, q) /\ Opens(r, q)
  BY <1>2, <1>3, <1>4, <1>5 DEF Becomes, Opens, ReadState
<1> QED
  BY <1>6

LEMMA Reading ==
  ASSUME TypeOK, NEW r \in Slots, ReadMessages(r), req[r].id # 0
  PROVE  \E q : Becomes(r, q) /\ (Takes(r, q) \/ Questions(r, q))
<1> DEFINE p == [req[r] EXCEPT !.msgs = transcript, !.kept = Len(transcript)]
<1>1. /\ req[r].phase = "loading" /\ Quiet
      /\ req' = [req EXCEPT ![r] = IF r \in Chats THEN [UserTurn(p) EXCEPT !.phase = "saving"]
                                                  ELSE [p EXCEPT !.phase = "acting"]]
  BY DEF ReadMessages, Quiet
<1>2. transcript \in Seq(Message) /\ Len(transcript) \in Nat
  BY DEF TypeOK
<1>3. CASE r \notin Chats
  <2> DEFINE q == [p EXCEPT !.phase = "acting"]
  <2>1. req' = [req EXCEPT ![r] = q]
    BY <1>1, <1>3
  <2>2. /\ q \in Request /\ q.phase = "acting" /\ Same(q, req[r]) /\ q.notes = req[r].notes
        /\ q.msgs = transcript /\ q.kept = Len(transcript)
    BY <1>2, Fields DEF Request, Same, Phases
  <2> HIDE DEF q
  <2>3. Becomes(r, q) /\ Takes(r, q)
    BY <1>1, <1>3, <2>1, <2>2 DEF Becomes, Takes
  <2> QED
    BY <2>3
<1>4. CASE r \in Chats
  <2> DEFINE m == [turn |-> req[r].id, part |-> 0, told |-> req[r].notes, cleared |-> FALSE]
             msgs == Append(transcript, m)
             q == [UserTurn(p) EXCEPT !.phase = "saving"]
  <2>1. req' = [req EXCEPT ![r] = q]
    BY <1>1, <1>4
  <2>2. m \in Message /\ m.turn = req[r].id /\ m.part = 0 /\ m.told = req[r].notes
    BY Fields, SessionBoundsAssumption DEF Message
  <2>3. p.id = req[r].id /\ p.notes = req[r].notes /\ p.msgs = transcript
    BY Fields DEF Request
  <2>4. /\ q.phase = "saving" /\ Same(q, req[r]) /\ q.notes = {} /\ q.kept = Len(transcript)
        /\ q.msgs = msgs
    BY <2>3, Fields DEF UserTurn, Request, Same
  <2> HIDE DEF m
  <2>5. /\ msgs \in Seq(Message) /\ Len(msgs) = Len(transcript) + 1
        /\ msgs[Len(transcript) + 1] = m
        /\ \A i \in 1 .. Len(transcript) : msgs[i] = transcript[i]
    BY <1>2, <2>2
  <2> HIDE DEF msgs
  <2>6. q \in Request
    BY <1>2, <2>3, <2>5, Fields DEF UserTurn, Request, Phases, m, msgs
  <2> HIDE DEF q
  <2>7. q.id = req[r].id
    BY <2>4 DEF Same
  <2>8. Becomes(r, q) /\ Questions(r, q)
    BY <1>1, <1>4, <2>1, <2>2, <2>4, <2>5, <2>6, <2>7 DEF Becomes, Questions
  <2> QED
    BY <2>8
<1> QED
  BY <1>3, <1>4

LEMMA Acting ==
  ASSUME TypeOK, NEW r \in Slots, ChangeAction(r), req[r].id # 0
  PROVE  \E q : Becomes(r, q) /\ (Acts(r, q) \/ Ends(r, q))
<1>1. r \in Buttons /\ req[r].phase = "acting" /\ Quiet
  BY DEF ChangeAction, Quiet
<1>2. CASE req' = [req EXCEPT ![r].phase = "saving", ![r].notes = @ \cup {req[r].id}]
  <2> DEFINE q == [req[r] EXCEPT !.phase = "saving", !.notes = @ \cup {req[r].id}]
  <2>1. /\ q \in Request /\ q.phase = "saving" /\ Same(q, req[r])
        /\ q.notes = req[r].notes \cup {q.id} /\ q.msgs = req[r].msgs /\ q.kept = req[r].kept
    BY Fields DEF Request, Same, Phases
  <2>2. req' = [req EXCEPT ![r] = q]
    BY <1>2
  <2> HIDE DEF q
  <2>3. Becomes(r, q) /\ Acts(r, q)
    BY <1>1, <2>1, <2>2 DEF Becomes, Acts
  <2> QED
    BY <2>3
<1>3. CASE req' = [req EXCEPT ![r].phase = "saving"]
  <2> DEFINE q == [req[r] EXCEPT !.phase = "saving"]
  <2>1. /\ q \in Request /\ q.phase = "saving" /\ Same(q, req[r])
        /\ q.notes = req[r].notes /\ q.msgs = req[r].msgs /\ q.kept = req[r].kept
    BY Fields DEF Request, Same, Phases
  <2>2. req' = [req EXCEPT ![r] = q]
    BY <1>3
  <2> HIDE DEF q
  <2>3. Becomes(r, q) /\ Acts(r, q)
    BY <1>1, <2>1, <2>2 DEF Becomes, Acts
  <2> QED
    BY <2>3
<1>4. CASE req' = [req EXCEPT ![r] = Idle]
  BY <1>1, <1>4, IdleIsARequest DEF Becomes, Ends
<1> QED
  BY <1>2, <1>3, <1>4 DEF ChangeAction

LEMMA Resetting ==
  ASSUME TypeOK, NEW r \in Slots, Reset(r)
  PROVE  \E q : Becomes(r, q) /\ Resets(r, q)
<1>1. Becomes(r, Idle) /\ Resets(r, Idle)
  BY IdleIsARequest DEF Reset, Becomes, Resets
<1> QED
  BY <1>1

LEMMA Writing ==
  ASSUME TypeOK, NEW r \in Slots, NEW next,
         \/ req[r].phase = "saving" /\ next = "appending"
         \/ req[r].phase \in {"backing", "again"} /\ next = "completing",
         WriteState(r, next)
  PROVE  \E q : Becomes(r, q) /\ Writes(r, q)
<1>1. /\ req[r].phase \in {"saving", "backing", "again"}
      /\ next = IF req[r].phase = "saving" THEN "appending" ELSE "completing"
      /\ version = req[r].version /\ version' = version + 1
      /\ notes' = req[r].notes
      /\ queued' = queued \cup (req[r].notes \ req[r].loaded)
      /\ during' = IF Turning # {} THEN during \cup (req[r].notes \ req[r].loaded) ELSE during
      /\ UNCHANGED <<transcript, started, dropped>>
  BY DEF WriteState, Writable
<1>2. CASE ~Grew(req[r])
  <2>1. Becomes(r, Idle)
    BY <1>2, IdleIsARequest DEF WriteState, Becomes
  <2>2. Writes(r, Idle)
    BY <1>1, <1>2 DEF Writes
  <2> QED
    BY <2>1, <2>2
<1>3. CASE Grew(req[r])
  <2> DEFINE q == [req[r] EXCEPT !.phase = next, !.version = @ + 1, !.loaded = req[r].notes]
  <2>1. next \in Phases /\ req[r].version + 1 \in Nat
    BY Fields DEF Phases
  <2>2. /\ q \in Request /\ q.phase = next /\ q.id = req[r].id
        /\ q.version = req[r].version + 1 /\ q.loaded = req[r].notes /\ q.notes = req[r].notes
        /\ q.msgs = req[r].msgs /\ q.kept = req[r].kept
    BY <2>1, Fields DEF Request
  <2>3. req' = [req EXCEPT ![r] = q]
    BY <1>3 DEF WriteState
  <2> HIDE DEF q
  <2>4. Becomes(r, q) /\ Writes(r, q)
    BY <1>1, <1>3, <2>2, <2>3 DEF Becomes, Writes
  <2> QED
    BY <2>4
<1> QED
  BY <1>2, <1>3

LEMMA Storing ==
  ASSUME TypeOK, NEW r \in Slots, WriteMessages(r)
  PROVE  \E q : Becomes(r, q) /\ Stores(r, q)
<1>1. /\ req[r].phase \in {"appending", "completing"}
      /\ transcript' = Appended(req[r])
      /\ UNCHANGED <<version, notes, started, historyVars>>
      /\ req' = [req EXCEPT ![r] =
           IF req[r].phase = "appending"
           THEN [req[r] EXCEPT !.phase = "streaming", !.kept = Len(req[r].msgs)] ELSE Idle]
  BY DEF WriteMessages
<1>2. CASE req[r].phase = "appending"
  <2> DEFINE q == [req[r] EXCEPT !.phase = "streaming", !.kept = Len(req[r].msgs)]
  <2>1. Len(req[r].msgs) \in Nat
    BY Fields
  <2>2. /\ q \in Request /\ q.phase = "streaming" /\ Same(q, req[r])
        /\ q.notes = req[r].notes /\ q.msgs = req[r].msgs /\ q.kept = Len(req[r].msgs)
    BY <2>1, Fields DEF Request, Same, Phases
  <2>3. req' = [req EXCEPT ![r] = q]
    BY <1>1, <1>2
  <2> HIDE DEF q
  <2>4. Becomes(r, q) /\ Stores(r, q)
    BY <1>1, <1>2, <2>2, <2>3 DEF Becomes, Stores
  <2> QED
    BY <2>4
<1>3. CASE req[r].phase = "completing"
  <2>1. req' = [req EXCEPT ![r] = Idle]
    BY <1>1, <1>3
  <2>2. Becomes(r, Idle)
    BY <2>1, IdleIsARequest DEF Becomes
  <2>3. Stores(r, Idle)
    BY <1>1, <1>3 DEF Stores
  <2> QED
    BY <2>2, <2>3
<1> QED
  BY <1>1, <1>2, <1>3

\* What the agent adds, behind messages that keep their turns, their places and what they tell.
LEMMA Replied ==
  ASSUME NEW p \in Request, NEW front \in Seq(Message), NEW n \in 0 .. MaxReplies,
         p.id \in Numbers, Len(front) = Len(p.msgs),
         \A i \in 1 .. Len(p.msgs) : /\ front[i].turn = p.msgs[i].turn
                                     /\ front[i].part = p.msgs[i].part
                                     /\ front[i].told = p.msgs[i].told
  PROVE  LET msgs == front \o Reply(p, n) IN
         /\ msgs \in Seq(Message) /\ Len(p.msgs) <= Len(msgs)
         /\ \A i \in 1 .. Len(p.msgs) : /\ msgs[i].turn = p.msgs[i].turn
                                        /\ msgs[i].part = p.msgs[i].part
                                        /\ msgs[i].told = p.msgs[i].told
         /\ \A i \in Len(p.msgs) + 1 .. Len(msgs) : /\ msgs[i].turn = p.id
                                                    /\ msgs[i].part = i - Len(p.msgs)
                                                    /\ msgs[i].told = {}
<1> DEFINE t == Reply(p, n)  msgs == front \o t
<1>1. n \in Nat /\ n <= MaxReplies
  BY SessionBoundsAssumption
<1>2. \A i \in 1 .. n : [turn |-> p.id, part |-> i, told |-> {}, cleared |-> FALSE] \in Message
  BY <1>1, SessionBoundsAssumption DEF Message
<1>3. t \in Seq(Message) /\ Len(t) = n
  BY <1>1, <1>2 DEF Reply
<1>4. \A i \in 1 .. n : t[i].turn = p.id /\ t[i].part = i /\ t[i].told = {}
  BY <1>1 DEF Reply
<1> HIDE DEF t
<1>5. /\ msgs \in Seq(Message) /\ Len(msgs) = Len(front) + n
      /\ \A i \in 1 .. Len(front) : msgs[i] = front[i]
      /\ \A i \in Len(front) + 1 .. Len(front) + n : msgs[i] = t[i - Len(front)]
  <2>1. /\ msgs \in Seq(Message) /\ Len(msgs) = Len(front) + Len(t)
        /\ \A i \in 1 .. Len(front) : msgs[i] = front[i]
        /\ \A i \in Len(front) + 1 .. Len(front) + Len(t) : msgs[i] = t[i - Len(front)]
    BY ONLY front \in Seq(Message), <1>3, JoinOf
  <2> QED
    BY <1>3, <2>1
<1> HIDE DEF msgs
<1>6. Len(p.msgs) \in Nat
  BY DEF Request
<1>7. ASSUME NEW i \in Len(p.msgs) + 1 .. Len(msgs)
      PROVE  msgs[i].turn = p.id /\ msgs[i].part = i - Len(p.msgs) /\ msgs[i].told = {}
  <2>1. i - Len(front) \in 1 .. n /\ msgs[i] = t[i - Len(front)]
    BY <1>1, <1>5, <1>6
  <2> QED
    BY <1>4, <2>1
<1>8. Len(p.msgs) <= Len(msgs)
  BY <1>1, <1>5, <1>6
<1> QED
  BY <1>5, <1>6, <1>7, <1>8 DEF msgs, t

LEMMA Streaming ==
  ASSUME TypeOK, NEW r \in Slots, Stream(r), req[r].id # 0, req[r].kept <= Len(req[r].msgs)
  PROVE  \E q : Becomes(r, q) /\ Streams(r, q)
<1> DEFINE p == req[r]
<1>1. p \in Request /\ p.id \in Numbers /\ p.msgs \in Seq(Message) /\ p.phase = "streaming" /\ Quiet
  BY Fields DEF Stream, Quiet
<1>2. PICK n \in 0 .. MaxReplies :
        \/ req' = [req EXCEPT ![r].phase = "backing", ![r].msgs = @ \o Reply(p, n)]
        \/ req' = [req EXCEPT ![r].phase = "backing", ![r].msgs = Clear(@) \o Reply(p, n),
                              ![r].kept = 0]
  BY DEF Stream
<1> DEFINE Streamed(msgs, kept) ==
             [req[r] EXCEPT !.phase = "backing", !.msgs = msgs, !.kept = kept]
<1>3. ASSUME NEW front \in Seq(Message), NEW kept \in {p.kept, 0}, Len(front) = Len(p.msgs),
             \A i \in 1 .. Len(p.msgs) : /\ front[i].turn = p.msgs[i].turn
                                         /\ front[i].part = p.msgs[i].part
                                         /\ front[i].told = p.msgs[i].told,
             req' = [req EXCEPT ![r] = Streamed(front \o Reply(p, n), kept)]
      PROVE  \E q : Becomes(r, q) /\ Streams(r, q)
  <2> DEFINE msgs == front \o Reply(p, n)  q == Streamed(msgs, kept)
  <2>1. /\ msgs \in Seq(Message) /\ Len(p.msgs) <= Len(msgs)
        /\ \A i \in 1 .. Len(p.msgs) : /\ msgs[i].turn = p.msgs[i].turn
                                       /\ msgs[i].part = p.msgs[i].part
                                       /\ msgs[i].told = p.msgs[i].told
        /\ \A i \in Len(p.msgs) + 1 .. Len(msgs) : /\ msgs[i].turn = p.id
                                                   /\ msgs[i].part = i - Len(p.msgs)
                                                   /\ msgs[i].told = {}
    BY <1>1, <1>3, Replied
  <2>2. req' = [req EXCEPT ![r] = q]
    BY <1>3
  <2> HIDE DEF msgs
  <2>3. /\ q \in Request /\ q.phase = "backing" /\ Same(q, p) /\ q.notes = p.notes
        /\ q.kept = kept /\ q.msgs = msgs
    <3>1. kept \in Nat /\ "backing" \in Phases
      BY Fields DEF Phases
    <3> QED
      BY <1>1, <2>1, <3>1 DEF Request, Same
  <2> HIDE DEF q
  <2>4. q.id = p.id
    BY <2>3 DEF Same
  <2>5. Becomes(r, q) /\ Streams(r, q)
    BY <1>1, <2>1, <2>2, <2>3, <2>4 DEF Becomes, Streams
  <2> QED
    BY <2>5
<1>4. CASE req' = [req EXCEPT ![r].phase = "backing", ![r].msgs = @ \o Reply(p, n)]
  <2>1. Streamed(p.msgs \o Reply(p, n), p.kept)
          = [req[r] EXCEPT !.phase = "backing", !.msgs = @ \o Reply(p, n)]
    BY <1>1 DEF Request
  <2>2. req' = [req EXCEPT ![r] = Streamed(p.msgs \o Reply(p, n), p.kept)]
    BY <1>4, <2>1
  <2> HIDE DEF Streamed
  <2> QED
    BY <1>1, <1>3, <2>2
<1>5. CASE req' = [req EXCEPT ![r].phase = "backing", ![r].msgs = Clear(@) \o Reply(p, n),
                              ![r].kept = 0]
  <2> DEFINE front == Clear(p.msgs)
  <2>1. \A i \in 1 .. Len(p.msgs) : p.msgs[i] \in Message
    BY <1>1
  <2>2. \A i \in 1 .. Len(p.msgs) :
          /\ [p.msgs[i] EXCEPT !.cleared = p.msgs[i].part > 0] \in Message
          /\ [p.msgs[i] EXCEPT !.cleared = p.msgs[i].part > 0].turn = p.msgs[i].turn
          /\ [p.msgs[i] EXCEPT !.cleared = p.msgs[i].part > 0].part = p.msgs[i].part
          /\ [p.msgs[i] EXCEPT !.cleared = p.msgs[i].part > 0].told = p.msgs[i].told
    <3>1. ASSUME NEW m \in Message, NEW b \in BOOLEAN
          PROVE  /\ [m EXCEPT !.cleared = b] \in Message
                 /\ [m EXCEPT !.cleared = b].turn = m.turn
                 /\ [m EXCEPT !.cleared = b].part = m.part
                 /\ [m EXCEPT !.cleared = b].told = m.told
      BY DEF Message
    <3>2. \A i \in 1 .. Len(p.msgs) : (p.msgs[i].part > 0) \in BOOLEAN
      OBVIOUS
    <3> QED
      BY <2>1, <3>1, <3>2
  <2>3. front = [i \in 1 .. Len(p.msgs) |-> [p.msgs[i] EXCEPT !.cleared = p.msgs[i].part > 0]]
    BY <1>1 DEF Clear
  <2>4. front \in Seq(Message) /\ Len(front) = Len(p.msgs)
    BY <1>1, <2>2, <2>3
  <2>5. \A i \in 1 .. Len(p.msgs) : /\ front[i].turn = p.msgs[i].turn
                                    /\ front[i].part = p.msgs[i].part
                                    /\ front[i].told = p.msgs[i].told
    BY <2>2, <2>3
  <2> HIDE DEF front
  <2>6. req' = [req EXCEPT ![r] = Streamed(front \o Reply(p, n), 0)]
    BY <1>5 DEF front
  <2> HIDE DEF Streamed
  <2> QED
    BY <1>3, <2>4, <2>5, <2>6
<1> QED
  BY <1>2, <1>4, <1>5

LEMMA Steps ==
  ASSUME TypeOK, Placed, [Next]_vars, ~UNCHANGED vars
  PROVE  \E r \in Slots : \E q : Becomes(r, q) /\ Goes(r, q)
<1>1. PICK r \in Slots :
        \/ ReadState(r) \/ ReadMessages(r)
        \/ ChangeAction(r) \/ Reset(r)
        \/ Save(r) \/ WriteMessages(r)
        \/ Stream(r) \/ Abandon(r)
        \/ WriteBack(r) \/ Rebase(r) \/ WriteBackAgain(r)
  BY DEF Next
<1>2. req[r].phase # "idle" => req[r].id # 0
  BY DEF Placed
<1>3. req[r].kept <= Len(req[r].msgs)
  BY DEF TypeOK
<1>4. SUFFICES \E q : Becomes(r, q) /\ Goes(r, q)
  OBVIOUS
<1>5. CASE ReadState(r)
  BY <1>5, Opening DEF Goes
<1>6. CASE ReadMessages(r)
  <2>1. req[r].id # 0
    BY <1>2, <1>6 DEF ReadMessages
  <2> QED
    BY <1>6, <2>1, Reading DEF Goes
<1>7. CASE ChangeAction(r)
  <2>1. req[r].id # 0
    BY <1>2, <1>7 DEF ChangeAction
  <2> QED
    BY <1>7, <2>1, Acting DEF Goes
<1>8. CASE Reset(r)
  BY <1>8, Resetting DEF Goes
<1>9. CASE WriteMessages(r)
  BY <1>9, Storing DEF Goes
<1>10. CASE Stream(r)
  <2>1. req[r].id # 0
    BY <1>2, <1>10 DEF Stream
  <2> QED
    BY <1>3, <1>10, <2>1, Streaming DEF Goes
<1>11. ASSUME req' = [req EXCEPT ![r] = Idle], Quiet, req[r].phase # "appending"
       PROVE  \E q : Becomes(r, q) /\ Goes(r, q)
  BY <1>11, IdleIsARequest DEF Becomes, Goes, Ends
<1>12. CASE Save(r)
  <2>1. CASE WriteState(r, "appending")
    BY <1>12, <2>1, Writing DEF Save, Goes
  <2> QED
    BY <1>11, <1>12, <2>1 DEF Save, Quiet
<1>13. CASE Abandon(r)
  BY <1>11, <1>13 DEF Abandon, Quiet
<1>14. ASSUME NEW next \in {"rebasing", "again"}, NEW v \in Nat,
              req' = [req EXCEPT ![r] = [req[r] EXCEPT !.phase = next, !.version = v]], Quiet,
              \/ req[r].phase = "backing" /\ next = "rebasing"
              \/ req[r].phase = "rebasing" /\ next = "again"
       PROVE  \E q : Becomes(r, q) /\ Goes(r, q)
  <2> DEFINE q == [req[r] EXCEPT !.phase = next, !.version = v]
  <2>1. /\ q \in Request /\ q.phase = next /\ q.id = req[r].id /\ q.loaded = req[r].loaded
        /\ q.notes = req[r].notes /\ q.msgs = req[r].msgs /\ q.kept = req[r].kept
    BY Fields DEF Request, Phases
  <2> HIDE DEF q
  <2>2. Becomes(r, q) /\ Waits(r, q)
    BY <1>14, <2>1 DEF Becomes, Waits, q
  <2> QED
    BY <2>2 DEF Goes
<1>15. CASE WriteBack(r)
  <2>1. CASE WriteState(r, "completing")
    BY <1>15, <2>1, Writing DEF WriteBack, Goes
  <2>2. CASE req' = [req EXCEPT ![r].phase = "rebasing"] /\ Quiet
    <3>1. [req[r] EXCEPT !.phase = "rebasing", !.version = req[r].version]
            = [req[r] EXCEPT !.phase = "rebasing"]
      BY Fields DEF Request
    <3>2. req' = [req EXCEPT ![r] =
                    [req[r] EXCEPT !.phase = "rebasing", !.version = req[r].version]]
      BY <2>2, <3>1
    <3>3. req[r].version \in Nat /\ req[r].phase = "backing"
      BY <1>15, Fields DEF WriteBack
    <3> QED
      BY <1>14, <2>2, <3>2, <3>3
  <2> QED
    BY <1>11, <1>15, <2>1, <2>2 DEF WriteBack, Quiet
<1>16. CASE Rebase(r)
  <2>1. /\ req' = [req EXCEPT ![r] = [req[r] EXCEPT !.phase = "again", !.version = version]]
        /\ Quiet /\ version \in Nat /\ req[r].phase = "rebasing"
    BY <1>16 DEF Rebase, Quiet, TypeOK
  <2> QED
    BY <1>14, <2>1
<1>17. CASE WriteBackAgain(r)
  <2>1. CASE WriteState(r, "completing")
    BY <1>17, <2>1, Writing DEF WriteBackAgain, Goes
  <2> QED
    BY <1>11, <1>17, <2>1 DEF WriteBackAgain, Quiet
<1> QED
  BY <1>1, <1>5, <1>6, <1>7, <1>8, <1>9, <1>10, <1>12, <1>13, <1>15, <1>16, <1>17

\* What a step does to the requests.
LEMMA Others ==
  ASSUME TypeOK, NEW r \in Slots, NEW q, Becomes(r, q)
  PROVE  /\ req' \in [Slots -> Request] /\ req'[r] = q
         /\ \A s \in Slots : s # r => req'[s] = req[s]
BY DEF TypeOK, Becomes

-----------------------------------------------------------------------------
(* Types, places and the reset, for any number of turns. *)

LEMMA IdleIs ==
  /\ Idle.phase = "idle" /\ Idle.id = 0 /\ Idle.version = 0 /\ Idle.loaded = {} /\ Idle.notes = {}
  /\ Idle.msgs = <<>> /\ Idle.kept = 0 /\ Len(Idle.msgs) = 0
BY DEF Idle

\* What the record of a request becomes.
Fits(r, q) ==
  /\ q.kept <= Len(q.msgs)
  /\ q.phase # "idle" => \/ req[r].phase # "idle" /\ q.id = req[r].id
                         \/ q.id = started + 1 /\ started' = started + 1
  /\ q.phase \in Early => q.version # 0
  /\ q.notes \subseteq 1 .. started'
  /\ r \in Buttons => /\ q.phase \in {"idle"} \cup Early
                      /\ q.phase # "idle" => q.kept = Len(q.msgs)
  /\ r \in Chats => q.phase # "acting"

LEMMA Fitting ==
  ASSUME TypeOK, Placed, NEW r \in Slots, NEW q, Becomes(r, q), Goes(r, q)
  PROVE  Fits(r, q)
<1> DEFINE p == req[r]
<1>1. /\ p.kept <= Len(p.msgs) /\ p.notes \subseteq 1 .. started
      /\ p.phase # "idle" => p.id \in 1 .. started
      /\ p.phase \in Early => p.version # 0
      /\ p.kept \in Nat /\ Len(p.msgs) \in Nat /\ started \in Nat
      /\ r \in Buttons => /\ p.phase \in {"idle"} \cup Early
                          /\ p.phase # "idle" => p.kept = Len(p.msgs)
      /\ r \in Chats => p.phase # "acting"
  BY Fields DEF TypeOK, Placed, Slots
<1>2. r \in Buttons => r \notin Chats
  BY SlotsAssumption
<1> HIDE DEF p
<1>3. CASE Opens(r, q)
  <2>1. notes \subseteq 1 .. started' /\ Len(<<>>) = 0
    BY <1>1, <1>3 DEF TypeOK, Opens
  <2> QED
    BY <1>3, <2>1 DEF Opens, Fits, Early
<1>4. CASE Takes(r, q)
  <2>1. Len(transcript) \in Nat /\ started' = started /\ q.notes = p.notes
    BY <1>4 DEF TypeOK, Takes, Quiet, p
  <2> QED
    BY <1>1, <1>4, <2>1 DEF Takes, Fits, Early, Same, p
<1>5. CASE Questions(r, q)
  <2>1. Len(transcript) \in Nat /\ started' = started
    BY <1>5 DEF TypeOK, Questions, Quiet
  <2> QED
    BY <1>1, <1>2, <1>5, <2>1 DEF Questions, Fits, Early, Same, p
<1>6. CASE Acts(r, q)
  <2>1. /\ started' = started /\ q.id = p.id /\ p.id \in 1 .. started
        /\ q.notes \subseteq p.notes \cup {p.id}
    BY <1>1, <1>6 DEF Acts, Quiet, Same, p
  <2> QED
    BY <1>1, <1>2, <1>6, <2>1 DEF Acts, Fits, Early, Same, p
<1>7. CASE Writes(r, q)
  <2>1. CASE q = Idle
    BY <2>1, IdleIs DEF Fits, Early
  <2>2. CASE q # Idle
    <3>1. /\ Grew(p) /\ started' = started
          /\ q.phase \in {"appending", "completing"} /\ q.id = p.id /\ q.notes = p.notes
          /\ q.msgs = p.msgs /\ q.kept = p.kept /\ p.phase # "idle"
      BY <1>7, <2>2 DEF Writes, p
    <3>2. r \notin Buttons
      BY <1>1, <3>1 DEF Grew
    <3> QED
      BY <1>1, <3>1, <3>2 DEF Fits, Early, p
  <2> QED
    BY <2>1, <2>2
<1>8. CASE Stores(r, q)
  <2>1. CASE q = Idle
    BY <2>1, IdleIs DEF Fits, Early
  <2>2. CASE q # Idle
    <3>1. /\ p.phase = "appending" /\ started' = started /\ q.phase = "streaming" /\ q.id = p.id
          /\ q.notes = p.notes /\ q.msgs = p.msgs /\ q.kept = Len(p.msgs)
      BY <1>8, <2>2 DEF Stores, Same, p
    <3>2. r \notin Buttons
      BY <1>1, <3>1 DEF Early
    <3> QED
      BY <1>1, <3>1, <3>2 DEF Fits, Early, p
  <2> QED
    BY <2>1, <2>2
<1>9. CASE Streams(r, q)
  <2>1. /\ p.phase = "streaming" /\ started' = started /\ q.phase = "backing" /\ q.id = p.id
        /\ q.notes = p.notes /\ q.kept \in {p.kept, 0} /\ Len(p.msgs) <= Len(q.msgs)
    BY <1>9 DEF Streams, Same, Quiet, p
  <2>2. r \notin Buttons /\ Len(q.msgs) \in Nat
    BY <1>1, <2>1 DEF Early, Becomes, Request
  <2> QED
    BY <1>1, <2>1, <2>2 DEF Fits, Early, p
<1>10. CASE Waits(r, q)
  <2>1. /\ p.phase \in {"backing", "rebasing"} /\ started' = started
        /\ q.phase \in {"rebasing", "again"} /\ q.id = p.id
        /\ q.notes = p.notes /\ q.kept = p.kept /\ q.msgs = p.msgs
    BY <1>10 DEF Waits, Quiet, p
  <2>2. r \notin Buttons
    BY <1>1, <2>1 DEF Early
  <2> QED
    BY <1>1, <2>1, <2>2 DEF Fits, Early, p
<1>11. CASE q = Idle
  BY <1>11, IdleIs DEF Fits, Early
<1>12. Resets(r, q) \/ Ends(r, q) => q = Idle
  BY DEF Resets, Ends
<1> QED
  BY <1>3, <1>4, <1>5, <1>6, <1>7, <1>8, <1>9, <1>10, <1>11, <1>12 DEF Goes

\* What a step stores.
LEMMA StoreTyped ==
  ASSUME TypeOK, Placed, NEW r \in Slots, NEW q, Becomes(r, q), Goes(r, q)
  PROVE  /\ version' \in Nat /\ notes' \subseteq 1 .. started' /\ transcript' \in Seq(Message)
         /\ started' \in 0 .. MaxRequests /\ started <= started'
         /\ queued' \subseteq 1 .. started' /\ during' \subseteq queued'
         /\ dropped' \in {"no", "idle", "busy"}
<1>1. /\ version \in Nat /\ notes \subseteq 1 .. started /\ transcript \in Seq(Message)
      /\ started \in 0 .. MaxRequests /\ MaxRequests \in Nat
      /\ queued \subseteq 1 .. started /\ during \subseteq queued
      /\ dropped \in {"no", "idle", "busy"} /\ req[r].notes \subseteq 1 .. started
  BY SessionBoundsAssumption DEF TypeOK, Placed
<1>2. CASE Opens(r, q)
  <2>1. /\ UNCHANGED <<version, notes, transcript, queued, during, dropped>>
        /\ started' = started + 1 /\ started < MaxRequests
    BY <1>2 DEF Opens, storeVars, historyVars
  <2>2. 1 .. started \subseteq 1 .. started' /\ started' \in 0 .. MaxRequests /\ started <= started'
    BY <1>1, <2>1
  <2> QED
    BY <1>1, <2>1, <2>2
<1>3. CASE Quiet
  BY <1>1, <1>3 DEF Quiet, storeVars, historyVars
<1>4. CASE Writes(r, q)
  <2>1. /\ version' = version + 1 /\ notes' = req[r].notes
        /\ queued' = queued \cup (req[r].notes \ req[r].loaded)
        /\ during' \in {during, during \cup (req[r].notes \ req[r].loaded)}
        /\ UNCHANGED <<transcript, started, dropped>>
    BY <1>4 DEF Writes
  <2>2. /\ version' \in Nat /\ notes' \subseteq 1 .. started' /\ transcript' \in Seq(Message)
        /\ started' \in 0 .. MaxRequests /\ started <= started'
        /\ dropped' \in {"no", "idle", "busy"}
    BY <1>1, <2>1
  <2>3. queued' \subseteq 1 .. started' /\ during' \subseteq queued'
    BY <1>1, <2>1
  <2> QED
    BY <2>2, <2>3
<1>5. CASE Stores(r, q)
  <2>1. transcript' = Appended(req[r]) /\ UNCHANGED <<version, notes, started, queued, during, dropped>>
    BY <1>5 DEF Stores, historyVars
  <2>2. Appended(req[r]) \in Seq(Message)
    <3>1. req[r] \in Request /\ req[r].kept <= Len(req[r].msgs)
      BY Fields DEF TypeOK
    <3>2. Onto(transcript, req[r]) \in Seq(Message)
      BY <1>1, <3>1, OntoIs
    <3> QED
      BY <3>2 DEF Appended, Onto
  <2> QED
    BY <1>1, <2>1, <2>2
<1>6. CASE Resets(r, q)
  <2>1. /\ version' = 0 /\ notes' = {} /\ transcript' = <<>>
        /\ dropped' \in {"idle", "busy"} /\ UNCHANGED <<started, queued, during>>
    BY <1>6 DEF Resets
  <2>2. <<>> \in Seq(Message)
    OBVIOUS
  <2> QED
    BY <1>1, <2>1, <2>2
<1>7. Takes(r, q) \/ Questions(r, q) \/ Acts(r, q) \/ Streams(r, q) \/ Waits(r, q) \/ Ends(r, q)
        => Quiet
  BY DEF Takes, Questions, Acts, Streams, Waits, Ends
<1> QED
  BY <1>2, <1>3, <1>4, <1>5, <1>6, <1>7 DEF Goes

LEMMA PlacedKept ==
  ASSUME TypeOK, Placed, NEW r \in Slots, NEW q, Becomes(r, q), Goes(r, q)
  PROVE  Placed'
<1>1. /\ req'[r] = q /\ \A s \in Slots : s # r => req'[s] = req[s]
  BY Others
<1>2. Fits(r, q)
  BY Fitting
<1>3. started \in Nat /\ started' \in Nat /\ started <= started'
  <2>1. started' \in 0 .. MaxRequests /\ started <= started'
    BY StoreTyped
  <2>2. started \in 0 .. MaxRequests
    BY DEF TypeOK
  <2> QED
    BY <2>1, <2>2, SessionBoundsAssumption
<1> HIDE DEF Slots
<1>4. 1 .. started \subseteq 1 .. started'
  BY <1>3
<1>5. ASSUME NEW s \in Slots
      PROVE  /\ req'[s].phase # "idle" => req'[s].id \in 1 .. started'
             /\ req'[s].phase \in Early => req'[s].version # 0
             /\ req'[s].notes \subseteq 1 .. started'
  <2>1. CASE s = r
    <3>1. q.phase # "idle" => q.id \in 1 .. started'
      BY <1>2, <1>3, <1>4 DEF Fits, Placed
    <3> QED
      BY <1>1, <1>2, <2>1, <3>1 DEF Fits
  <2>2. CASE s # r
    BY <1>1, <1>4, <2>2 DEF Placed
  <2> QED
    BY <2>1, <2>2
<1>6. ASSUME NEW s \in Buttons
      PROVE  /\ req'[s].phase \in {"idle"} \cup Early
             /\ req'[s].phase # "idle" => req'[s].kept = Len(req'[s].msgs)
  <2>1. s \in Slots
    BY DEF Slots
  <2>2. CASE s = r
    BY <1>1, <1>2, <2>2 DEF Fits
  <2>3. CASE s # r
    <3>1. req'[s] = req[s]
      BY <1>1, <2>1, <2>3
    <3> QED
      BY <3>1 DEF Placed
  <2> QED
    BY <2>2, <2>3
<1>7. ASSUME NEW s \in Chats
      PROVE  req'[s].phase # "acting"
  <2>1. s \in Slots
    BY DEF Slots
  <2> QED
    BY <1>1, <1>2, <2>1 DEF Fits, Placed
<1>8. ASSUME NEW s \in Slots, NEW t \in Slots, req'[s].phase # "idle", req'[t].phase # "idle",
             req'[s].id = req'[t].id
      PROVE  s = t
  <2>1. ASSUME NEW u \in Slots, u # r, req'[u].phase # "idle", q.phase # "idle", q.id = req'[u].id
        PROVE  FALSE
    <3>1. req'[u] = req[u] /\ req[u].id \in 1 .. started /\ req[u].phase # "idle"
      BY <1>1, <2>1 DEF Placed
    <3>2. CASE req[r].phase # "idle" /\ q.id = req[r].id
      BY <2>1, <3>1, <3>2 DEF Placed
    <3>3. CASE q.id = started + 1
      BY <1>3, <2>1, <3>1, <3>3
    <3> QED
      BY <1>2, <2>1, <3>2, <3>3 DEF Fits
  <2>2. CASE s = r /\ t # r
    BY <1>1, <1>8, <2>1, <2>2
  <2>3. CASE t = r /\ s # r
    BY <1>1, <1>8, <2>1, <2>3
  <2>4. CASE s # r /\ t # r
    BY <1>1, <1>8, <2>4 DEF Placed
  <2> QED
    BY <2>2, <2>3, <2>4
<1> QED
  BY <1>5, <1>6, <1>7, <1>8 DEF Placed

\* Whether a turn is under way after a step.
LEMMA GoneKept ==
  ASSUME TypeOK, Placed, Gone, NEW r \in Slots, NEW q, Becomes(r, q), Goes(r, q)
  PROVE  Gone'
<1>1. /\ req'[r] = q /\ \A s \in Slots : s # r => req'[s] = req[s]
  BY Others
<1>2. Chats \subseteq Slots /\ Buttons \subseteq Slots /\ Chats \cap Buttons = {}
      /\ r \in Chats \cup Buttons
  BY SlotsAssumption DEF Slots
<1> HIDE DEF Slots
<1>3. ASSUME Turning = {}, r \notin Chats \/ q.phase \in {"idle", "loading", "saving"}
      PROVE  Turning' = {}
  BY <1>1, <1>2, <1>3 DEF Turning
<1>4. ASSUME dropped = "idle"
      PROVE  /\ version = 0 /\ Turning = {}
             /\ r \in Chats => req[r].phase \in {"idle", "loading", "saving"}
  BY <1>4 DEF Gone, Turning
<1>5. r \in Buttons => req[r].phase \in {"idle"} \cup Early
  BY DEF Placed
<1>6. req[r].phase \in {"appending", "completing", "streaming", "backing", "rebasing", "again"}
        => dropped # "idle"
  BY <1>2, <1>4, <1>5 DEF Early
<1>7. CASE Resets(r, q)
  <2>1. r \notin Chats
    BY <1>2, <1>7 DEF Resets
  <2> QED
    BY <1>3, <1>7, <2>1 DEF Resets, Gone
<1>8. CASE Opens(r, q)
  BY <1>4, <1>8 DEF Opens, Gone, historyVars
<1>9. CASE Writes(r, q)
  <2>1. dropped' = dropped /\ (req[r].phase = "saving" => req[r].version # 0)
        /\ req[r].phase \in {"saving", "backing", "again"} /\ version = req[r].version
    BY <1>9 DEF Writes, Placed, Early
  <2> QED
    BY <1>4, <1>6, <2>1 DEF Gone
<1>10. CASE Stores(r, q)
  BY <1>6, <1>10 DEF Stores, Gone, historyVars
<1>11. CASE Streams(r, q) \/ Waits(r, q)
  BY <1>6, <1>11 DEF Streams, Waits, Gone, Quiet, historyVars
<1>12. CASE Takes(r, q) \/ Questions(r, q) \/ Acts(r, q) \/ Ends(r, q)
  <2>1. r \notin Chats \/ q.phase \in {"idle", "loading", "saving"}
    BY <1>2, <1>12, IdleIs DEF Takes, Questions, Acts, Ends
  <2>2. dropped' = dropped /\ version' = version
    BY <1>12 DEF Takes, Questions, Acts, Ends, Quiet, historyVars, storeVars
  <2> QED
    BY <1>3, <2>1, <2>2 DEF Gone
<1> QED
  BY <1>7, <1>8, <1>9, <1>10, <1>11, <1>12 DEF Goes

LEMMA BaseInit == Init => BaseInv
<1> SUFFICES ASSUME Init PROVE BaseInv
  OBVIOUS
<1>1. \A r \in Slots : req[r] = Idle
  BY DEF Init
<1>2. TypeOK
  <2>1. req \in [Slots -> Request] /\ <<>> \in Seq(Message)
    BY IdleIsARequest DEF Init
  <2>2. \A r \in Slots : req[r].kept <= Len(req[r].msgs)
    BY <1>1, IdleIs
  <2> QED
    BY <2>1, <2>2, SessionBoundsAssumption DEF Init, TypeOK
<1>3. Placed
  BY <1>1, IdleIs DEF Placed, Early, Slots
<1>4. Gone
  BY DEF Init, Gone
<1> QED
  BY <1>2, <1>3, <1>4 DEF BaseInv

LEMMA BaseStep == BaseInv /\ [Next]_vars => BaseInv'
<1> SUFFICES ASSUME BaseInv, [Next]_vars PROVE BaseInv'
  OBVIOUS
<1>1. TypeOK /\ Placed /\ Gone
  BY DEF BaseInv
<1>2. CASE UNCHANGED vars
  BY <1>1, <1>2 DEF BaseInv, TypeOK, Placed, Gone, Turning, vars
<1>3. CASE ~UNCHANGED vars
  <2>0. PICK r \in Slots : \E q : Becomes(r, q) /\ Goes(r, q)
    BY <1>1, <1>3, Steps
  <2>1. PICK q : Becomes(r, q) /\ Goes(r, q)
    BY <2>0
  <2>2. TypeOK'
    <3>1. /\ req' \in [Slots -> Request] /\ req'[r] = q
          /\ \A s \in Slots : s # r => req'[s] = req[s]
      BY <1>1, <2>1, Others
    <3>2. q.kept <= Len(q.msgs)
      BY <1>1, <2>1, Fitting DEF Fits
    <3>3. \A s \in Slots : req'[s].kept <= Len(req'[s].msgs)
      BY <1>1, <3>1, <3>2 DEF TypeOK
    <3>4. /\ version' \in Nat /\ notes' \subseteq 1 .. started' /\ transcript' \in Seq(Message)
          /\ started' \in 0 .. MaxRequests
          /\ queued' \subseteq 1 .. started' /\ during' \subseteq queued'
          /\ dropped' \in {"no", "idle", "busy"}
      BY <1>1, <2>1, StoreTyped
    <3> QED
      BY <3>1, <3>3, <3>4 DEF TypeOK
  <2>3. Placed' /\ Gone'
    BY <1>1, <2>1, PlacedKept, GoneKept
  <2> QED
    BY <2>2, <2>3 DEF BaseInv
<1> QED
  BY <1>2, <1>3

\* TypeOK: every record a request holds and every document it saves is of its type, and a
\* request never keeps more of the transcript than it holds.
THEOREM PortalTypes == Spec => []TypeOK
<1>1. Spec => []BaseInv
  BY BaseInit, BaseStep, PTL DEF Spec
<1>2. BaseInv => TypeOK
  BY DEF BaseInv
<1> QED
  BY <1>1, <1>2, PTL

\* ResetIsFinal: a session that was reset while no turn streamed stays gone, for any number of
\* requests that still hold a record of it (write_state's version check).
THEOREM ResetStays == Spec => []ResetIsFinal
<1>1. Spec => []BaseInv
  BY BaseInit, BaseStep, PTL DEF Spec
<1>2. BaseInv => ResetIsFinal
  BY DEF BaseInv, Gone, ResetIsFinal
<1> QED
  BY <1>1, <1>2, PTL

-----------------------------------------------------------------------------
(* Where a turn's messages stand to the transcript, step by step. *)

LEMMA FollowsShort ==
  /\ Follows(<<>>)
  /\ \A s \in Seq(Message) : Len(s) = 1 => Follows(s)
BY DEF Follows

\* A request with nothing to continue.
LEMMA ContinuesIdle ==
  ASSUME NEW t
  PROVE  Continues(t, Idle)
BY FollowsShort, IdleIs DEF Continues, Replying

\* A reset leaves a turn its own messages to store.
LEMMA ContinuesAnew ==
  ASSUME NEW t \in Seq(Message), NEW q \in Request, q.kept <= Len(q.msgs), Continues(t, q),
         NEW e \in Seq(Message), Len(e) = 0, e = <<>>
  PROVE  Continues(e, q)
<1>1. q.msgs \in Seq(Message) /\ q.kept \in 0 .. Len(q.msgs)
  BY DEF Request
<1> DEFINE u == Onto(e, q)
<1>2. /\ u \in Seq(Message) /\ Cut(e, q) \in 0 .. Len(e)
      /\ Len(u) = Cut(e, q) + Len(q.msgs) - q.kept
      /\ \A i \in Cut(e, q) + 1 .. Len(u) : u[i] = q.msgs[q.kept + i - Cut(e, q)]
  BY OntoIs
<1> HIDE DEF u
<1>3. Cut(e, q) = 0
  BY <1>2
<1>4. Len(u) + q.kept <= Len(q.msgs) /\ Len(u) \in Nat
  BY <1>1, <1>2, <1>3
<1>5. ASSUME NEW i \in 1 .. Len(u)
      PROVE  u[i] = q.msgs[q.kept + i]
  <2>1. i \in Cut(e, q) + 1 .. Len(u) /\ q.kept + i - Cut(e, q) = q.kept + i
    BY <1>1, <1>3
  <2> QED
    BY <1>2, <2>1
<1>6. Follows(q.msgs)
  BY DEF Continues
<1>7. Follows(u)
  <2>1. q.kept \in Nat
    BY <1>1
  <2> QED
    BY <1>1, <1>2, <1>4, <1>5, <1>6, <2>1, FollowsPart
<1>8. q.phase = "loading" => Without(e, q.id)
  BY DEF Without
<1> QED
  BY <1>1, <1>6, <1>7, <1>8 DEF Continues, u

LEMMA ContinuesAsking ==
  ASSUME NEW t \in Seq(Message), NEW q \in Request, Follows(t), Without(t, q.id),
         q.phase = "saving", q.kept = Len(t), Len(q.msgs) = q.kept + 1,
         \A i \in 1 .. q.kept : q.msgs[i] = t[i],
         q.msgs[q.kept + 1].turn = q.id, q.msgs[q.kept + 1].part = 0
  PROVE  Continues(t, q)
<1>1. q.msgs \in Seq(Message) /\ Len(t) \in Nat
  BY DEF Request
<1>2. Follows(q.msgs) /\ Asks(q.msgs, q.id)
  BY <1>1, FollowsAsked
<1>3. t = SubSeq(q.msgs, 1, q.kept)
  <2>1. /\ SubSeq(q.msgs, 1, q.kept) \in Seq(Message) /\ Len(SubSeq(q.msgs, 1, q.kept)) = q.kept
        /\ \A i \in 1 .. q.kept : SubSeq(q.msgs, 1, q.kept)[i] = q.msgs[i]
    BY <1>1, FrontOf
  <2> QED
    BY <2>1, SameSequence
<1> QED
  BY <1>1, <1>2, <1>3 DEF Continues, Replying

\* The transcript behind the question's save.
LEMMA ContinuesStored ==
  ASSUME NEW t \in Seq(Message), NEW p \in Request, NEW q \in Request,
         Continues(t, p), p.phase = "appending",
         q.phase = "streaming", q.id = p.id, q.msgs = p.msgs, q.kept = Len(p.msgs)
  PROVE  Follows(Onto(t, p)) /\ Continues(Onto(t, p), q)
<1>1. /\ p.msgs \in Seq(Message) /\ p.kept \in Nat /\ p.kept = Len(p.msgs) - 1
      /\ Asks(p.msgs, p.id) /\ Follows(p.msgs)
      /\ t = SubSeq(p.msgs, 1, p.kept) \/ t = <<>>
  BY DEF Continues, Request
<1> DEFINE u == Onto(t, p)
<1>2. SUFFICES Follows(u) /\ (u = <<>> \/ Asks(u, p.id)) /\ Len(u) <= Len(p.msgs)
  BY <1>1 DEF Continues, Replying
<1>3. /\ u \in Seq(Message) /\ Len(u) = Cut(t, p) + 1
      /\ \A i \in 1 .. Cut(t, p) : u[i] = t[i]
      /\ u[Cut(t, p) + 1] = p.msgs[p.kept + 1]
      /\ Cut(t, p) \in Nat
  <2>1. p.kept <= Len(p.msgs) /\ Len(p.msgs) \in Nat
    BY <1>1
  <2>2. /\ u \in Seq(Message)
        /\ Cut(t, p) \in 0 .. Len(t)
        /\ Len(u) = Cut(t, p) + Len(p.msgs) - p.kept
        /\ \A i \in 1 .. Cut(t, p) : u[i] = t[i]
        /\ \A i \in Cut(t, p) + 1 .. Len(u) : u[i] = p.msgs[p.kept + i - Cut(t, p)]
    BY <2>1, OntoIs
  <2> HIDE DEF u
  <2>3. /\ Cut(t, p) \in Nat /\ Len(u) = Cut(t, p) + 1
        /\ p.kept + (Cut(t, p) + 1) - Cut(t, p) = p.kept + 1
    BY <1>1, <2>2
  <2>4. u[Cut(t, p) + 1] = p.msgs[p.kept + (Cut(t, p) + 1) - Cut(t, p)]
    BY <2>2, <2>3
  <2> QED
    BY <2>2, <2>3, <2>4
<1>4. CASE t = SubSeq(p.msgs, 1, p.kept)
  <2>1. Len(t) = p.kept /\ \A i \in 1 .. p.kept : t[i] = p.msgs[i]
    BY <1>1, <1>4, FrontOf
  <2>2. Cut(t, p) = p.kept
    BY <2>1 DEF Cut
  <2>3. u = p.msgs
    <3>1. Len(u) = Len(p.msgs) /\ \A i \in 1 .. Len(u) : u[i] = p.msgs[i]
      BY <1>1, <1>3, <2>1, <2>2
    <3> QED
      BY <1>1, <1>3, <3>1, SameSequence
  <2> QED
    BY <1>1, <2>3
<1>5. CASE t = <<>>
  <2>1. Cut(t, p) = 0 /\ Len(u) = 1 /\ u[1] = p.msgs[Len(p.msgs)]
    BY <1>1, <1>3, <1>5 DEF Cut
  <2> HIDE DEF u
  <2>2. Follows(u)
    BY <1>3, <2>1, FollowsShort
  <2>3. p.msgs[Len(p.msgs)].turn = p.id /\ p.msgs[Len(p.msgs)].part = 0
    BY <1>1 DEF Asks
  <2>4. Asks(u, p.id)
    <3>0. u[Len(u)] = p.msgs[Len(p.msgs)]
      BY <2>1
    <3>1. u # <<>> /\ u[Len(u)].turn = p.id /\ u[Len(u)].part = 0
      <4>1. u # <<>>
        <5>1. Len(<<>>) = 0
          OBVIOUS
        <5>2. Len(u) = 1
          BY <2>1
        <5> QED
          BY ONLY <5>1, <5>2
      <4> QED
        BY <2>3, <3>0, <4>1
    <3>2. \A i \in 1 .. Len(u) - 1 : u[i].turn # p.id
      BY <2>1
    <3> QED
      BY <3>1, <3>2 DEF Asks
  <2> QED
    BY <1>1, <2>1, <2>2, <2>4
<1> QED
  BY <1>1, <1>4, <1>5

\* The replies of a turn, written where its record was cut or from the beginning.
LEMMA ContinuesReplied ==
  ASSUME NEW t \in Seq(Message), NEW p \in Request, NEW q \in Request, Follows(t),
         Continues(t, p), p.phase = "streaming", q.phase = "backing", q.id = p.id,
         q.kept \in {p.kept, 0}, Len(p.msgs) <= Len(q.msgs),
         \A i \in 1 .. Len(p.msgs) : q.msgs[i].turn = p.msgs[i].turn /\ q.msgs[i].part = p.msgs[i].part,
         \A i \in Len(p.msgs) + 1 .. Len(q.msgs) : /\ q.msgs[i].turn = q.id
                                                   /\ q.msgs[i].part = i - Len(p.msgs)
  PROVE  Continues(t, q)
<1>1. /\ p.msgs \in Seq(Message) /\ q.msgs \in Seq(Message) /\ p.kept = Len(p.msgs)
      /\ Asks(p.msgs, p.id) /\ Follows(p.msgs) /\ (t = <<>> \/ Asks(t, p.id)) /\ Len(t) <= p.kept
  BY DEF Continues, Request
<1> DEFINE n == Len(q.msgs) - Len(p.msgs)
           u == Onto(t, q)
<1>2. n \in Nat /\ Len(q.msgs) = Len(p.msgs) + n
  BY <1>1
<1> HIDE DEF n
<1>3. Follows(q.msgs)
  BY <1>1, <1>2, FollowsReplied
<1>4. q.kept <= Len(q.msgs) /\ q.kept \in Nat /\ Len(t) \in Nat
  BY <1>1
<1>5. /\ u \in Seq(Message)
      /\ Len(u) = Cut(t, q) + Len(q.msgs) - q.kept
      /\ \A i \in 1 .. Cut(t, q) : u[i] = t[i]
      /\ \A i \in Cut(t, q) + 1 .. Len(u) :
           q.kept + i - Cut(t, q) \in 1 .. Len(q.msgs) /\ u[i] = q.msgs[q.kept + i - Cut(t, q)]
  BY <1>4, OntoIs
<1> HIDE DEF u
<1>6. Follows(u)
  <2>1. CASE q.kept = p.kept
    <3>1. Cut(t, q) = Len(t)
      BY <1>1, <1>4, <2>1 DEF Cut
    <3>2. Len(u) = Len(t) + n
      BY <1>1, <1>2, <1>4, <1>5, <2>1, <3>1
    <3>3. ASSUME NEW i \in Len(t) + 1 .. Len(t) + n
          PROVE  u[i].turn = p.id /\ u[i].part = i - Len(t)
      <4> DEFINE k == q.kept + i - Len(t)
      <4>1. k \in Len(p.msgs) + 1 .. Len(q.msgs) /\ k - Len(p.msgs) = i - Len(t)
        BY <1>1, <1>2, <1>4, <2>1
      <4>2. u[i] = q.msgs[k]
        BY <1>5, <3>1, <3>2
      <4> QED
        BY <4>1, <4>2
    <3>4. \A i \in 1 .. Len(t) : u[i].turn = t[i].turn /\ u[i].part = t[i].part
      BY <1>5, <3>1
    <3> QED
      BY <1>1, <1>2, <1>5, <3>2, <3>3, <3>4, FollowsReplied
  <2>2. CASE q.kept = 0
    <3>1. Cut(t, q) = 0
      BY <1>4, <2>2 DEF Cut
    <3>2. Len(u) = Len(q.msgs)
      BY <1>1, <1>5, <2>2, <3>1
    <3>3. ASSUME NEW i \in 1 .. Len(u)
          PROVE  u[i] = q.msgs[0 + i]
      <4>1. i \in Cut(t, q) + 1 .. Len(u) /\ q.kept + i - Cut(t, q) = 0 + i
        BY <2>2, <3>1
      <4> QED
        BY <1>5, <4>1
    <3>4. 0 \in Nat /\ Len(u) + 0 <= Len(q.msgs)
      BY <1>1, <3>2
    <3> QED
      BY <1>1, <1>3, <1>5, <3>3, <3>4, FollowsPart
  <2> QED
    BY <2>1, <2>2
<1> QED
  BY <1>3, <1>6 DEF Continues, Replying, u

\* A step that leaves the transcript, the messages and where they are cut.
LEMMA ContinuesOn ==
  ASSUME NEW t, NEW p, NEW q, Continues(t, p), q.msgs = p.msgs, q.kept = p.kept, q.id = p.id,
         \/ p.phase = "saving" /\ q.phase = "appending"
         \/ p.phase \in Replying /\ q.phase \in Replying
  PROVE  Continues(t, q)
<1>1. Onto(t, q) = Onto(t, p)
  BY DEF Onto
<1> QED
  BY <1>1 DEF Continues, Replying

\* The messages written to the transcript are of turns that have begun.
LEMMA OntoOlder ==
  ASSUME NEW t \in Seq(Message), NEW q \in Request, q.kept <= Len(q.msgs), NEW n,
         Older(t, n), Older(q.msgs, n)
  PROVE  Older(Onto(t, q), n)
<1> DEFINE u == Onto(t, q)
<1>1. /\ Cut(t, q) \in 0 .. Len(t)
      /\ \A i \in 1 .. Cut(t, q) : u[i] = t[i]
      /\ \A i \in Cut(t, q) + 1 .. Len(u) :
           q.kept + i - Cut(t, q) \in 1 .. Len(q.msgs) /\ u[i] = q.msgs[q.kept + i - Cut(t, q)]
  BY OntoIs
<1>2. u \in Seq(Message)
  BY OntoIs
<1> HIDE DEF u
<1>3. ASSUME NEW i \in 1 .. Len(u)
      PROVE  u[i].turn <= n
  <2>1. CASE i \in 1 .. Cut(t, q)
    <3>1. i \in 1 .. Len(t)
      BY <1>1, <2>1
    <3> QED
      BY <1>1, <2>1, <3>1 DEF Older
  <2>2. CASE i \in Cut(t, q) + 1 .. Len(u)
    BY <1>1, <2>2 DEF Older
  <2> QED
    BY <1>1, <1>2, <2>1, <2>2
<1> QED
  BY <1>3 DEF Older, u

LEMMA OlderStill ==
  ASSUME NEW s \in Seq(Message), NEW m \in Int, NEW n \in Int, m <= n, Older(s, m)
  PROVE  Older(s, n)
<1>1. \A i \in 1 .. Len(s) : s[i] \in Message
  OBVIOUS
<1>2. \A x \in Message : x.turn \in Numbers
  BY DEF Message
<1>3. \A i \in 1 .. Len(s) : s[i].turn \in Int
  BY <1>1, <1>2 DEF Numbers
<1> QED
  BY <1>3 DEF Older

\* The one turn's own step.
LEMMA StoredTurn ==
  ASSUME TypeOK, Placed, Stored, NEW r \in Chats, NEW q, Becomes(r, q), Goes(r, q)
  PROVE  /\ Follows(transcript') /\ Older(transcript', started')
         /\ Continues(transcript', q) /\ Older(q.msgs, started')
<1> DEFINE p == req[r]
<1>1. /\ r \in Slots /\ r \notin Buttons
      /\ Follows(transcript) /\ Older(transcript, started)
      /\ Continues(transcript, p) /\ Older(p.msgs, started)
  BY SlotsAssumption DEF Slots, Stored
<1>2. /\ p \in Request /\ p.kept <= Len(p.msgs) /\ p.msgs \in Seq(Message) /\ p.kept \in Nat
      /\ q \in Request /\ q.msgs \in Seq(Message)
      /\ transcript \in Seq(Message) /\ started \in Int
      /\ p.phase # "idle" => p.id \in 1 .. started
  BY <1>1, Fields DEF TypeOK, Becomes, Request, Placed
<1>3. <<>> \in Seq(Message) /\ Follows(<<>>) /\ \A n : Older(<<>>, n)
  BY FollowsShort DEF Older
<1>4. CASE Opens(r, q)
  <2>1. started' = started + 1 /\ transcript' = transcript /\ q.phase = "loading"
        /\ q.id = started + 1 /\ q.msgs = <<>>
    BY <1>4 DEF Opens, storeVars
  <2>2. Older(transcript, started') /\ started' \in Int /\ started <= started'
    BY <1>1, <1>2, <2>1, OlderStill
  <2>3. Without(transcript, q.id)
    <3>1. \A i \in 1 .. Len(transcript) : transcript[i].turn <= started
      BY <1>1 DEF Older
    <3> QED
      BY <1>2, <2>1, <3>1 DEF Without
  <2>4. Continues(transcript, q)
    BY <1>3, <2>1, <2>3 DEF Continues, Replying
  <2> QED
    BY <1>1, <1>3, <2>1, <2>2, <2>4
<1>5. CASE Questions(r, q)
  <2>1. /\ started' = started /\ transcript' = transcript /\ p.phase = "loading" /\ q.phase = "saving"
        /\ q.id = p.id /\ q.kept = Len(transcript) /\ Len(q.msgs) = q.kept + 1
        /\ \A i \in 1 .. q.kept : q.msgs[i] = transcript[i]
        /\ q.msgs[q.kept + 1].turn = q.id /\ q.msgs[q.kept + 1].part = 0
    BY <1>5 DEF Questions, Quiet, storeVars, Same
  <2>2. Without(transcript, q.id)
    BY <1>1, <2>1 DEF Continues
  <2>3. Continues(transcript, q)
    BY <1>1, <1>2, <2>1, <2>2, ContinuesAsking
  <2>4. Older(q.msgs, started)
    <3>1. q.id <= started
      BY <1>2, <2>1
    <3>2. ASSUME NEW i \in 1 .. Len(q.msgs)
          PROVE  q.msgs[i].turn <= started
      <4>1. CASE i \in 1 .. q.kept
        BY <1>1, <2>1, <4>1 DEF Older
      <4>2. CASE i = q.kept + 1
        BY <2>1, <3>1, <4>2
      <4> QED
        BY <1>2, <2>1, <4>1, <4>2
    <3> QED
      BY <3>2 DEF Older
  <2> QED
    BY <1>1, <2>1, <2>3, <2>4
<1>6. CASE Writes(r, q)
  <2>1. transcript' = transcript /\ started' = started
    BY <1>6 DEF Writes
  <2>2. CASE q = Idle
    BY <1>1, <1>3, <2>1, <2>2, ContinuesIdle, IdleIs
  <2>3. CASE q # Idle
    <3>1. /\ q.msgs = p.msgs /\ q.kept = p.kept /\ q.id = p.id
          /\ \/ p.phase = "saving" /\ q.phase = "appending"
             \/ p.phase \in Replying /\ q.phase \in Replying
      BY <1>6, <2>3 DEF Writes, Replying
    <3> HIDE DEF p
    <3>2. Continues(transcript, q)
      BY <1>1, <3>1, ContinuesOn
    <3> QED
      BY <1>1, <2>1, <3>1, <3>2
  <2> QED
    BY <2>2, <2>3
<1>7. CASE Stores(r, q)
  <2>1. transcript' = Onto(transcript, p) /\ started' = started
    BY <1>7 DEF Stores, Appended, Onto
  <2>2. Older(transcript', started')
    BY <1>1, <1>2, <2>1, OntoOlder
  <2>3. CASE q = Idle
    <3>1. p.phase = "completing"
      BY <1>7, <2>3, IdleIs DEF Stores
    <3>2. Follows(Onto(transcript, p))
      BY <1>1, <3>1 DEF Continues, Replying
    <3> QED
      BY <1>3, <2>1, <2>2, <2>3, <3>2, ContinuesIdle, IdleIs
  <2>4. CASE q # Idle
    <3>1. /\ p.phase = "appending" /\ q.phase = "streaming" /\ q.id = p.id
          /\ q.msgs = p.msgs /\ q.kept = Len(p.msgs)
      BY <1>7, <2>4 DEF Stores, Same
    <3> HIDE DEF p
    <3>2. Follows(Onto(transcript, p)) /\ Continues(Onto(transcript, p), q)
      BY <1>1, <1>2, <3>1, ContinuesStored
    <3> QED
      BY <1>1, <2>1, <2>2, <3>1, <3>2
  <2> QED
    BY <2>3, <2>4
<1>8. CASE Streams(r, q)
  <2>1. /\ transcript' = transcript /\ started' = started
        /\ p.phase = "streaming" /\ q.phase = "backing" /\ q.id = p.id
        /\ q.kept \in {p.kept, 0} /\ Len(p.msgs) <= Len(q.msgs)
        /\ \A i \in 1 .. Len(p.msgs) : /\ q.msgs[i].turn = p.msgs[i].turn
                                       /\ q.msgs[i].part = p.msgs[i].part
        /\ \A i \in Len(p.msgs) + 1 .. Len(q.msgs) : /\ q.msgs[i].turn = q.id
                                                     /\ q.msgs[i].part = i - Len(p.msgs)
    BY <1>8 DEF Streams, Quiet, storeVars, Same
  <2> HIDE DEF p
  <2>2. Continues(transcript, q)
    BY <1>1, <1>2, <2>1, ContinuesReplied
  <2>3. Older(q.msgs, started)
    <3>1. q.id <= started
      BY <1>2, <2>1
    <3>2. ASSUME NEW i \in 1 .. Len(q.msgs)
          PROVE  q.msgs[i].turn <= started
      <4>1. CASE i \in 1 .. Len(p.msgs)
        BY <1>1, <2>1, <4>1 DEF Older
      <4>2. CASE i \in Len(p.msgs) + 1 .. Len(q.msgs)
        BY <2>1, <3>1, <4>2
      <4> QED
        BY <1>2, <2>1, <4>1, <4>2
    <3> QED
      BY <3>2 DEF Older
  <2> QED
    BY <1>1, <2>1, <2>2, <2>3
<1>9. CASE Waits(r, q)
  <2>1. /\ transcript' = transcript /\ started' = started
        /\ q.msgs = p.msgs /\ q.kept = p.kept /\ q.id = p.id
        /\ p.phase \in Replying /\ q.phase \in Replying
    BY <1>9 DEF Waits, Quiet, storeVars, Replying
  <2> HIDE DEF p
  <2>2. Continues(transcript, q)
    BY <1>1, <2>1, ContinuesOn
  <2> QED
    BY <1>1, <2>1, <2>2
<1>10. CASE Ends(r, q)
  <2>1. transcript' = transcript /\ started' = started /\ q = Idle
    BY <1>10 DEF Ends, Quiet, storeVars
  <2> QED
    BY <1>1, <1>3, <2>1, ContinuesIdle, IdleIs
<1>11. ~Takes(r, q) /\ ~Acts(r, q) /\ ~Resets(r, q)
  BY <1>1 DEF Takes, Acts, Resets
<1> QED
  BY <1>4, <1>5, <1>6, <1>7, <1>8, <1>9, <1>10, <1>11 DEF Goes

\* The step of a button, which leaves the turn's record alone.
LEMMA StoredButton ==
  ASSUME TypeOK, Placed, Stored, NEW r \in Buttons, NEW q, Becomes(r, q), Goes(r, q)
  PROVE  Stored'
<1>1. /\ r \in Slots /\ r \notin Chats /\ Chats \subseteq Slots
      /\ Follows(transcript) /\ Older(transcript, started)
  BY SlotsAssumption DEF Slots, Stored
<1>2. \A s \in Chats : req'[s] = req[s]
  BY <1>1, Others
<1>3. started \in Int /\ started' \in Int /\ started <= started'
  <2>1. started \in Int
    BY DEF TypeOK
  <2>2. started' \in 0 .. MaxRequests /\ started <= started'
    BY <1>1, StoreTyped
  <2> QED
    BY <2>1, <2>2
<1>4. /\ transcript \in Seq(Message)
      /\ \A s \in Chats : /\ req[s] \in Request /\ req[s].kept <= Len(req[s].msgs)
                          /\ req[s].msgs \in Seq(Message)
                          /\ Continues(transcript, req[s]) /\ Older(req[s].msgs, started)
  BY <1>1, Fields DEF TypeOK, Stored
<1>5. \A s \in Chats : Older(req[s].msgs, started')
  BY <1>3, <1>4, OlderStill
<1>6. CASE Resets(r, q)
  <2>1. transcript' = <<>> /\ Len(<<>>) = 0 /\ <<>> \in Seq(Message)
    BY <1>6 DEF Resets
  <2>2. Follows(transcript') /\ Older(transcript', started')
    BY <2>1, FollowsShort DEF Older
  <2>3. transcript' \in Seq(Message) /\ Len(transcript') = 0
    BY <2>1
  <2>4. \A s \in Chats : Continues(transcript', req[s])
    BY <1>4, <2>1, <2>3, ContinuesAnew
  <2> QED
    BY <1>2, <1>5, <2>2, <2>4 DEF Stored
<1>7. CASE ~Resets(r, q)
  <2>1. req[r].phase \in {"idle"} \cup Early
    BY DEF Placed
  <2>2. ~Stores(r, q)
    BY <2>1 DEF Stores, Early
  <2>3. transcript' = transcript
    BY <1>7, <2>2 DEF Goes, Opens, Takes, Questions, Acts, Writes, Streams, Waits, Ends, Quiet,
                 storeVars
  <2>4. Older(transcript, started')
    BY <1>1, <1>3, <1>4, OlderStill
  <2> QED
    BY <1>1, <1>2, <1>4, <1>5, <2>3, <2>4 DEF Stored
<1> QED
  BY <1>6, <1>7

LEMMA StoredStep ==
  ASSUME OneTurn, BaseInv, Stored, [Next]_vars
  PROVE  Stored'
<1>1. TypeOK /\ Placed
  BY DEF BaseInv
<1>2. CASE UNCHANGED vars
  BY <1>2 DEF Stored, vars
<1>3. CASE ~UNCHANGED vars
  <2>0. PICK r \in Slots : \E q : Becomes(r, q) /\ Goes(r, q)
    BY <1>1, <1>3, Steps
  <2>1. PICK q : Becomes(r, q) /\ Goes(r, q)
    BY <2>0
  <2>2. CASE r \in Buttons
    BY <1>1, <2>1, <2>2, StoredButton
  <2>3. CASE r \in Chats
    <3>1. /\ Follows(transcript') /\ Older(transcript', started')
          /\ Continues(transcript', q) /\ Older(q.msgs, started')
      BY <1>1, <2>1, <2>3, StoredTurn
    <3>2. req'[r] = q
      BY <1>1, <2>1, Others
    <3>3. \A s \in Chats : req'[s] = q
      BY <2>3, <3>2 DEF OneTurn
    <3> QED
      BY <3>1, <3>3 DEF Stored
  <2> QED
    BY <2>2, <2>3 DEF Slots
<1> QED
  BY <1>2, <1>3

LEMMA StoredInit == Init => Stored
<1> SUFFICES ASSUME Init PROVE Stored
  OBVIOUS
<1>1. transcript = <<>> /\ Len(<<>>) = 0 /\ \A r \in Chats : req[r] = Idle
  BY DEF Init, Slots
<1>2. \A n : Older(<<>>, n)
  BY <1>1 DEF Older
<1> QED
  BY <1>1, <1>2, FollowsShort, ContinuesIdle, IdleIs DEF Stored

\* RepliesFollow: with one turn at a time, and any number of buttons and resets between its
\* steps, no message is stored twice and a reply stands behind its question or the reply
\* before it (save, write_messages, write_back).
THEOREM RepliesFollowTheirQuestion ==
  ASSUME OneTurn
  PROVE  Spec => []RepliesFollow
<1>1. Init => BaseInv /\ Stored
  BY BaseInit, StoredInit
<1>2. BaseInv /\ Stored /\ [Next]_vars => BaseInv' /\ Stored'
  BY BaseStep, StoredStep
<1>3. BaseInv /\ Stored => RepliesFollow
  <2> SUFFICES ASSUME BaseInv, Stored PROVE RepliesFollow
    OBVIOUS
  <2>1. transcript \in Seq(Message) /\ DOMAIN transcript = 1 .. Len(transcript)
    BY DEF BaseInv, TypeOK
  <2>2. \A i, j \in DOMAIN transcript : i # j =>
          ~(transcript[i].turn = transcript[j].turn /\ transcript[i].part = transcript[j].part)
    BY <2>1 DEF Stored, Follows
  <2>3. \A i \in 2 .. Len(transcript) : transcript[i].part > 0 =>
          /\ transcript[i - 1].turn = transcript[i].turn
          /\ transcript[i - 1].part = transcript[i].part - 1
    BY DEF Stored, Follows
  <2> QED
    BY <2>2, <2>3 DEF RepliesFollow
<1>4. Spec => [](BaseInv /\ Stored)
  BY <1>1, <1>2, PTL DEF Spec
<1> QED
  BY <1>3, <1>4, PTL

-----------------------------------------------------------------------------
(* The notes: what a record does to them. *)

LEMMA LoadedKept ==
  ASSUME TypeOK, Placed, Loaded, NEW r \in Slots, NEW q, Becomes(r, q), Goes(r, q), ~Resets(r, q)
  PROVE  Loaded'
<1> DEFINE p == req[r]
           L == Early \cup {"appending", "streaming", "backing"}
<1>1. /\ req'[r] = q /\ \A s \in Slots : s # r => req'[s] = req[s]
  BY Others
<1>2. version \in Nat /\ \A s \in Slots : req[s].version \in Nat
  BY Fields DEF TypeOK
<1>3. \A s \in Slots : req[s].phase \in L =>
        req[s].version <= version /\ (req[s].version = version => notes = req[s].loaded)
  BY DEF Loaded
<1>4. SUFFICES \A s \in Slots : req'[s].phase \in L =>
                 req'[s].version <= version' /\ (req'[s].version = version' => notes' = req'[s].loaded)
  BY DEF Loaded
<1>5. ASSUME version' = version, notes' = notes,
             q.phase \in L => q.version = p.version /\ q.loaded = p.loaded /\ p.phase \in L
      PROVE  \A s \in Slots : req'[s].phase \in L =>
               req'[s].version <= version' /\ (req'[s].version = version' => notes' = req'[s].loaded)
  BY <1>1, <1>3, <1>5
<1>6. CASE Opens(r, q)
  <2>1. version' = version /\ notes' = notes /\ q.version = version /\ q.loaded = notes
    BY <1>6 DEF Opens, storeVars
  <2> QED
    BY <1>1, <1>2, <1>3, <2>1
<1>7. CASE Writes(r, q)
  <2>1. version' = version + 1 /\ notes' = p.notes
    BY <1>7 DEF Writes
  <2>2. q.phase \in L => q.version = version' /\ q.loaded = p.notes
    BY <1>7, IdleIs DEF Writes, Early
  <2>3. ASSUME NEW s \in Slots, s # r, req[s].phase \in L
        PROVE  req[s].version <= version' /\ req[s].version # version'
    BY <1>2, <1>3, <2>1, <2>3
  <2> QED
    BY <1>1, <1>2, <2>1, <2>2, <2>3
<1>8. CASE Stores(r, q)
  BY <1>5, <1>8, IdleIs DEF Stores, Same, storeVars, Early
<1>9. CASE Takes(r, q) \/ Questions(r, q) \/ Acts(r, q) \/ Streams(r, q)
  BY <1>5, <1>9 DEF Takes, Questions, Acts, Streams, Same, Quiet, storeVars, Early
<1>10. CASE Waits(r, q) \/ Ends(r, q)
  BY <1>5, <1>10, IdleIs DEF Waits, Ends, Quiet, storeVars, Early
<1> QED
  BY <1>6, <1>7, <1>8, <1>9, <1>10 DEF Goes

\* What one request does to the notes, in the terms of its record.
Holds(r, q, known) ==
  /\ q.phase # "idle" => q.loaded \subseteq known
  /\ r \in Buttons =>
       /\ q.phase # "idle" => q.id \notin known
       /\ q.phase \in {"loading", "acting"} => q.notes = q.loaded
       /\ q.phase = "saving" => q.notes \in {q.loaded, q.loaded \cup {q.id}}
  /\ r \in Chats =>
       /\ q.phase = "loading" => q.notes = q.loaded
       /\ q.phase \notin {"idle", "loading"} => q.notes = {}
       /\ q.phase \notin {"idle", "loading", "saving"} => q.loaded = {}

LEMMA HoldingIs == Holding <=> \A r \in Slots : Holds(r, req[r], queued)
BY DEF Holding, Holds, Slots

\* What a write adds to the notes ever saved.
LEMMA QueuedIs ==
  ASSUME TypeOK, Placed, Holding, NEW r \in Slots, NEW q, Becomes(r, q), Goes(r, q)
  PROVE  /\ queued \subseteq queued'
         /\ \A n \in queued' \ queued : /\ n = req[r].id /\ n \in notes'
                                        /\ r \in Buttons /\ Writes(r, q)
<1>1. CASE Writes(r, q)
  <2> DEFINE p == req[r]
  <2>1. queued' = queued \cup (p.notes \ p.loaded) /\ notes' = p.notes
        /\ p.phase \in {"saving", "backing", "again"}
    BY <1>1 DEF Writes
  <2>2. r \in Buttons => p.notes \in {p.loaded, p.loaded \cup {p.id}}
    BY <2>1 DEF Holding, Placed, Early
  <2>3. r \in Chats => p.notes = {}
    BY <2>1 DEF Holding
  <2>4. r \in Buttons \/ r \in Chats
    BY DEF Slots
  <2> QED
    BY <1>1, <2>1, <2>2, <2>3, <2>4
<1>2. CASE ~Writes(r, q)
  <2>1. queued' = queued
    BY <1>2 DEF Goes, Opens, Takes, Questions, Acts, Stores, Streams, Waits, Resets, Ends, Quiet,
                historyVars
  <2> QED
    BY <2>1
<1> QED
  BY <1>1, <1>2

LEMMA HoldingKept ==
  ASSUME TypeOK, Placed, Holding, notes \subseteq queued,
         NEW r \in Slots, NEW q, Becomes(r, q), Goes(r, q)
  PROVE  Holding'
<1> DEFINE p == req[r]
<1>1. /\ req'[r] = q /\ \A s \in Slots : s # r => req'[s] = req[s]
  BY Others
<1>2. /\ queued \subseteq queued'
      /\ \A n \in queued' \ queued : n = p.id /\ Writes(r, q)
  BY QueuedIs
<1>3. \A s \in Slots : Holds(s, req[s], queued)
  BY HoldingIs
<1>4. SUFFICES \A s \in Slots : Holds(s, req'[s], queued')
  BY DEF Holding, Holds, Slots
<1>5. ASSUME NEW s \in Slots, s # r
      PROVE  Holds(s, req'[s], queued')
  <2>1. req'[s] = req[s] /\ Holds(s, req[s], queued)
    BY <1>1, <1>3, <1>5
  <2>2. s \in Buttons /\ req[s].phase # "idle" => req[s].id \notin queued'
    <3>1. ASSUME s \in Buttons, req[s].phase # "idle", req[s].id \in queued'
          PROVE  FALSE
      <4>1. req[s].id \notin queued
        BY <2>1, <3>1 DEF Holds
      <4>2. req[s].id = p.id /\ Writes(r, q)
        BY <1>2, <3>1, <4>1
      <4>3. p.phase # "idle"
        BY <4>2 DEF Writes
      <4> QED
        BY <1>5, <3>1, <4>2, <4>3 DEF Placed
    <3> QED
      BY <3>1
  <2> QED
    BY <1>2, <2>1, <2>2 DEF Holds
<1>6. Holds(r, p, queued) /\ (r \in Buttons => r \notin Chats)
  BY <1>3, SlotsAssumption
<1>7. r \in Buttons => p.phase \in {"idle"} \cup Early
  BY DEF Placed
<1> HIDE DEF p
<1>8. Holds(r, q, queued')
  <2>1. CASE q.phase = "idle"
    BY <2>1 DEF Holds
  <2>2. CASE Opens(r, q)
    <3>1. started \in Int /\ queued \subseteq 1 .. started
      BY DEF TypeOK
    <3>2. queued' = queued /\ q.phase = "loading" /\ q.id = started + 1
          /\ q.loaded = notes /\ q.notes = notes
      BY <2>2 DEF Opens, historyVars
    <3>3. q.id \notin queued'
      BY <3>1, <3>2
    <3> QED
      BY <3>2, <3>3 DEF Holds
  <2>3. CASE Takes(r, q)
    <3>1. queued' = queued
      BY <2>3 DEF Takes, Quiet, historyVars
    <3> QED
      BY <1>6, <2>3, <3>1 DEF Takes, Same, Holds, p
  <2>4. CASE Questions(r, q)
    <3>1. queued' = queued
      BY <2>4 DEF Questions, Quiet, historyVars
    <3> QED
      BY <1>6, <2>4, <3>1 DEF Questions, Same, Holds, p
  <2>5. CASE Acts(r, q)
    <3>1. queued' = queued
      BY <2>5 DEF Acts, Quiet, historyVars
    <3> QED
      BY <1>6, <2>5, <3>1 DEF Acts, Same, Holds, p
  <2>6. CASE Writes(r, q) /\ q.phase # "idle"
    <3>1. /\ Grew(p) /\ p.phase \in {"saving", "backing", "again"} /\ q.loaded = p.notes
          /\ q.notes = p.notes /\ q.phase \in {"appending", "completing"}
      BY <2>6, IdleIs DEF Writes, p
    <3>2. r \notin Buttons
      <4>1. r \in Buttons => p.kept = Len(p.msgs) /\ p.kept \in Nat
        BY <1>6, <3>1, Fields DEF Placed, p
      <4> QED
        BY <3>1, <4>1 DEF Grew
    <3>3. r \in Chats
      BY <3>2 DEF Slots
    <3>4. p.notes = {}
      BY <1>6, <3>1, <3>3 DEF Holds
    <3> QED
      BY <3>1, <3>2, <3>4 DEF Holds
  <2>7. CASE Stores(r, q) /\ q.phase # "idle"
    <3>1. /\ queued' = queued /\ p.phase = "appending" /\ q.phase = "streaming"
          /\ q.loaded = p.loaded /\ q.notes = p.notes
      BY <2>7, IdleIs DEF Stores, Same, historyVars, p
    <3> QED
      BY <1>6, <1>7, <3>1 DEF Holds, Early
  <2>8. CASE Streams(r, q)
    <3>1. /\ queued' = queued /\ p.phase = "streaming" /\ q.phase = "backing"
          /\ q.loaded = p.loaded /\ q.notes = p.notes
      BY <2>8 DEF Streams, Same, Quiet, historyVars, p
    <3> QED
      BY <1>6, <1>7, <3>1 DEF Holds, Early
  <2>9. CASE Waits(r, q)
    <3>1. /\ queued' = queued /\ p.phase \in {"backing", "rebasing"}
          /\ q.phase \in {"rebasing", "again"}
          /\ q.loaded = p.loaded /\ q.notes = p.notes
      BY <2>9 DEF Waits, Quiet, historyVars, p
    <3> QED
      BY <1>6, <1>7, <3>1 DEF Holds, Early
  <2>10. Resets(r, q) \/ Ends(r, q) => q.phase = "idle"
    BY IdleIs DEF Resets, Ends
  <2> QED
    BY <2>1, <2>2, <2>3, <2>4, <2>5, <2>6, <2>7, <2>8, <2>9, <2>10 DEF Goes
<1> QED
  BY <1>1, <1>5, <1>8

-----------------------------------------------------------------------------
(* The notes: what is told in the transcript. *)

LEMMA ToldIs ==
  ASSUME NEW s, NEW n
  PROVE  n \in Told(s) <=> \E i \in 1 .. Len(s) : n \in s[i].told
BY DEF Told

LEMMA ToldSame ==
  ASSUME NEW s \in Seq(Message), NEW t \in Seq(Message), TellsAs(s, t)
  PROVE  Told(s) = Told(t) /\ (Once(t) => Once(s))
<1>1. /\ Len(t) \in Nat /\ Len(s) \in Nat /\ Len(t) <= Len(s)
      /\ \A i \in 1 .. Len(s) : s[i].told = IF i <= Len(t) THEN t[i].told ELSE {}
  BY DEF TellsAs
<1>2. ASSUME NEW n
      PROVE  n \in Told(s) <=> n \in Told(t)
  <2>1. (\E i \in 1 .. Len(s) : n \in s[i].told) => \E i \in 1 .. Len(t) : n \in t[i].told
    <3> SUFFICES ASSUME NEW i \in 1 .. Len(s), n \in s[i].told
                 PROVE  \E j \in 1 .. Len(t) : n \in t[j].told
      OBVIOUS
    <3>1. i <= Len(t) /\ n \in t[i].told
      BY <1>1
    <3>2. i \in 1 .. Len(t)
      BY <1>1, <3>1
    <3> QED
      BY <3>1, <3>2
  <2>2. (\E i \in 1 .. Len(t) : n \in t[i].told) => \E i \in 1 .. Len(s) : n \in s[i].told
    <3> SUFFICES ASSUME NEW i \in 1 .. Len(t), n \in t[i].told
                 PROVE  \E j \in 1 .. Len(s) : n \in s[j].told
      OBVIOUS
    <3>1. i \in 1 .. Len(s) /\ i <= Len(t)
      BY <1>1
    <3>2. s[i].told = t[i].told
      BY <1>1, <3>1
    <3> QED
      BY <3>1, <3>2
  <2> QED
    BY <2>1, <2>2, ToldIs
<1>3. ASSUME Once(t), NEW i \in 1 .. Len(s), NEW j \in 1 .. Len(s), i # j
      PROVE  s[i].told \cap s[j].told = {}
  <2>1. CASE i <= Len(t) /\ j <= Len(t)
    <3>1. i \in 1 .. Len(t) /\ j \in 1 .. Len(t)
      BY <1>1, <2>1
    <3>2. t[i].told \cap t[j].told = {}
      BY <1>3, <3>1 DEF Once
    <3>3. s[i].told = t[i].told /\ s[j].told = t[j].told
      BY <1>1, <2>1
    <3> QED
      BY <3>2, <3>3
  <2>2. CASE ~(i <= Len(t)) \/ ~(j <= Len(t))
    <3>1. s[i].told = {} \/ s[j].told = {}
      BY <1>1, <2>2
    <3> QED
      BY <3>1
  <2> QED
    BY <2>1, <2>2
<1> QED
  BY <1>2, <1>3 DEF Once

\* The transcript with the message of a turn behind it.
LEMMA ToldAdded ==
  ASSUME NEW t \in Seq(Message), NEW s \in Seq(Message), Len(s) = Len(t) + 1,
         \A i \in 1 .. Len(t) : s[i] = t[i]
  PROVE  /\ \A n : n \in Told(s) <=> n \in Told(t) \/ n \in s[Len(s)].told
         /\ Once(t) /\ s[Len(s)].told \cap Told(t) = {} => Once(s)
<1>1. /\ Len(t) \in Nat /\ Len(s) \in 1 .. Len(s)
      /\ \A i \in 1 .. Len(s) : i \in 1 .. Len(t) \/ i = Len(s)
      /\ \A i \in 1 .. Len(t) : i \in 1 .. Len(s)
  OBVIOUS
<1>2. ASSUME NEW n
      PROVE  n \in Told(s) <=> n \in Told(t) \/ n \in s[Len(s)].told
  <2>1. (\E i \in 1 .. Len(s) : n \in s[i].told)
          <=> (\E i \in 1 .. Len(t) : n \in t[i].told) \/ n \in s[Len(s)].told
    BY <1>1
  <2> QED
    BY <2>1, ToldIs
<1>3. ASSUME Once(t), s[Len(s)].told \cap Told(t) = {},
             NEW i \in 1 .. Len(s), NEW j \in 1 .. Len(s), i # j
      PROVE  s[i].told \cap s[j].told = {}
  <2>1. \A k \in 1 .. Len(t) : s[k] = t[k] /\ s[Len(s)].told \cap t[k].told = {}
    BY <1>3, ToldIs
  <2>2. CASE i \in 1 .. Len(t) /\ j \in 1 .. Len(t)
    BY <1>3, <2>1, <2>2 DEF Once
  <2>3. CASE i = Len(s) /\ j \in 1 .. Len(t)
    BY <2>1, <2>3
  <2>4. CASE j = Len(s) /\ i \in 1 .. Len(t)
    BY <2>1, <2>4
  <2> QED
    BY <1>1, <1>3, <2>2, <2>3, <2>4
<1> QED
  BY <1>2, <1>3 DEF Once

\* Before a reset, the question's save stores the whole record.
LEMMA OntoAsked ==
  ASSUME NEW t \in Seq(Message), NEW p \in Request, Continues(t, p), Telling(t, p),
         p.phase = "appending"
  PROVE  Onto(t, p) = p.msgs /\ \A i \in 1 .. Len(t) : p.msgs[i] = t[i]
<1>1. /\ p.msgs \in Seq(Message) /\ p.kept \in Nat /\ Len(t) \in Nat
      /\ p.kept = Len(p.msgs) - 1 /\ Len(p.msgs) = Len(t) + 1 /\ t = SubSeq(p.msgs, 1, Len(t))
  BY DEF Continues, Telling, Request
<1>2. p.kept = Len(t) /\ p.kept <= Len(p.msgs)
  BY <1>1
<1>3. \A i \in 1 .. Len(t) : p.msgs[i] = t[i]
  BY <1>1, FrontOf
<1> DEFINE u == Onto(t, p)
<1>4. Cut(t, p) = Len(t)
  BY <1>1, <1>2 DEF Cut
<1>5. /\ u \in Seq(Message)
      /\ Len(u) = Cut(t, p) + Len(p.msgs) - p.kept
      /\ \A i \in 1 .. Cut(t, p) : u[i] = t[i]
      /\ \A i \in Cut(t, p) + 1 .. Len(u) : u[i] = p.msgs[p.kept + i - Cut(t, p)]
  BY <1>2, OntoIs
<1> HIDE DEF u
<1>6. Len(u) = Len(p.msgs)
  BY <1>1, <1>2, <1>4, <1>5
<1>7. ASSUME NEW i \in 1 .. Len(u)
      PROVE  u[i] = p.msgs[i]
  <2>1. CASE i \in 1 .. Len(t)
    BY <1>3, <1>4, <1>5, <2>1
  <2>2. CASE i \in Len(t) + 1 .. Len(u)
    <3>1. p.kept + i - Cut(t, p) = i
      BY <1>1, <1>2, <1>4
    <3> QED
      BY <1>4, <1>5, <2>2, <3>1
  <2> QED
    BY <1>1, <2>1, <2>2
<1>8. u = p.msgs
  BY <1>1, <1>5, <1>6, <1>7, SameSequence
<1> QED
  BY <1>3, <1>8 DEF u

\* Before a reset, the reply is written behind the transcript or over it, and tells nothing.
LEMMA TellsReplied ==
  ASSUME NEW t \in Seq(Message), NEW p \in Request, NEW q \in Request,
         p.phase = "streaming", p.kept = Len(p.msgs), p.msgs = t,
         q.kept \in {p.kept, 0}, Len(p.msgs) <= Len(q.msgs),
         \A i \in 1 .. Len(p.msgs) : q.msgs[i].told = p.msgs[i].told,
         \A i \in Len(p.msgs) + 1 .. Len(q.msgs) : q.msgs[i].told = {}
  PROVE  TellsAs(Onto(t, q), t)
<1>1. q.msgs \in Seq(Message) /\ q.kept \in {Len(t), 0} /\ Len(t) \in Nat /\ q.kept <= Len(q.msgs)
      /\ Len(t) <= Len(q.msgs) /\ Len(q.msgs) \in Nat
  BY DEF Request
<1> DEFINE u == Onto(t, q)
<1>2. Cut(t, q) = q.kept /\ q.kept \in Nat
  BY <1>1 DEF Cut
<1>3. /\ u \in Seq(Message)
      /\ Len(u) = Cut(t, q) + Len(q.msgs) - q.kept
      /\ \A i \in 1 .. Cut(t, q) : u[i] = t[i]
      /\ \A i \in Cut(t, q) + 1 .. Len(u) : u[i] = q.msgs[q.kept + i - Cut(t, q)]
  BY <1>1, OntoIs
<1> HIDE DEF u
<1>4. Len(u) = Len(q.msgs)
  BY <1>1, <1>2, <1>3
<1>5. ASSUME NEW i \in 1 .. Len(u)
      PROVE  u[i].told = IF i <= Len(t) THEN t[i].told ELSE {}
  <2>1. CASE i \in 1 .. q.kept
    <3>1. i <= Len(t) /\ u[i] = t[i]
      BY <1>1, <1>2, <1>3, <2>1
    <3> QED
      BY <3>1
  <2>2. CASE i \in q.kept + 1 .. Len(u)
    <3>1. q.kept + i - Cut(t, q) = i
      BY <1>2
    <3>2. u[i] = q.msgs[i]
      BY <1>2, <1>3, <2>2, <3>1
    <3>3. CASE i \in 1 .. Len(t)
      BY <3>2, <3>3
    <3>4. CASE i \in Len(t) + 1 .. Len(q.msgs)
      <4>1. q.msgs[i].told = {} /\ ~(i <= Len(t))
        BY <1>1, <3>4
      <4> QED
        BY <3>2, <4>1
    <3> QED
      BY <1>1, <1>4, <3>3, <3>4
  <2> QED
    BY <1>2, <2>1, <2>2
<1> QED
  BY <1>1, <1>4, <1>5 DEF TellsAs, u

\* The one turn's own step.
LEMMA TellingTurn ==
  ASSUME TypeOK, Placed, Stored, Holding, NEW r \in Chats, Telling(transcript, req[r]),
         NEW q, Becomes(r, q), Goes(r, q)
  PROVE  Telling(transcript', q)
<1> DEFINE p == req[r]
<1>1. /\ r \in Slots /\ r \notin Buttons
      /\ Continues(transcript, p) /\ Telling(transcript, p)
  BY SlotsAssumption DEF Slots, Stored
<1>2. /\ p \in Request /\ q \in Request /\ transcript \in Seq(Message)
      /\ q.msgs \in Seq(Message)
  BY <1>1, Fields DEF TypeOK, Becomes, Request
<1>3. p.phase = "loading" => p.notes = p.loaded
  BY DEF Holding
<1> HIDE DEF p
<1>4. CASE q.phase \in {"idle", "loading"}
  BY <1>4 DEF Telling, Replying
<1>5. CASE Questions(r, q)
  <2>1. /\ transcript' = transcript /\ p.phase = "loading" /\ q.phase = "saving"
        /\ q.loaded = p.loaded /\ q.kept = Len(transcript) /\ Len(q.msgs) = q.kept + 1
        /\ \A i \in 1 .. q.kept : q.msgs[i] = transcript[i]
        /\ q.msgs[q.kept + 1].told = p.notes
    BY <1>5 DEF Questions, Quiet, storeVars, Same, p
  <2>2. Carried(q) = q.loaded
    BY <1>3, <2>1 DEF Carried
  <2>3. transcript = SubSeq(q.msgs, 1, Len(transcript))
    <3>1. Len(transcript) \in 0 .. Len(q.msgs)
      BY <1>2, <2>1
    <3>2. /\ SubSeq(q.msgs, 1, Len(transcript)) \in Seq(Message)
          /\ Len(SubSeq(q.msgs, 1, Len(transcript))) = Len(transcript)
          /\ \A i \in 1 .. Len(transcript) : SubSeq(q.msgs, 1, Len(transcript))[i] = q.msgs[i]
      BY <1>2, <3>1, FrontOf
    <3> QED
      BY <1>2, <2>1, <3>2, SameSequence
  <2> QED
    BY <2>1, <2>2, <2>3 DEF Telling, Replying
<1>6. ASSUME transcript' = transcript, q.msgs = p.msgs, q.kept = p.kept,
             \/ p.phase = "saving" /\ q.phase = "appending"
             \/ p.phase \in Replying /\ q.phase \in Replying
      PROVE  Telling(transcript', q)
  <2>1. Onto(transcript, q) = Onto(transcript, p)
    BY <1>6 DEF Onto
  <2> QED
    BY <1>1, <1>6, <2>1 DEF Telling, Replying
<1>7. CASE Writes(r, q) /\ q.phase # "idle"
  <2>1. /\ transcript' = transcript /\ q.msgs = p.msgs /\ q.kept = p.kept
        /\ \/ p.phase = "saving" /\ q.phase = "appending"
           \/ p.phase \in Replying /\ q.phase \in Replying
    BY <1>7, IdleIs DEF Writes, Replying, p
  <2> QED
    BY <1>6, <2>1
<1>8. CASE Stores(r, q) /\ q.phase # "idle"
  <2>1. /\ p.phase = "appending" /\ q.phase = "streaming" /\ q.msgs = p.msgs
        /\ transcript' = Onto(transcript, p)
    BY <1>8, IdleIs DEF Stores, Appended, Onto, p
  <2>2. transcript' = q.msgs
    BY <1>1, <1>2, <2>1, OntoAsked
  <2> QED
    BY <2>1, <2>2 DEF Telling, Replying
<1>9. CASE Streams(r, q)
  <2>1. /\ transcript' = transcript /\ p.phase = "streaming" /\ q.phase = "backing"
        /\ q.kept \in {p.kept, 0} /\ Len(p.msgs) <= Len(q.msgs)
        /\ \A i \in 1 .. Len(p.msgs) : q.msgs[i].told = p.msgs[i].told
        /\ \A i \in Len(p.msgs) + 1 .. Len(q.msgs) : q.msgs[i].told = {}
    BY <1>9 DEF Streams, Quiet, storeVars, p
  <2>2. p.kept = Len(p.msgs) /\ p.msgs = transcript
    BY <1>1, <2>1 DEF Continues, Telling
  <2>3. TellsAs(Onto(transcript, q), transcript)
    BY <1>2, <2>1, <2>2, TellsReplied
  <2> QED
    BY <2>1, <2>3 DEF Telling, Replying
<1>10. CASE Waits(r, q)
  <2>1. /\ transcript' = transcript /\ q.msgs = p.msgs /\ q.kept = p.kept
        /\ p.phase \in Replying /\ q.phase \in Replying
    BY <1>10 DEF Waits, Quiet, storeVars, Replying, p
  <2> QED
    BY <1>6, <2>1
<1>11. Opens(r, q) \/ Ends(r, q) => q.phase \in {"idle", "loading"}
  BY IdleIs DEF Opens, Ends
<1>12. ~Takes(r, q) /\ ~Acts(r, q) /\ ~Resets(r, q)
  BY <1>1 DEF Takes, Acts, Resets
<1> QED
  BY <1>4, <1>5, <1>7, <1>8, <1>9, <1>10, <1>11, <1>12 DEF Goes

\* Reached, for the one turn: the transcript t, the notes n pending, u saved, d saved under a turn.
ReachedBy(t, n, u, d, q) ==
  /\ n \subseteq u /\ Told(t) \subseteq u
  /\ q.phase \notin {"idle", "loading", "saving"} => n \subseteq d
  /\ \A x \in u \ d : x \in n \cup Told(t) \/ (q.phase = "appending" /\ x \in Carried(q))
  /\ n \cap Told(t) = {} /\ Once(t)
  /\ q.phase = "appending" => Carried(q) \subseteq u /\ Carried(q) \cap (n \cup Told(t)) = {}

LEMMA ReachedTurn ==
  ASSUME OneTurn, NEW r \in Chats
  PROVE  /\ Reached <=> ReachedBy(transcript, notes, queued, during, req[r])
         /\ Reached' <=> ReachedBy(transcript', notes', queued', during', req'[r])
<1>1. \A s \in Chats : s = r
  BY DEF OneTurn
<1>2. Turning # {} <=> req[r].phase \notin {"idle", "loading", "saving"}
  BY <1>1 DEF Turning
<1>3. Turning' # {} <=> req'[r].phase \notin {"idle", "loading", "saving"}
  BY <1>1 DEF Turning
<1>4. Reached <=> ReachedBy(transcript, notes, queued, during, req[r])
  BY <1>1, <1>2 DEF Reached, ReachedBy
<1>5. Reached' <=> ReachedBy(transcript', notes', queued', during', req'[r])
  BY <1>1, <1>3 DEF Reached, ReachedBy
<1> QED
  BY <1>4, <1>5

LEMMA ReachedKept ==
  ASSUME OneTurn, TypeOK, Placed, Stored, Loaded, Holding, Reached,
         NEW r \in Chats, Telling(transcript, req[r]), NEW q, Becomes(r, q), Goes(r, q)
  PROVE  Reached'
<1> DEFINE p == req[r]
<1>1. /\ r \in Slots /\ r \notin Buttons
      /\ Continues(transcript, p) /\ Telling(transcript, p)
      /\ ReachedBy(transcript, notes, queued, during, p)
  BY SlotsAssumption, ReachedTurn DEF Slots, Stored
<1>2. /\ p \in Request /\ transcript \in Seq(Message) /\ p.msgs \in Seq(Message)
      /\ p.kept \in Nat /\ p.kept <= Len(p.msgs)
  BY <1>1, Fields DEF TypeOK
<1>3. SUFFICES ReachedBy(transcript', notes', queued', during', q)
  BY <1>1, ReachedTurn, Others
<1>4. ASSUME p.phase \in {"saving", "backing", "again"}
      PROVE  p.notes = {} /\ p.loaded \subseteq queued
  BY <1>1, <1>4 DEF Holding
<1>5. ASSUME p.phase = "saving", p.version = version
      PROVE  notes = p.loaded
  BY <1>1, <1>5 DEF Loaded, Early
<1> HIDE DEF p
<1>6. ASSUME transcript' = transcript, notes' = notes, queued' = queued, during' = during,
             p.phase # "appending", q.phase # "appending",
             q.phase \in {"idle", "loading", "saving"} \/ p.phase \in {"streaming", "backing", "rebasing"}
      PROVE  ReachedBy(transcript', notes', queued', during', q)
  BY <1>1, <1>6 DEF ReachedBy
<1>7. CASE Opens(r, q) \/ Questions(r, q) \/ Ends(r, q)
  BY <1>6, <1>7, IdleIs
     DEF Opens, Questions, Ends, Quiet, storeVars, historyVars, p
<1>8. CASE Streams(r, q) \/ Waits(r, q)
  BY <1>6, <1>8 DEF Streams, Waits, Quiet, storeVars, historyVars, p
<1>9. CASE Writes(r, q) /\ p.phase = "saving"
  <2>1. /\ transcript' = transcript /\ notes' = {} /\ queued' = queued /\ during' = during
        /\ p.notes = {} /\ notes = p.loaded
    <3>1. /\ transcript' = transcript /\ notes' = p.notes
          /\ queued' = queued \cup (p.notes \ p.loaded)
          /\ during' \in {during, during \cup (p.notes \ p.loaded)} /\ version = p.version
      BY <1>9 DEF Writes, p
    <3> QED
      BY <1>4, <1>5, <1>9, <3>1
  <2>2. Grew(p)
    <3>1. p.kept = Len(p.msgs) - 1
      BY <1>1, <1>9 DEF Continues
    <3> QED
      BY <1>2, <3>1 DEF Grew
  <2>3. q.phase = "appending" /\ q.msgs = p.msgs
    BY <1>9, <2>2 DEF Writes, p
  <2>4. Carried(q) = notes
    BY <1>1, <1>9, <2>1, <2>3 DEF Telling, Carried
  <2>5. \A x \in queued \ during : x \in notes \cup Told(transcript)
    BY <1>1, <1>9 DEF ReachedBy
  <2> QED
    BY <1>1, <2>1, <2>3, <2>4, <2>5 DEF ReachedBy
<1>10. CASE Writes(r, q) /\ p.phase # "saving"
  <2>1. /\ transcript' = transcript /\ notes' = p.notes /\ p.phase \in {"backing", "again"}
        /\ queued' = queued \cup (p.notes \ p.loaded)
        /\ during' \in {during, during \cup (p.notes \ p.loaded)}
        /\ q.phase \in {"idle", "completing"}
    BY <1>10, IdleIs DEF Writes, p
  <2>2. notes' = {} /\ queued' = queued /\ during' = during
    BY <1>4, <2>1
  <2>3. notes \subseteq during
    BY <1>1, <2>1 DEF ReachedBy
  <2>4. \A x \in queued \ during : x \in Told(transcript)
    BY <1>1, <2>1, <2>3 DEF ReachedBy
  <2> QED
    BY <1>1, <2>1, <2>2, <2>4 DEF ReachedBy
<1>11. CASE Stores(r, q) /\ p.phase = "appending"
  <2>1. /\ transcript' = Onto(transcript, p)
        /\ notes' = notes /\ queued' = queued /\ during' = during
    BY <1>11 DEF Stores, Appended, Onto, historyVars, p
  <2>2. q.phase = "streaming"
    BY <1>11 DEF Stores, p
  <2>3. /\ transcript' = p.msgs /\ \A i \in 1 .. Len(transcript) : p.msgs[i] = transcript[i]
        /\ Len(p.msgs) = Len(transcript) + 1
    BY <1>1, <1>2, <1>11, <2>1, OntoAsked DEF Telling
  <2>4. /\ Once(transcript) /\ Carried(p) \cap (notes \cup Told(transcript)) = {}
        /\ Carried(p) \subseteq queued
    BY <1>1, <1>11 DEF ReachedBy
  <2>5. \A n : n \in Told(p.msgs) <=> n \in Told(transcript) \/ n \in Carried(p)
    BY <1>2, <2>3, ToldAdded DEF Carried
  <2>6. Once(p.msgs)
    BY <1>2, <2>3, <2>4, ToldAdded DEF Carried
  <2>7. /\ notes \subseteq queued /\ Told(p.msgs) \subseteq queued
        /\ notes \subseteq during /\ notes \cap Told(p.msgs) = {}
        /\ \A x \in queued \ during : x \in notes \cup Told(p.msgs)
    BY <1>1, <1>11, <2>4, <2>5 DEF ReachedBy
  <2> QED
    BY <2>1, <2>2, <2>3, <2>6, <2>7 DEF ReachedBy
<1>12. CASE Stores(r, q) /\ p.phase # "appending"
  <2>1. /\ transcript' = Onto(transcript, p) /\ p.phase = "completing" /\ q.phase = "idle"
        /\ notes' = notes /\ queued' = queued /\ during' = during
    BY <1>12, IdleIs DEF Stores, Appended, Onto, historyVars, p
  <2>2. TellsAs(Onto(transcript, p), transcript) /\ Onto(transcript, p) \in Seq(Message)
    BY <1>1, <1>2, <2>1, OntoIs DEF Telling, Replying
  <2>3. Told(transcript') = Told(transcript) /\ (Once(transcript) => Once(transcript'))
    BY <1>2, <2>1, <2>2, ToldSame
  <2> QED
    BY <1>1, <2>1, <2>3 DEF ReachedBy
<1>13. ~Takes(r, q) /\ ~Acts(r, q) /\ ~Resets(r, q)
  BY <1>1 DEF Takes, Acts, Resets
<1> QED
  BY <1>7, <1>8, <1>9, <1>10, <1>11, <1>12, <1>13 DEF Goes

\* The step of a button, which leaves the transcript alone.
LEMMA ReachedButton ==
  ASSUME TypeOK, Placed, Loaded, Holding, Reached, NEW r \in Buttons, NEW q, Becomes(r, q), Goes(r, q),
         ~Resets(r, q)
  PROVE  transcript' = transcript /\ (\A s \in Chats : req'[s] = req[s]) /\ Reached'
<1>1. r \in Slots /\ r \notin Chats /\ Chats \subseteq Slots
  BY SlotsAssumption DEF Slots
<1>2. \A s \in Chats : req'[s] = req[s]
  BY <1>1, Others
<1>3. Turning' = Turning
  BY <1>2 DEF Turning
<1>4. req[r].phase \in {"idle"} \cup Early
  BY DEF Placed
<1>5. ~Stores(r, q)
  BY <1>4 DEF Stores, Early
<1>6. transcript' = transcript
  BY <1>5 DEF Goes, Opens, Takes, Questions, Acts, Writes, Streams, Waits, Ends, Quiet, storeVars
<1>7. CASE ~Writes(r, q)
  <2>1. notes' = notes /\ queued' = queued /\ during' = during
    BY <1>5, <1>7 DEF Goes, Opens, Takes, Questions, Acts, Streams, Waits, Ends, Quiet, storeVars,
                      historyVars
  <2> QED
    BY <1>2, <1>3, <1>6, <2>1 DEF Reached
<1>8. CASE Writes(r, q)
  <2> DEFINE p == req[r]
  <2>1. /\ p.phase = "saving" /\ version = p.version
        /\ notes' = p.notes /\ queued' = queued \cup (p.notes \ p.loaded)
        /\ during' = IF Turning # {} THEN during \cup (p.notes \ p.loaded) ELSE during
    BY <1>4, <1>8 DEF Writes, Early
  <2>2. /\ notes = p.loaded /\ p.id \notin queued
        /\ p.notes \in {p.loaded, p.loaded \cup {p.id}}
    BY <1>1, <2>1 DEF Loaded, Holding, Early
  <2> DEFINE new == p.notes \ p.loaded
  <2>3. new \subseteq {p.id} /\ p.notes = notes \cup new
    BY <2>2
  <2> HIDE DEF new, p
  <2>4. new \cap queued = {} /\ notes \subseteq queued
    BY <2>2, <2>3 DEF Reached
  <2>5. notes' = notes \cup new /\ queued' = queued \cup new
    BY <2>1, <2>3 DEF new
  <2>6. during' = IF Turning # {} THEN during \cup new ELSE during
    BY <2>1 DEF new
  <2>7. notes' \subseteq queued' /\ Told(transcript) \subseteq queued' /\ Once(transcript)
        /\ notes' \cap Told(transcript) = {}
    BY <2>4, <2>5 DEF Reached
  <2>8. Turning # {} => notes' \subseteq during'
    BY <2>5, <2>6 DEF Reached
  <2>9. ASSUME NEW n \in queued' \ during'
        PROVE  n \in notes' \cup Told(transcript) \/ \E s \in Chats : req[s].phase = "appending"
                                                                     /\ n \in Carried(req[s])
    <3>1. n \in new \/ n \in queued \ during
      BY <2>5, <2>6
    <3> QED
      BY <2>5, <3>1 DEF Reached
  <2>10. ASSUME NEW s \in Chats, req[s].phase = "appending"
         PROVE  /\ Carried(req[s]) \subseteq queued'
                /\ Carried(req[s]) \cap (notes' \cup Told(transcript)) = {}
    <3>1. Carried(req[s]) \subseteq queued /\ Carried(req[s]) \cap (notes \cup Told(transcript)) = {}
      BY <2>10 DEF Reached
    <3> QED
      BY <2>4, <2>5, <3>1
  <2> QED
    BY <1>2, <1>3, <1>6, <2>7, <2>8, <2>9, <2>10 DEF Reached
<1> QED
  BY <1>2, <1>6, <1>7, <1>8

LEMMA PendingStep ==
  ASSUME OneTurn, BaseInv, Stored, Pending, [Next]_vars
  PROVE  Pending'
<1>1. TypeOK /\ Placed
  BY DEF BaseInv
<1>2. CASE UNCHANGED vars
  BY <1>2 DEF Pending, Loaded, Holding, Reached, Turning, vars
<1>3. CASE ~UNCHANGED vars
  <2>0. PICK r \in Slots : \E q : Becomes(r, q) /\ Goes(r, q)
    BY <1>1, <1>3, Steps
  <2>1. PICK q : Becomes(r, q) /\ Goes(r, q)
    BY <2>0
  <2>2. SUFFICES ASSUME dropped' = "no" PROVE Pending'
    BY DEF Pending
  <2>3. dropped = "no" /\ ~Resets(r, q) /\ (version # 0 => version' # 0)
    <3>1. ~Resets(r, q)
      BY <2>2 DEF Resets
    <3>2. dropped' = dropped /\ (version' = version \/ version' = version + 1)
      BY <2>1, <3>1 DEF Goes, Opens, Takes, Questions, Acts, Writes, Stores, Streams, Waits, Ends, Quiet,
                        storeVars, historyVars
    <3>3. version \in Nat
      BY <1>1 DEF TypeOK
    <3> QED
      BY <2>2, <3>1, <3>2, <3>3
  <2>4. /\ version # 0 /\ Loaded /\ Holding /\ Reached
        /\ \A s \in Chats : Telling(transcript, req[s])
    BY <2>3 DEF Pending
  <2>5. version' # 0 /\ Loaded'
    BY <1>1, <2>1, <2>3, <2>4, LoadedKept
  <2>6. Holding'
    <3>1. notes \subseteq queued
      BY <2>4 DEF Reached
    <3> QED
      BY <1>1, <2>1, <2>4, <3>1, HoldingKept
  <2>7. CASE r \in Buttons
    <3>1. transcript' = transcript /\ (\A s \in Chats : req'[s] = req[s]) /\ Reached'
      BY <1>1, <2>1, <2>3, <2>4, <2>7, ReachedButton
    <3> QED
      BY <2>4, <2>5, <2>6, <3>1 DEF Pending
  <2>8. CASE r \in Chats
    <3>1. Reached'
      BY <1>1, <2>1, <2>4, <2>8, ReachedKept
    <3>2. Telling(transcript', q)
      BY <1>1, <2>1, <2>4, <2>8, TellingTurn
    <3>3. req'[r] = q
      BY <1>1, <2>1, Others
    <3>4. \A s \in Chats : req'[s] = q
      BY <2>8, <3>3 DEF OneTurn
    <3> QED
      BY <2>5, <2>6, <3>1, <3>2, <3>4 DEF Pending
  <2> QED
    BY <2>7, <2>8 DEF Slots
<1> QED
  BY <1>2, <1>3

LEMMA PendingInit == Init => Pending
<1> SUFFICES ASSUME Init PROVE Pending
  OBVIOUS
<1>1. \A r \in Slots : req[r].phase = "idle"
  BY IdleIs DEF Init
<1>2. \A r \in Chats \cup Buttons : req[r].phase = "idle"
  BY <1>1 DEF Slots
<1>3. Loaded /\ Holding /\ \A r \in Chats : Telling(transcript, req[r])
  BY <1>1, <1>2 DEF Loaded, Holding, Telling, Replying, Early
<1>4. Turning = {}
  BY <1>2 DEF Turning
<1>5. Told(transcript) = {} /\ Once(transcript)
  BY DEF Init, Told, Once
<1> QED
  BY <1>2, <1>3, <1>4, <1>5 DEF Init, Pending, Reached

\* NotesReachTheModel: until the session is reset, and with one turn at a time, the note of an
\* answered button is pending or told, unless it was saved while a turn streamed, and is told
\* in one message only (append_user_turn, write_state, write_back).
THEOREM NotesReach ==
  ASSUME OneTurn
  PROVE  Spec => []NotesReachTheModel
<1>1. Init => IInv
  BY BaseInit, StoredInit, PendingInit DEF IInv
<1>2. IInv /\ [Next]_vars => IInv'
  BY BaseStep, StoredStep, PendingStep DEF IInv
<1>3. IInv => NotesReachTheModel
  <2> SUFFICES ASSUME IInv, dropped = "no" PROVE NotesReachTheModel
    BY DEF NotesReachTheModel
  <2>1. /\ TypeOK /\ Stored /\ Reached
        /\ \A r \in Chats : Telling(transcript, req[r])
    BY DEF IInv, BaseInv, Pending
  <2>2. transcript \in Seq(Message) /\ DOMAIN transcript = 1 .. Len(transcript)
    BY <2>1 DEF TypeOK
  <2>3. ToldBy(transcript) = Told(transcript)
    BY <2>2 DEF ToldBy, Told
  <2>4. ASSUME NEW r \in Chats, req[r].phase = "appending", NEW n \in Carried(req[r])
        PROVE  n \in ToldBy(req[r].msgs)
    <3>1. Len(req[r].msgs) = Len(transcript) + 1 /\ Len(transcript) \in Nat
      BY <2>1, <2>2, <2>4 DEF Telling
    <3>2. req[r].msgs \in Seq(Message)
      BY <2>1, Fields DEF Slots
    <3>3. Len(req[r].msgs) \in DOMAIN req[r].msgs
      BY <3>1, <3>2
    <3> QED
      BY <2>4, <3>3 DEF Carried, ToldBy
  <2>5. ASSUME NEW n \in queued \ during
        PROVE  n \in notes \cup ToldBy(transcript)
                       \cup UNION {ToldBy(req[r].msgs) : r \in {s \in Chats : req[s].phase = "appending"}}
    <3>1. \/ n \in notes \cup Told(transcript)
          \/ \E r \in Chats : req[r].phase = "appending" /\ n \in Carried(req[r])
      BY <2>1 DEF Reached
    <3>2. CASE n \in notes \cup Told(transcript)
      BY <2>3, <3>2
    <3>3. ASSUME NEW r \in Chats, req[r].phase = "appending", n \in Carried(req[r])
          PROVE  n \in UNION {ToldBy(req[u].msgs) : u \in {s \in Chats : req[s].phase = "appending"}}
      BY <2>4, <3>3
    <3> QED
      BY <3>1, <3>2, <3>3
  <2>6. notes \cap ToldBy(transcript) = {} /\ Once(transcript)
    BY <2>1, <2>3 DEF Reached
  <2> QED
    BY <2>2, <2>5, <2>6 DEF NotesReachTheModel, Once
<1>4. Spec => []IInv
  BY <1>1, <1>2, PTL DEF Spec
<1> QED
  BY <1>3, <1>4, PTL

-----------------------------------------------------------------------------
(* With one turn at a time: what is stored is kept. *)

LEMMA ContainsFront ==
  ASSUME NEW s \in Seq(Message), NEW t \in Seq(Message), Len(t) <= Len(s),
         \A i \in 1 .. Len(t) : s[i].turn = t[i].turn /\ s[i].part = t[i].part
  PROVE  Contains(s, t)
<1>1. \A i \in 1 .. Len(t) : i \in DOMAIN s
  OBVIOUS
<1> QED
  BY <1>1 DEF Contains, Has

LEMMA ContainsNothing ==
  ASSUME NEW s
  PROVE  Contains(s, <<>>)
BY DEF Contains

\* The question's save keeps the transcript, and the turn has all that is stored then.
LEMMA RetainsStored ==
  ASSUME NEW t \in Seq(Message), NEW p \in Request, Continues(t, p), p.phase = "appending"
  PROVE  Contains(Onto(t, p), t) /\ Contains(p.msgs, Onto(t, p))
<1>1. /\ p.msgs \in Seq(Message) /\ p.kept \in Nat /\ p.kept = Len(p.msgs) - 1
      /\ Len(p.msgs) \in Nat /\ Len(t) \in Nat /\ p.kept <= Len(p.msgs)
      /\ t = SubSeq(p.msgs, 1, p.kept) \/ t = <<>>
  BY DEF Continues, Request
<1>2. (Len(t) = p.kept /\ \A i \in 1 .. Len(t) : p.msgs[i] = t[i]) \/ Len(t) = 0
  BY <1>1, FrontOf
<1> DEFINE u == Onto(t, p)
<1>3. Cut(t, p) = Len(t) /\ Len(t) <= p.kept
  BY <1>1, <1>2 DEF Cut
<1>4. /\ u \in Seq(Message)
      /\ Len(u) = Cut(t, p) + Len(p.msgs) - p.kept
      /\ \A i \in 1 .. Cut(t, p) : u[i] = t[i]
      /\ \A i \in Cut(t, p) + 1 .. Len(u) :
           p.kept + i - Cut(t, p) \in 1 .. Len(p.msgs) /\ u[i] = p.msgs[p.kept + i - Cut(t, p)]
  BY <1>1, OntoIs
<1> HIDE DEF u
<1>5. Len(u) = Len(t) + 1
  BY <1>1, <1>3, <1>4
<1>6. Contains(u, t)
  <2>1. \A i \in 1 .. Len(t) : u[i].turn = t[i].turn /\ u[i].part = t[i].part
    BY <1>3, <1>4
  <2>2. Len(t) <= Len(u)
    BY <1>1, <1>5
  <2> QED
    BY <1>4, <2>1, <2>2, ContainsFront
<1>7. ASSUME NEW i \in 1 .. Len(u)
      PROVE  \E j \in 1 .. Len(p.msgs) : p.msgs[j] = u[i]
  <2>1. CASE i \in 1 .. Len(t)
    <3>1. i \in 1 .. Len(p.msgs) /\ p.msgs[i] = t[i]
      BY <1>1, <1>2, <2>1
    <3>2. u[i] = t[i]
      BY <1>3, <1>4, <2>1
    <3> QED
      BY <3>1, <3>2
  <2>2. CASE i \in Len(t) + 1 .. Len(u)
    BY <1>3, <1>4, <2>2
  <2> QED
    BY <1>1, <1>5, <2>1, <2>2
<1>8. Contains(p.msgs, u)
  <2>1. DOMAIN p.msgs = 1 .. Len(p.msgs)
    BY <1>1
  <2>2. \A i \in 1 .. Len(u) : \E j \in DOMAIN p.msgs : p.msgs[j] = u[i]
    BY <1>7, <2>1
  <2> QED
    BY <2>2 DEF Contains, Has
<1> QED
  BY <1>6, <1>8 DEF u

\* The reply goes behind the transcript, or the record that has all of it is written over it.
LEMMA RetainsReplied ==
  ASSUME NEW t \in Seq(Message), NEW p \in Request, NEW q \in Request,
         Continues(t, p), Retains(t, p), p.phase = "streaming",
         q.kept \in {p.kept, 0}, Len(p.msgs) <= Len(q.msgs),
         \A i \in 1 .. Len(p.msgs) : q.msgs[i].turn = p.msgs[i].turn /\ q.msgs[i].part = p.msgs[i].part
  PROVE  Contains(Onto(t, q), t)
<1>1. /\ p.msgs \in Seq(Message) /\ q.msgs \in Seq(Message) /\ p.kept = Len(p.msgs)
      /\ Len(t) <= p.kept /\ Contains(p.msgs, t)
      /\ Len(t) \in Nat /\ Len(p.msgs) \in Nat /\ Len(q.msgs) \in Nat
  BY DEF Continues, Retains, Request
<1>2. q.kept <= Len(q.msgs) /\ q.kept \in Nat
  BY <1>1
<1> DEFINE u == Onto(t, q)
<1>3. /\ u \in Seq(Message)
      /\ Len(u) = Cut(t, q) + Len(q.msgs) - q.kept
      /\ \A i \in 1 .. Cut(t, q) : u[i] = t[i]
      /\ \A i \in Cut(t, q) + 1 .. Len(u) : u[i] = q.msgs[q.kept + i - Cut(t, q)]
  BY <1>2, OntoIs
<1> HIDE DEF u
<1>4. CASE q.kept = p.kept
  <2>1. Cut(t, q) = Len(t)
    BY <1>1, <1>4 DEF Cut
  <2>2. Len(t) <= Len(u)
    BY <1>1, <1>2, <1>3, <2>1
  <2>3. \A i \in 1 .. Len(t) : u[i].turn = t[i].turn /\ u[i].part = t[i].part
    BY <1>3, <2>1
  <2> QED
    BY <1>3, <2>2, <2>3, ContainsFront DEF u
<1>5. CASE q.kept = 0
  <2>1. Cut(t, q) = 0
    BY <1>1, <1>5 DEF Cut
  <2>2. Len(u) = Len(q.msgs)
    BY <1>1, <1>3, <1>5, <2>1
  <2>3. ASSUME NEW i \in 1 .. Len(u)
        PROVE  u[i] = q.msgs[i]
    <3>1. i \in Cut(t, q) + 1 .. Len(u) /\ q.kept + i - Cut(t, q) = i
      BY <1>5, <2>1
    <3> QED
      BY <1>3, <3>1
  <2>4. ASSUME NEW i \in 1 .. Len(t)
        PROVE  Has(u, t[i])
    <3>1. PICK j \in DOMAIN p.msgs : p.msgs[j].turn = t[i].turn /\ p.msgs[j].part = t[i].part
      BY <1>1 DEF Contains, Has
    <3>2. j \in 1 .. Len(p.msgs) /\ j \in 1 .. Len(u) /\ j \in DOMAIN u
      <4>1. j \in 1 .. Len(p.msgs)
        BY <1>1
      <4>2. j \in 1 .. Len(u)
        BY <1>1, <2>2, <4>1
      <4> QED
        BY <1>3, <4>1, <4>2
    <3>3. u[j].turn = t[i].turn /\ u[j].part = t[i].part
      BY <2>3, <3>1, <3>2
    <3> QED
      BY <3>2, <3>3 DEF Has
  <2> QED
    BY <2>4 DEF Contains, u
<1> QED
  BY <1>4, <1>5

\* The one turn's own step.
LEMMA RetainedTurn ==
  ASSUME TypeOK, Placed, Stored, NEW r \in Chats, Retains(transcript, req[r]),
         NEW q, Becomes(r, q), Goes(r, q)
  PROVE  Contains(transcript', transcript) /\ Retains(transcript', q)
<1> DEFINE p == req[r]
<1>1. /\ r \in Slots /\ r \notin Buttons
      /\ Continues(transcript, p) /\ Retains(transcript, p)
  BY SlotsAssumption DEF Slots, Stored
<1>2. p \in Request /\ q \in Request /\ transcript \in Seq(Message)
  BY <1>1, Fields DEF TypeOK, Becomes
<1>3. Contains(transcript, transcript)
  BY <1>2, ContainsFront
<1> HIDE DEF p
<1>4. ASSUME transcript' = transcript, q.phase \notin {"streaming"} \cup Replying
      PROVE  Contains(transcript', transcript) /\ Retains(transcript', q)
  BY <1>3, <1>4 DEF Retains
<1>5. ASSUME transcript' = transcript, p.phase \in Replying, q.phase \in Replying,
             q.msgs = p.msgs, q.kept = p.kept
      PROVE  Contains(transcript', transcript) /\ Retains(transcript', q)
  <2>1. Onto(transcript, q) = Onto(transcript, p)
    BY <1>5 DEF Onto
  <2> QED
    BY <1>1, <1>3, <1>5, <2>1 DEF Retains, Replying
<1>6. CASE Opens(r, q) \/ Questions(r, q) \/ Ends(r, q)
  BY <1>4, <1>6, IdleIs DEF Opens, Questions, Ends, Quiet, storeVars, Replying
<1>7. CASE Writes(r, q)
  <2>1. transcript' = transcript
    BY <1>7 DEF Writes
  <2>2. \/ q.phase \in {"idle", "appending"}
        \/ p.phase \in Replying /\ q.phase \in Replying /\ q.msgs = p.msgs /\ q.kept = p.kept
    BY <1>7, IdleIs DEF Writes, Replying, p
  <2> QED
    BY <1>4, <1>5, <2>1, <2>2 DEF Replying
<1>8. CASE Waits(r, q)
  BY <1>5, <1>8 DEF Waits, Quiet, storeVars, Replying, p
<1>9. CASE Streams(r, q)
  <2>1. /\ transcript' = transcript /\ p.phase = "streaming" /\ q.phase = "backing"
        /\ q.kept \in {p.kept, 0} /\ Len(p.msgs) <= Len(q.msgs)
        /\ \A i \in 1 .. Len(p.msgs) : /\ q.msgs[i].turn = p.msgs[i].turn
                                       /\ q.msgs[i].part = p.msgs[i].part
    BY <1>9 DEF Streams, Quiet, storeVars, p
  <2>2. Contains(Onto(transcript, q), transcript)
    BY <1>1, <1>2, <2>1, RetainsReplied
  <2> QED
    BY <1>3, <2>1, <2>2 DEF Retains
<1>10. CASE Stores(r, q)
  <2>1. transcript' = Onto(transcript, p)
    BY <1>10 DEF Stores, Appended, Onto, p
  <2>2. CASE p.phase = "appending"
    <3>1. q.phase = "streaming" /\ q.msgs = p.msgs
      BY <1>10, <2>2 DEF Stores, p
    <3>2. Contains(Onto(transcript, p), transcript) /\ Contains(p.msgs, Onto(transcript, p))
      BY <1>1, <1>2, <2>2, RetainsStored
    <3> QED
      BY <2>1, <3>1, <3>2 DEF Retains, Replying
  <2>3. CASE p.phase = "completing" /\ q.phase = "idle"
    BY <1>1, <2>1, <2>3 DEF Retains, Replying
  <2> QED
    BY <1>10, <2>2, <2>3, IdleIs DEF Stores, p
<1>11. ~Takes(r, q) /\ ~Acts(r, q) /\ ~Resets(r, q)
  BY <1>1 DEF Takes, Acts, Resets
<1> QED
  BY <1>6, <1>7, <1>8, <1>9, <1>10, <1>11 DEF Goes

LEMMA RetainedStep ==
  ASSUME OneTurn, BaseInv, Stored, Retained, [Next]_vars
  PROVE  Retained' /\ (version' # 0 => Contains(transcript', transcript))
<1>1. TypeOK /\ Placed /\ transcript \in Seq(Message)
  BY DEF BaseInv, TypeOK
<1>2. Contains(transcript, transcript)
  BY <1>1, ContainsFront
<1>3. CASE UNCHANGED vars
  BY <1>2, <1>3 DEF Retained, vars
<1>4. CASE ~UNCHANGED vars
  <2>0. PICK r \in Slots : \E q : Becomes(r, q) /\ Goes(r, q)
    BY <1>1, <1>4, Steps
  <2>1. PICK q : Becomes(r, q) /\ Goes(r, q)
    BY <2>0
  <2>2. req'[r] = q /\ \A s \in Slots : s # r => req'[s] = req[s]
    BY <1>1, <2>1, Others
  <2>3. CASE r \in Buttons
    <3>1. \A s \in Chats : req'[s] = req[s]
      BY <2>2, <2>3, SlotsAssumption DEF Slots
    <3>2. CASE Resets(r, q)
      <4>1. version' = 0 /\ transcript' = <<>>
        BY <3>2 DEF Resets
      <4>2. \A s : Retains(<<>>, s)
        BY ContainsNothing DEF Retains
      <4> QED
        BY <4>1, <4>2 DEF Retained
    <3>3. CASE ~Resets(r, q)
      <4>1. ~Stores(r, q)
        BY <1>1, <2>3 DEF Placed, Stores, Early
      <4>2. transcript' = transcript
        BY <2>1, <3>3, <4>1 DEF Goes, Opens, Takes, Questions, Acts, Writes, Streams, Waits, Ends, Quiet,
                                storeVars
      <4> QED
        BY <1>2, <3>1, <4>2 DEF Retained
    <3> QED
      BY <3>2, <3>3
  <2>4. CASE r \in Chats
    <3>1. Retains(transcript, req[r])
      BY <2>4 DEF Retained
    <3>2. Contains(transcript', transcript) /\ Retains(transcript', q)
      BY <1>1, <2>1, <2>4, <3>1, RetainedTurn
    <3>3. \A s \in Chats : req'[s] = q
      BY <2>2, <2>4 DEF OneTurn
    <3> QED
      BY <3>2, <3>3 DEF Retained
  <2> QED
    BY <2>3, <2>4 DEF Slots
<1> QED
  BY <1>3, <1>4

\* MessagesAreKept: with one turn at a time, no step but a reset removes a stored message,
\* whatever a turn wrote over the transcript and whatever failed (write_messages).
THEOREM StoredMessagesAreKept ==
  ASSUME OneTurn
  PROVE  Spec => MessagesAreKept
<1> DEFINE Inv == BaseInv /\ Stored /\ Retained
           Keeps == version' # 0 => \A i \in DOMAIN transcript : Has(transcript', transcript[i])
<1>1. Init => Inv
  <2>1. Init => Retained
    BY IdleIs DEF Init, Slots, Retained, Retains, Replying
  <2> QED
    BY <2>1, BaseInit, StoredInit
<1>2. Inv /\ [Next]_vars => Inv' /\ Keeps
  <2> SUFFICES ASSUME Inv, [Next]_vars PROVE Inv' /\ Keeps
    OBVIOUS
  <2>1. BaseInv' /\ Stored' /\ Retained'
    BY BaseStep, StoredStep, RetainedStep
  <2>2. version' # 0 => Contains(transcript', transcript)
    BY RetainedStep
  <2>3. DOMAIN transcript = 1 .. Len(transcript)
    BY DEF BaseInv, TypeOK
  <2> QED
    BY <2>1, <2>2, <2>3 DEF Contains
<1> HIDE DEF Inv, Keeps
<1>3. Spec => [][Keeps]_vars
  BY <1>1, <1>2, PTL DEF Spec
<1> QED
  BY <1>3 DEF MessagesAreKept, Keeps
=============================================================================
