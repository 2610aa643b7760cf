---------------------------- MODULE PortalSession ----------------------------
(***************************************************************************)
(* One session of a portal host and the requests that load it, work on     *)
(* their own copy of it and write it back: chat turns, the preview card's  *)
(* buttons and the reset (SessionStore, session_dependency, stream_turn).  *)
(*                                                                         *)
(* The dependency that loads and saves a record and the write-back of a    *)
(* streamed turn are synchronous functions, which the framework runs in    *)
(* threads, so requests interleave between any two of the store's methods; *)
(* one method is one step, write_state being the compare-and-set its       *)
(* docstring asks of a store.                                              *)
(***************************************************************************)
EXTENDS Integers, Sequences, FiniteSets

CONSTANTS
  Chats,       \* the slots for chat turns under way at once, write-back included
  Buttons,     \* the slots for button and reset requests under way at once
  MaxRequests, \* bound: requests ever started
  MaxReplies   \* bound: messages the agent adds in one turn

ASSUME SlotsAssumption == Chats \cap Buttons = {}
ASSUME SessionBoundsAssumption == MaxRequests \in Nat /\ MaxReplies \in Nat \ {0}

VARIABLES
  version,     \* the stored document's version, 0 without a session
  notes,       \* the stored document's pending_app_events, each named by its request
  transcript,  \* the stored transcript
  req,         \* req[r]: the request in slot r and its record
  started,     \* requests started
  queued,      \* history: notes saved by an answered button
  during,      \* history: notes saved while a turn streamed
  dropped      \* history: the session was reset, "idle" when no turn was under way

vars == <<version, notes, transcript, req, started, queued, during, dropped>>
storeVars == <<version, notes, transcript>>
historyVars == <<queued, during, dropped>>

-----------------------------------------------------------------------------
Slots == Chats \cup Buttons
Numbers == 1 .. MaxRequests

\* A message: the turn that made it, its place in the turn (the user's is 0), the notes the
\* user's message begins with, and whether its result was cleared to save context.
Message == [turn: Numbers, part: 0 .. MaxReplies, told: SUBSET Numbers, cleared: BOOLEAN]

Phases == {"idle", "loading", "acting", "saving", "appending", "streaming",
           "backing", "rebasing", "again", "completing"}

\* A request: its number, and the record it holds (kept is stored_messages).
Request == [phase: Phases, id: {0} \cup Numbers, version: Nat, loaded: SUBSET Numbers,
            notes: SUBSET Numbers, msgs: Seq(Message), kept: Nat]

Idle == [phase |-> "idle", id |-> 0, version |-> 0, loaded |-> {}, notes |-> {},
         msgs |-> <<>>, kept |-> 0]

\* start: a session with an empty record, saved once.
Init ==
  /\ version = 1 /\ notes = {} /\ transcript = <<>>
  /\ req = [r \in Slots |-> Idle]
  /\ started = 0
  /\ queued = {} /\ during = {} /\ dropped = "no"

\* The turns whose request is saved and whose write-back is to come.
Turning == {r \in Chats : req[r].phase \notin {"idle", "loading", "saving"}}

-----------------------------------------------------------------------------
\* require, read_state: without a session the request is answered 401 and nothing happens.
ReadState(r) ==
  /\ req[r] = Idle /\ started < MaxRequests
  /\ version # 0
  /\ started' = started + 1
  /\ req' = [req EXCEPT ![r] = [Idle EXCEPT !.phase = "loading", !.id = started + 1,
               !.version = version, !.loaded = notes, !.notes = notes]]
  /\ UNCHANGED <<storeVars, historyVars>>

\* Mutant: the events are cleared and left out of the note.
UserTurnUntold(q) ==
  [q EXCEPT !.notes = {},
            !.msgs = Append(@, [turn |-> q.id, part |-> 0, told |-> {}, cleared |-> FALSE])]

\* append_user_turn: the pending events go into the user's message.
UserTurn(q) ==
  [q EXCEPT !.notes = {},
            !.msgs = Append(@, [turn |-> q.id, part |-> 0, told |-> q.notes, cleared |-> FALSE])]

\* require, read_messages; a chat request goes on to its route, which only touches the record.
ReadMessages(r) ==
  LET q == [req[r] EXCEPT !.msgs = transcript, !.kept = Len(transcript)] IN
  /\ req[r].phase = "loading"
  /\ req' = [req EXCEPT ![r] = IF r \in Chats THEN [UserTurn(q) EXCEPT !.phase = "saving"]
                                              ELSE [q EXCEPT !.phase = "acting"]]
  /\ UNCHANGED <<storeVars, started, historyVars>>

\* change_action: an apply or discard that went through leaves a note, one that a gate held
\* leaves none, one that failed is answered 400 and the record is not saved.
ChangeAction(r) ==
  /\ r \in Buttons /\ req[r].phase = "acting"
  /\ \/ req' = [req EXCEPT ![r].phase = "saving", ![r].notes = @ \cup {req[r].id}]
     \/ req' = [req EXCEPT ![r].phase = "saving"]
     \/ req' = [req EXCEPT ![r] = Idle]
  /\ UNCHANGED <<storeVars, started, historyVars>>

\* reset: the session is deleted; the record is marked ended, so the dependency saves nothing.
Reset(r) ==
  /\ r \in Buttons /\ req[r].phase = "acting"
  /\ version' = 0 /\ notes' = {} /\ transcript' = <<>>
  /\ dropped' = IF Turning = {} /\ dropped # "busy" THEN "idle" ELSE "busy"
  /\ req' = [req EXCEPT ![r] = Idle]
  /\ UNCHANGED <<started, queued, during>>

-----------------------------------------------------------------------------
Grew(q) == q.kept < Len(q.msgs)
Changed(q) == q.notes # q.loaded \/ Grew(q)

\* Mutant: a session that is gone takes any document.
WritableOrGone(q) == version \in {q.version, 0}

\* write_state's check: the version is still the one loaded; 0 when there is no session.
Writable(q) == version = q.version

\* save up to write_state, for a record that changed: the next phase is the one given, or
\* "done" when the transcript did not grow.
WriteState(r, next) ==
  LET q == req[r] IN
  /\ Changed(q) /\ Writable(q)
  /\ version' = version + 1
  /\ notes' = q.notes
  /\ req' = [req EXCEPT ![r] = IF Grew(q) THEN [q EXCEPT !.phase = next, !.version = @ + 1,
                                                         !.loaded = q.notes]
                                          ELSE Idle]
  /\ queued' = queued \cup (q.notes \ q.loaded)
  /\ during' = IF Turning # {} THEN during \cup (q.notes \ q.loaded) ELSE during
  /\ UNCHANGED <<transcript, started, dropped>>

\* The dependency's save after the route: nothing to write, written, or 409.
Save(r) ==
  /\ req[r].phase = "saving"
  /\ \/ WriteState(r, "appending")
     \/ /\ ~Changed(req[r]) \/ ~Writable(req[r])
        /\ req' = [req EXCEPT ![r] = Idle]
        /\ UNCHANGED <<storeVars, started, historyVars>>

\* Mutant: the messages are appended wherever the transcript ends.
AppendedAtTheEnd(q) == transcript \o SubSeq(q.msgs, q.kept + 1, Len(q.msgs))

\* write_messages: the transcript is replaced from stored_messages on.
Appended(q) ==
  SubSeq(transcript, 1, IF q.kept < Len(transcript) THEN q.kept ELSE Len(transcript))
    \o SubSeq(q.msgs, q.kept + 1, Len(q.msgs))

\* save, write_messages: after the dependency's save the turn streams, after the write-back
\* the request is over.
WriteMessages(r) ==
  LET q == req[r] IN
  /\ q.phase \in {"appending", "completing"}
  /\ transcript' = Appended(q)
  /\ req' = [req EXCEPT ![r] = IF q.phase = "appending"
                               THEN [q EXCEPT !.phase = "streaming", !.kept = Len(q.msgs)]
                               ELSE Idle]
  /\ UNCHANGED <<version, notes, started, historyVars>>

-----------------------------------------------------------------------------
\* The messages the agent adds to the record of a turn.
Reply(q, n) == [i \in 1 .. n |-> [turn |-> q.id, part |-> i, told |-> {}, cleared |-> FALSE]]

\* The results of earlier messages are cleared: the whole transcript is to be written.
Clear(msgs) == [i \in DOMAIN msgs |-> [msgs[i] EXCEPT !.cleared = msgs[i].part > 0]]

\* event_stream: the turn's messages, with or without a clearing of earlier results.
Stream(r) ==
  LET q == req[r] IN
  /\ q.phase = "streaming"
  /\ \E n \in 0 .. MaxReplies :
       \/ req' = [req EXCEPT ![r].phase = "backing", ![r].msgs = @ \o Reply(q, n)]
       \/ req' = [req EXCEPT ![r].phase = "backing", ![r].msgs = Clear(@) \o Reply(q, n),
                             ![r].kept = 0]
  /\ UNCHANGED <<storeVars, started, historyVars>>

\* The client goes away while the turn streams and the write-back never runs.
Abandon(r) ==
  /\ req[r].phase = "streaming"
  /\ req' = [req EXCEPT ![r] = Idle]
  /\ UNCHANGED <<storeVars, started, historyVars>>

\* write_back: saved, nothing to save, or a conflict with another request's write.
WriteBack(r) ==
  /\ req[r].phase = "backing"
  /\ \/ WriteState(r, "completing")
     \/ /\ ~Changed(req[r])
        /\ req' = [req EXCEPT ![r] = Idle]
        /\ UNCHANGED <<storeVars, started, historyVars>>
     \/ /\ Changed(req[r]) /\ ~Writable(req[r])
        /\ req' = [req EXCEPT ![r].phase = "rebasing"]
        /\ UNCHANGED <<storeVars, started, historyVars>>

\* write_back, the conflict: the turn takes the stored version for its own.
Rebase(r) ==
  /\ req[r].phase = "rebasing"
  /\ req' = [req EXCEPT ![r].phase = "again", ![r].version = version]
  /\ UNCHANGED <<storeVars, started, historyVars>>

\* write_back, the second save: a second conflict ends the write-back.
WriteBackAgain(r) ==
  /\ req[r].phase = "again"
  /\ \/ WriteState(r, "completing")
     \/ /\ ~Writable(req[r])
        /\ req' = [req EXCEPT ![r] = Idle]
        /\ UNCHANGED <<storeVars, started, historyVars>>

Next ==
  \E r \in Slots :
    \/ ReadState(r) \/ ReadMessages(r)
    \/ ChangeAction(r) \/ Reset(r)
    \/ Save(r) \/ WriteMessages(r)
    \/ Stream(r) \/ Abandon(r)
    \/ WriteBack(r) \/ Rebase(r) \/ WriteBackAgain(r)

Spec == Init /\ [][Next]_vars

-----------------------------------------------------------------------------
TypeOK ==
  /\ version \in Nat /\ notes \subseteq 1 .. started
  /\ transcript \in Seq(Message)
  /\ req \in [Slots -> Request]
  /\ \A r \in Slots : req[r].kept <= Len(req[r].msgs)
  /\ started \in 0 .. MaxRequests
  /\ queued \subseteq 1 .. started /\ during \subseteq queued
  /\ dropped \in {"no", "idle", "busy"}

ToldBy(msgs) == UNION {msgs[i].told : i \in DOMAIN msgs}
Has(msgs, m) == \E i \in DOMAIN msgs : msgs[i].turn = m.turn /\ msgs[i].part = m.part

\* A stored message stays in the transcript until the session is reset: a request that raced
\* another one does not overwrite what that one wrote (SessionStore.save, write_messages).
MessagesAreKept ==
  [][version' # 0 => \A i \in DOMAIN transcript : Has(transcript', transcript[i])]_vars

\* No message is stored twice, and a reply follows its question or the reply before it,
\* whatever was appended, rewritten or written back in between (save, stored_messages).
RepliesFollow ==
  /\ \A i, j \in DOMAIN transcript :
       i # j => <<transcript[i].turn, transcript[i].part>> # <<transcript[j].turn, transcript[j].part>>
  /\ \A i \in 2 .. Len(transcript) :
       transcript[i].part > 0 =>
         /\ transcript[i - 1].turn = transcript[i].turn
         /\ transcript[i - 1].part = transcript[i].part - 1

\* The note of an answered button is lost only to a turn that was streaming when it was saved:
\* otherwise it waits in the document or is in a turn's message (stream_turn, write_back).  And
\* the model is told once: a note is never pending again, or in a second message, after a turn
\* told it (append_user_turn, the version check).
NotesReachTheModel ==
  dropped = "no" =>
    /\ queued \ during \subseteq
         notes \cup ToldBy(transcript)
           \cup UNION {ToldBy(req[r].msgs) : r \in {s \in Chats : req[s].phase = "appending"}}
    /\ notes \cap ToldBy(transcript) = {}
    /\ \A i, j \in DOMAIN transcript : i # j => transcript[i].told \cap transcript[j].told = {}

\* A session that was reset while no turn streamed stays gone, whatever requests still hold a
\* record of it (reset, write_state).
ResetIsFinal == dropped = "idle" => version = 0
=============================================================================
