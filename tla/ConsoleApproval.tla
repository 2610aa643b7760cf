--------------------------- MODULE ConsoleApproval ---------------------------
(***************************************************************************)
(* The merchant's console on the Agent SDK (merchant/agent-sdk): the       *)
(* operator types, the model works a turn with the merchant tools, and the *)
(* console asks y/N for every staged change.  The console is the approval  *)
(* host: a yes puts a mark on the change for the length of one turn, and   *)
(* apply_change succeeds only under a mark.  What the model does in a turn *)
(* is any sequence of the tools it is allowed.                             *)
(***************************************************************************)
EXTENDS Naturals, Sequences, SequencesExt, Picking

CONSTANTS
  Changes,     \* change ids the runtime's ledger can hand out
  MaxTurns     \* bound on the operator's messages over all sessions

ASSUME ConsoleAssumption == IsFiniteSet(Changes) /\ MaxTurns \in Nat

NoChange == "no change"

VARIABLES
  mode,      \* "console" asks y/N, "trusting" is --no-host-approval, "once" is --once
  phase,     \* where the process is
  turn,      \* the turn under way
  ledger,    \* the runtime's own ledger file: the status of every change
  seen,      \* state.seen_changes of this conversation, in the order it met them
  approved,  \* state.approved_change_ids
  declined,  \* the console's own memory of the operator's no
  queue,     \* the changes confirm_staged_changes has yet to come to
  asked,     \* the change the turn under way was approved for
  turns,     \* the operator's messages so far
  said,      \* (history) the operator's word on a change since it was last tried
  late       \* (history) changes met after the questions of this turn were drawn up

consoleVars == <<mode, phase, turn, ledger, seen, approved, declined, queue, asked, turns, said, late>>

Session == <<seen, approved, declined, queue, asked>>

NoTurn == [requested |-> FALSE, staged |-> FALSE, reminded |-> FALSE, tried |-> {}, now |-> {}]

ConsoleTypeOK ==
  /\ mode \in {"console", "trusting", "once"}
  /\ phase \in {"off", "prompt", "turn", "asking", "applying"}
  /\ turn \in [requested : BOOLEAN, staged : BOOLEAN, reminded : BOOLEAN,
               tried : SUBSET Changes, now : SUBSET Changes]
  /\ ledger \in [Changes -> {"none", "staged", "applied", "discarded"}]
  /\ seen \in Seq(Changes) /\ queue \in Seq(Changes)
  /\ approved \in SUBSET Changes /\ declined \in SUBSET Changes /\ late \in SUBSET Changes
  /\ asked \in Changes \cup {NoChange}
  /\ turns \in 0 .. MaxTurns
  /\ said \in [Changes -> {"nothing", "yes", "no"}]

ConsoleInit ==
  /\ mode = "console" /\ phase = "off" /\ turn = NoTurn
  /\ ledger = [c \in Changes |-> "none"]
  /\ seen = <<>> /\ approved = {} /\ declined = {} /\ queue = <<>> /\ asked = NoChange
  /\ turns = 0
  /\ said = [c \in Changes |-> "nothing"]
  /\ late = {}

-----------------------------------------------------------------------------
(* The conversation *)

\* A new toolset over the ledger that is on disk.
NewToolset ==
  /\ seen' = <<>> /\ approved' = {} /\ declined' = {} /\ queue' = <<>> /\ asked' = NoChange
  /\ said' = [c \in Changes |-> "nothing"] /\ late' = {}

\* The process starts once the backend is warm; where that fails it ends before a turn.
Start ==
  /\ phase = "off"
  /\ mode' \in {"console", "trusting", "once"}
  /\ phase' = "prompt"
  /\ NewToolset
  /\ UNCHANGED <<turn, ledger, turns>>

\* A message is grounded and sent; requested: it reads as a request for a change.
Say ==
  /\ phase = "prompt" /\ turns < MaxTurns
  /\ phase' = "turn" /\ turns' = turns + 1
  /\ \E requested \in BOOLEAN : turn' = [NoTurn EXCEPT !.requested = requested]
  /\ UNCHANGED <<mode, ledger, Session, said, late>>

\* exit, the end of the input or an interrupt, at either prompt.
Leave ==
  /\ phase \in {"prompt", "asking"}
  /\ phase' = "off"
  /\ UNCHANGED <<mode, turn, ledger, Session, turns, said, late>>

-----------------------------------------------------------------------------
(* The model's tool calls within a turn *)

Working == phase \in {"turn", "applying"}

\* Met for the first time once this turn's questions are drawn up: they come next turn.
Meet(cs) ==
  /\ seen' = seen \o SetToSeq(cs \ ToSet(seen))
  /\ late' = IF phase = "applying" THEN late \cup (cs \ ToSet(seen)) ELSE late

\* A stage_* call; a guardrail may refuse it, which is an attempt all the same.
Stage(c) ==
  /\ Working /\ ledger[c] = "none"
  /\ turn' = [turn EXCEPT !.staged = TRUE]
  /\ \/ ledger' = [ledger EXCEPT ![c] = "staged"] /\ Meet({c})
     \/ UNCHANGED <<ledger, seen, late>>
  /\ UNCHANGED <<mode, phase, approved, declined, queue, asked, turns, said>>

\* get_pending_changes: what earlier sessions left staged becomes known here.
ReadPending ==
  /\ Working
  /\ Meet({c \in Changes : ledger[c] = "staged"})
  /\ UNCHANGED <<mode, phase, turn, ledger, approved, declined, queue, asked, turns, said>>

DiscardChange(c) ==
  /\ Working /\ c \in ToSet(seen) /\ ledger[c] = "staged"
  /\ ledger' = [ledger EXCEPT ![c] = "discarded"]
  /\ UNCHANGED <<mode, phase, turn, Session, turns, said, late>>

\* The executor's gate: a change this conversation has met, under the host's mark.
MayApply(c) ==
  /\ c \in ToSet(seen)
  /\ mode # "trusting" => c \in approved

\* An apply_change call: held by the gate, refused by the shop, or done.
ApplyChange(c) ==
  /\ Working
  /\ turn' = [turn EXCEPT !.now = @ \cup {c}]
  /\ \/ UNCHANGED ledger
     \/ /\ MayApply(c) /\ ledger[c] = "staged"
        /\ ledger' = [ledger EXCEPT ![c] = "applied"]
  /\ UNCHANGED <<mode, phase, Session, turns, said, late>>

-----------------------------------------------------------------------------
(* run_turn *)

\* The pass ended without a staging attempt though a change was asked for.
NeedsReminder == turn.requested /\ ~turn.staged /\ ~turn.reminded

\* The reminder is a second pass; the calls of both make up the result.
Remind ==
  /\ Working /\ NeedsReminder
  /\ turn' = [turn EXCEPT !.reminded = TRUE, !.tried = turn.now, !.now = {}]
  /\ UNCHANGED <<mode, phase, ledger, Session, turns, said, late>>

\* apply_attempts: what the turn's result says the model tried to apply.  A reminder pass
\* that fails is left out of the result, whatever it did.
Attempts == {turn.tried \cup turn.now} \cup (IF turn.reminded THEN {turn.tried} ELSE {})

\* pending_host_approvals: staged, met in this conversation and without a mark.
Pending ==
  Picked(seen, {i \in DOMAIN seen : ledger[seen[i]] = "staged" /\ seen[i] \notin approved})

TurnIsOver == phase = "turn" /\ ~NeedsReminder /\ turn' = NoTurn

ReopenNothing(tried) == declined

\* An apply attempt on a declined change reopens its question.
Reopen(tried) == declined \ tried

\* The console, after a turn of the operator's: the questions are drawn up.
DrawUpQuestions ==
  /\ TurnIsOver /\ mode = "console"
  /\ phase' = "asking"
  /\ queue' = Pending
  /\ \E tried \in Attempts :
       /\ declined' = Reopen(tried)
       /\ said' = [c \in Changes |-> IF c \in tried THEN "nothing" ELSE said[c]]
  /\ late' = {}
  /\ UNCHANGED <<mode, ledger, seen, approved, asked, turns>>

\* --no-host-approval asks nothing.
ChatGoesOn ==
  /\ TurnIsOver /\ mode = "trusting"
  /\ phase' = "prompt"
  /\ UNCHANGED <<mode, ledger, Session, turns, said, late>>

\* --once names what it leaves staged, and ends.
OnceEnds ==
  /\ TurnIsOver /\ mode = "once"
  /\ phase' = "off"
  /\ UNCHANGED <<mode, ledger, Session, turns, said, late>>

HostForgets(c) == approved' = approved

\* host_clear, in a finally: the mark does not outlive the turn it was given for.
HostClear(c) == approved' = approved \ {c}

\* The turn of an approval ends, whatever came of it.
ApprovedTurnEnds ==
  /\ phase = "applying" /\ ~NeedsReminder
  /\ phase' = "asking" /\ turn' = NoTurn
  /\ HostClear(asked) /\ asked' = NoChange
  /\ UNCHANGED <<mode, ledger, seen, declined, queue, turns, said, late>>

\* The client raises: marks are cleared on the way out and the process ends.
TurnFails ==
  /\ Working
  /\ phase' = "off" /\ turn' = NoTurn
  /\ HostClear(asked) /\ asked' = NoChange
  /\ UNCHANGED <<mode, ledger, seen, declined, queue, turns, said, late>>

-----------------------------------------------------------------------------
(* confirm_staged_changes *)

Ask == phase = "asking" /\ queue # <<>>

PassOver ==
  /\ Ask /\ Head(queue) \in declined
  /\ queue' = Tail(queue)
  /\ UNCHANGED <<mode, phase, turn, ledger, seen, approved, declined, asked, turns, said, late>>

AnswerYes ==
  /\ Ask /\ Head(queue) \notin declined
  /\ queue' = Tail(queue) /\ asked' = Head(queue)
  /\ approved' = approved \cup {Head(queue)}
  /\ phase' = "applying"
  /\ \E requested \in BOOLEAN : turn' = [NoTurn EXCEPT !.requested = requested]
  /\ said' = [said EXCEPT ![Head(queue)] = "yes"]
  /\ UNCHANGED <<mode, ledger, seen, declined, turns, late>>

AnswerNo ==
  /\ Ask /\ Head(queue) \notin declined
  /\ queue' = Tail(queue)
  /\ declined' = declined \cup {Head(queue)}
  /\ said' = [said EXCEPT ![Head(queue)] = "no"]
  /\ UNCHANGED <<mode, phase, turn, ledger, seen, approved, asked, turns, late>>

AllAsked ==
  /\ phase = "asking" /\ queue = <<>>
  /\ phase' = "prompt"
  /\ UNCHANGED <<mode, turn, ledger, Session, turns, said, late>>

ConsoleNext ==
  \/ Start \/ Say \/ Leave
  \/ \E c \in Changes : Stage(c) \/ DiscardChange(c) \/ ApplyChange(c)
  \/ ReadPending \/ Remind \/ DrawUpQuestions \/ ChatGoesOn \/ OnceEnds
  \/ ApprovedTurnEnds \/ TurnFails
  \/ PassOver \/ AnswerYes \/ AnswerNo \/ AllAsked

ConsoleSpec == ConsoleInit /\ [][ConsoleNext]_consoleVars

-----------------------------------------------------------------------------
(* With host approval on, a change is applied only in the turn the         *)
(* operator's yes to that very change started: neither an earlier yes whose *)
(* apply failed nor a yes to another change opens the gate, in this or in a *)
(* later session over the same ledger.                                     *)
AppliedWasApproved ==
  [][\A c \in Changes :
       ledger'[c] = "applied" /\ ledger[c] # "applied" /\ mode # "trusting"
         => mode = "console" /\ phase = "applying" /\ asked = c]_consoleVars

(* When the console is back at its prompt, the operator has had their say  *)
(* on every staged change the conversation had met when the turn ended,    *)
(* since the model last tried to apply it; a no is not asked about again.  *)
NothingSlipsPast ==
  phase = "prompt" /\ mode = "console" =>
    /\ approved = {}
    /\ \A c \in ToSet(seen) \ late : ledger[c] = "staged" => said[c] # "nothing"
=============================================================================
