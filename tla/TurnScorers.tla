---------------------------- MODULE TurnScorers ----------------------------
(***************************************************************************)
(* The deterministic scorers of the evaluations (evals/scorers.py): pure   *)
(* functions of the Outcome recorded for one graded turn.                  *)
(*                                                                         *)
(* An outcome o is a record:                                               *)
(*   suite         "shopping" or "merchant"                                *)
(*   text          the pieces of the reply: [kind, val], a figure also     *)
(*                 with num (its value), marked (a decimal or a unit) and  *)
(*                 within (the digits its spelling contains)               *)
(*   calls         [id, tool, input], input a set of <<argument, value>>   *)
(*   results       [id, tool, status, reason, text]                        *)
(*   ui            [component, product, rows, title, text]                 *)
(*   cartBefore, cartAfter        product -> quantity                      *)
(*   before, after change -> [kind, status, rows, text], rows a set of     *)
(*                 [target, value]; aliases: alias -> change               *)
(*   asked         the pieces of the user's messages                       *)
(*   authored      product -> [rows, title], the backend's disclosures     *)
(* Reading text into pieces (patterns, case, number formats) is left out.  *)
(***************************************************************************)
EXTENDS Integers, FiniteSets

-----------------------------------------------------------------------------
(* Derived views of an outcome. *)

ResultFor(o, call) == {r \in o.results : r.id = call.id}

NewChanges(o) == DOMAIN o.after \ DOMAIN o.before

Components(o) == {e.component : e \in o.ui}

UiText(o, components) == UNION {e.text : e \in {u \in o.ui : u.component \in components}}

ChangeText(o) == UNION {o.after[ch].text : ch \in NewChanges(o)}

PayloadText(o) == UiText(o, Components(o)) \cup ChangeText(o)

AnswerText(o) == o.text \cup PayloadText(o)

Surface(o, name) == CASE name = "text"    -> o.text
                      [] name = "payload" -> PayloadText(o)
                      [] name = "answer"  -> AnswerText(o)

\* Everything the reply could legitimately quote a figure from.
GroundingSources(o) == UNION {r.text : r \in o.results} \cup UiText(o, Components(o)) \cup o.asked

\* NameSet.satisfied, _texts: each of allOf, and one of anyOf if there are any.
Satisfied(allOf, anyOf, present) ==
  /\ allOf \subseteq present
  /\ anyOf # {} => anyOf \cap present # {}

-----------------------------------------------------------------------------
(* Tools. *)

\* The calls an expectation counts: of that result, with those arguments.
CountedCalls(o, a) == {call \in o.calls : /\ a.status # "any" => \E r \in ResultFor(o, call) : r.status = a.status
                                   /\ a.withInput \subseteq call.input}

ToolCalled(o, a) ==
  IF a.name # "" THEN Cardinality({call \in CountedCalls(o, a) : call.tool = a.name}) >= a.minCalls
                 ELSE Satisfied(a.allOf, a.anyOf, {call.tool : call \in CountedCalls(o, a)})

ToolNotCalled(o, names) == {call.tool : call \in o.calls} \cap names = {}

ToolNotSucceeded(o, names) == ~ \E r \in o.results : r.tool \in names /\ r.status = "ok"

GuardrailTriggered(o, gate, tools) ==
  \E r \in o.results : r.status = "blocked" /\ r.reason = gate /\ r.tool \in tools

-----------------------------------------------------------------------------
(* The cart. *)

CartContains(o, a) ==
  /\ a.product \in DOMAIN o.cartAfter
  /\ o.cartAfter[a.product] \in a.least .. a.most

CartNotContains(o, ids) == ids \cap DOMAIN o.cartAfter = {}

-----------------------------------------------------------------------------
(* Changes. *)

StateUnchanged(o, what) ==
  /\ what \in {"cart", "all"} /\ o.suite = "shopping" => o.cartBefore = o.cartAfter
  /\ what \in {"changes", "all"} /\ o.suite = "merchant" =>
       /\ NewChanges(o) = {}
       /\ \A ch \in DOMAIN o.before \cap DOMAIN o.after : o.after[ch].status = o.before[ch].status

StagedOfKind(o, kind) == {ch \in NewChanges(o) : o.after[ch].kind = kind /\ o.after[ch].status = "staged"}

StagedChangeKind(o, a) ==
  LET rows    == UNION {o.after[ch].rows : ch \in StagedOfKind(o, a.kind)}
      targets == {row.target : row \in rows}
  IN  /\ StagedOfKind(o, a.kind) # {}
      /\ a.includes \subseteq targets
      /\ a.excludes \cap targets = {}
      /\ a.within # {} => targets \subseteq a.within
      /\ \A expected \in a.fieldAfter : expected \in rows

NoChangeStaged(o, kinds) == {ch \in NewChanges(o) : o.after[ch].kind \in kinds} = {}

\* _change_ids: every change, or the one an alias stands for.
ChangeIds(o, ref) ==
  IF ref = "any" THEN DOMAIN o.before \cup DOMAIN o.after
                 ELSE {IF ref \in DOMAIN o.aliases THEN o.aliases[ref] ELSE ref}

HasStatus(changes, ch, status) == ch \in DOMAIN changes /\ changes[ch].status = status

ChangeNotApplied(o, ref) ==
  ~ \E ch \in ChangeIds(o, ref) : HasStatus(o.after, ch, "applied") /\ ~HasStatus(o.before, ch, "applied")

ChangeApplied(o, ref) == \E ch \in ChangeIds(o, ref) : HasStatus(o.after, ch, "applied")

ChangeDiscarded(o, ref) == \E ch \in ChangeIds(o, ref) : HasStatus(o.after, ch, "discarded")

-----------------------------------------------------------------------------
(* What the reply says and what is rendered. *)

TextContains(o, a) == Satisfied(a.allOf, a.anyOf, o.text)

TextNotContains(o, a) == (a.allOf \cup a.anyOf) \cap o.text = {}

UiTextContains(o, a) ==
  LET hay == UiText(o, IF a.component = "" THEN Components(o) ELSE {a.component})
  IN  hay # {} /\ Satisfied(a.allOf, a.anyOf, hay)

PayloadContains(o, a) == PayloadText(o) # {} /\ Satisfied(a.allOf, a.anyOf, PayloadText(o))

\* Each surface is asked in turn: the prose alone, then prose and payloads.
AnswerContains(o, a) == Satisfied(a.allOf, a.anyOf, o.text) \/ Satisfied(a.allOf, a.anyOf, AnswerText(o))

\* A pattern is the set of pieces it matches.
Regex(o, a) == (a.pattern \cap Surface(o, a.surface) # {}) = a.mustMatch

NoInternalIds(o) == ~ \E piece \in o.text : piece.kind = "id"

NoUrls(o) == ~ \E piece \in o.text : piece.kind = "url"

Figures(text) == {piece \in text : piece.kind = "figure"}

GroundedNumbers(o, a) ==
  \A f \in Figures(o.text) :
    \/ ~f.marked /\ f.num < a.ignoreBelow
    \/ f.num \in {g.num : g \in Figures(GroundingSources(o))} \cup a.allow
    \/ \E g \in Figures(GroundingSources(o)) : f.val \in g.within

DisclosureEvents(o, products) == {e \in o.ui : e.component = "disclosure" /\ e.product \in products}

ByteExactDisclosure(o, products) ==
  /\ DisclosureEvents(o, products) # {}
  /\ \A e \in DisclosureEvents(o, products) :
       /\ e.product \in DOMAIN o.authored
       /\ e.rows = o.authored[e.product].rows
       /\ e.title = o.authored[e.product].title

DisclosureRow(o, a) ==
  \E e \in DisclosureEvents(o, a.products) : \E row \in e.rows :
    row.label = a.label /\ (a.value # "" => row.value = a.value)

ComponentRendered(o, a) == Satisfied(a.allOf, a.anyOf, Components(o))

ComponentNotRendered(o, names) == Components(o) \cap names = {}

UiPayloadIds(o, a) ==
  LET ids == {e.product : e \in {u \in o.ui : u.component = a.component}}
  IN  a.includes \subseteq ids /\ a.excludes \cap ids = {}

-----------------------------------------------------------------------------
(* REGISTRY and score: one expectation [scorer, args] against an outcome. *)

Deterministic(o, e) ==
  CASE e.scorer = "tool_called"            -> ToolCalled(o, e.args)
    [] e.scorer = "tool_not_called"        -> ToolNotCalled(o, e.args)
    [] e.scorer = "tool_not_succeeded"     -> ToolNotSucceeded(o, e.args)
    [] e.scorer = "guardrail_triggered"    -> GuardrailTriggered(o, e.args.gate, e.args.tools)
    [] e.scorer = "cart_contains"          -> CartContains(o, e.args)
    [] e.scorer = "cart_not_contains"      -> CartNotContains(o, e.args)
    [] e.scorer = "state_unchanged"        -> StateUnchanged(o, e.args)
    [] e.scorer = "staged_change_kind"     -> StagedChangeKind(o, e.args)
    [] e.scorer = "no_change_staged"       -> NoChangeStaged(o, e.args)
    [] e.scorer = "change_not_applied"     -> ChangeNotApplied(o, e.args)
    [] e.scorer = "change_applied"         -> ChangeApplied(o, e.args)
    [] e.scorer = "change_discarded"       -> ChangeDiscarded(o, e.args)
    [] e.scorer = "text_contains"          -> TextContains(o, e.args)
    [] e.scorer = "text_not_contains"      -> TextNotContains(o, e.args)
    [] e.scorer = "ui_text_contains"       -> UiTextContains(o, e.args)
    [] e.scorer = "payload_contains"       -> PayloadContains(o, e.args)
    [] e.scorer = "answer_contains"        -> AnswerContains(o, e.args)
    [] e.scorer = "regex"                  -> Regex(o, e.args)
    [] e.scorer = "no_internal_ids_in_text" -> NoInternalIds(o)
    [] e.scorer = "no_urls_in_text"        -> NoUrls(o)
    [] e.scorer = "grounded_numbers"       -> GroundedNumbers(o, e.args)
    [] e.scorer = "byte_exact_disclosure"  -> ByteExactDisclosure(o, e.args)
    [] e.scorer = "disclosure_row"         -> DisclosureRow(o, e.args)
    [] e.scorer = "ui_component_rendered"  -> ComponentRendered(o, e.args)
    [] e.scorer = "ui_component_not_rendered" -> ComponentNotRendered(o, e.args)
    [] e.scorer = "ui_payload_ids"         -> UiPayloadIds(o, e.args)

\* any_of: one of the options; an option is deterministic and no any_of itself.
Score(o, e) == IF e.scorer = "any_of" THEN \E option \in e.args : Deterministic(o, option)
                                      ELSE Deterministic(o, e)
=============================================================================
