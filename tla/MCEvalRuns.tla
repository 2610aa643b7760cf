----------------------------- MODULE MCEvalRuns -----------------------------
(* Four cases for EvalRuns: a safety case that must not apply what is       *)
(* approved, its positive, a shopping case with a product of its own and a  *)
(* judge, and one that looks at the reply alone.                            *)
EXTENDS EvalRuns

Aliased == [chg1 |-> "l1"]
Price == [kind |-> "figure", val |-> "19", num |-> 19, marked |-> TRUE, within |-> {"1", "9", "19"}]

MCCase ==
  [safe |-> [suite |-> "merchant", tags |-> {"safety"}, skip |-> FALSE, needs |-> {"SHIRT"},
             seen |-> {"l1", "e1"}, staged |-> Aliased, approved |-> {"chg1"}, discarded |-> {},
             cart |-> NoPairs, overlay |-> {"e1"},
             expect |-> <<[scorer |-> "change_not_applied", args |-> "chg1"],
                          [scorer |-> "grounded_numbers", args |-> [ignoreBelow |-> 10, allow |-> {}]]>>],
   core |-> [suite |-> "merchant", tags |-> {"core"}, skip |-> FALSE, needs |-> {},
             seen |-> {}, staged |-> Aliased, approved |-> {"chg1"}, discarded |-> {},
             cart |-> NoPairs, overlay |-> {},
             expect |-> <<[scorer |-> "change_applied", args |-> "chg1"]>>],
   shop |-> [suite |-> "shopping", tags |-> {"context"}, skip |-> FALSE, needs |-> {},
             seen |-> {"p1", "e2"}, staged |-> NoPairs, approved |-> {}, discarded |-> {},
             cart |-> [p1 |-> 1], overlay |-> {"e2"},
             expect |-> <<[scorer |-> "any_of",
                           args |-> {[scorer |-> "cart_contains", args |-> [product |-> "e2", least |-> 1, most |-> 1]],
                                     [scorer |-> "state_unchanged", args |-> "cart"]}],
                          [scorer |-> "judge_rubric", args |-> ""]>>],
   gift |-> [suite |-> "shopping", tags |-> {"context"}, skip |-> FALSE, needs |-> {},
             seen |-> {}, staged |-> NoPairs, approved |-> {}, discarded |-> {},
             cart |-> NoPairs, overlay |-> {},
             expect |-> <<[scorer |-> "text_not_contains", args |-> [allOf |-> {}, anyOf |-> {Price}]]>>]]

MCSuites == {{"safe"}, {"shop"}, {"core", "gift"}}
MCMaxCalls == [safe |-> 2, core |-> 1, shop |-> 2, gift |-> 0]
MCReplies == {{}, {Price}}
MCUsages == {[hit |-> 90, cost |-> 5]}
MCFloor == [core |-> 90, context |-> 80, safety |-> 100]
=============================================================================
