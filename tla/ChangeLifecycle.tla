-------------------------- MODULE ChangeLifecycle --------------------------
(***************************************************************************)
(* What the merchant ledger promises: the abstract specification of the    *)
(* staged-change workflow.  A change id is handed out once, in order, and  *)
(* starts "staged"; the operator decides it once; a decision is final.     *)
(* There is no process, no crash and no shop here: ChangeWorkflow, where   *)
(* the host handles several requests at once and may crash between two     *)
(* database commits, is shown to implement this specification with the     *)
(* durable rows as its status.                                             *)
(***************************************************************************)
EXTENDS Naturals

CONSTANT MaxChanges     \* bound: the ids chg-0001 .. chg-MaxChanges

VARIABLE status         \* status[c]: where change c is in its life

Ids == 1 .. MaxChanges

Status == {"none", "staged", "applied", "discarded"}

Decisions == {"applied", "discarded"}

Init == status = [c \in Ids |-> "none"]

\* The next unused id is handed out.
Stage(c) ==
  /\ status[c] = "none"
  /\ \A d \in Ids : d < c => status[d] # "none"
  /\ status' = [status EXCEPT ![c] = "staged"]

\* A staged change is applied or discarded.
Decide(c, decision) ==
  /\ status[c] = "staged"
  /\ status' = [status EXCEPT ![c] = decision]

Next == \E c \in Ids : Stage(c) \/ \E decision \in Decisions : Decide(c, decision)

Spec == Init /\ [][Next]_status
=============================================================================
