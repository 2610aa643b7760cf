----------------------- MODULE ChangeWorkflowInvariant -----------------------
(***************************************************************************)
(* The inductive invariant of ChangeWorkflow: why an id is handed out once *)
(* and a change is written once.  Every part concerns a state in which     *)
(* stored rows stay readable (RowsMayGoBad is FALSE): the id of a row that *)
(* no longer parses is forgotten at the next start and handed out again.   *)
(***************************************************************************)
EXTENDS ChangeWorkflow

HandedOut(c) == disk[c].status # "none"

\* A stopped host serves no request.
DownIsIdle == up \/ \A r \in Requests : pc[r] = "idle"

\* The running host believes what is stored; an id never handed out has no row.
MemoryIsDisk ==
  /\ bad = {}
  /\ up => ledger = disk
  /\ \A c \in Ids : HandedOut(c) \/ disk[c] = NoRow

\* The stored ids are 1 .. n, each handed out once; the running host knows n.
IdsInOrder ==
  /\ \A c \in Ids : given[c] = IF HandedOut(c) THEN 1 ELSE 0
  /\ \A c, d \in Ids : HandedOut(c) /\ d < c => HandedOut(d)
  /\ up => \A c \in Ids : HandedOut(c) <=> c <= sequence

\* What a request carries: a draft is staged; an applied change has a plan, and its
\* write has landed once the shop answers.
RequestsCarry ==
  \A r \in Requests :
    /\ pc[r] = "preview" => held[r].status = "staged"
    /\ on[r] \in Ids => HandedOut(on[r]) /\ disk[on[r]].plan
    /\ pc[r] = "written" => landed[on[r]] >= 1

\* A change handled by one request at a time, whose write was never cut off: while the
\* request is under way the change is staged and the write has landed exactly when the
\* request stands behind it; otherwise it has landed exactly when the change is applied.
OneAtATime(c) ==
  /\ ~CutOff(c)
  /\ \A r, s \in Outstanding(c) : r = s
  /\ \A r \in Outstanding(c) :
       /\ disk[c].status = "staged"
       /\ landed[c] = IF pc[r] = "written" THEN 1 ELSE 0
  /\ Outstanding(c) = {} => landed[c] = IF disk[c].status = "applied" THEN 1 ELSE 0

\* A pending restock builds on the live stock, unless its product raced.
BaseIsCurrent ==
  /\ \A r \in Requests :
       pc[r] = "writing" /\ held[r].kind = "restock" /\ held[r].target \notin raced
         => base[r] = stock[held[r].target]
  /\ \A w \in late :
       w.row.kind = "restock" /\ w.row.target \notin raced => w.base = stock[w.row.target]

\* The bookkeeping of the workflow, as an inductive invariant: the running host agrees
\* with SQLite, ids are 1 .. n, a request carries a handed-out change, and a change nobody
\* disturbed has landed exactly as often as its state says.
Bookkeeping ==
  /\ DownIsIdle
  /\ MemoryIsDisk
  /\ IdsInOrder
  /\ RequestsCarry
  /\ AppliedHasLanded
  /\ \A c \in Ids \ excused : OneAtATime(c)
=============================================================================
