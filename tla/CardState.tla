------------------------------ MODULE CardState ------------------------------
(***************************************************************************)
(* The computed state of a card: the column it is in                        *)
(* (src/src/issue/derive-status.ts), the column its children give a parent  *)
(* (issue/reconcile/parent.ts), the heals of reconcile steps 3g to 3b       *)
(* (issue/reconcile.ts) and the moves of the board (issue/list-move.ts).    *)
(*                                                                         *)
(* A document is what one card's YAML says.  A lifecycle timestamp is named *)
(* by the column it stands for: archived_at "Backlog", ready_at "ToDo",     *)
(* completed_at "Done", cancelled_at "Cancelled"; only whether it is set    *)
(* counts, but for the moment at which an agent's report ended the card,     *)
(* finished.  dispatch is the block of an agent, of a person who moved the  *)
(* card on the board, or none.  The column In Progress is "InProgress".     *)
(***************************************************************************)
EXTENDS Naturals

Columns == {"Backlog", "Review", "ToDo", "InProgress", "Done", "Cancelled"}
Stamps == {"Backlog", "ToDo", "Done", "Cancelled"}
Terminal == {"Done", "Cancelled"}
Dispatches == {"none", "agent", "human"}

Doc == [status: Columns, stamps: SUBSET Stamps, dispatch: Dispatches,
        blocked: BOOLEAN, owned: BOOLEAN, finished: Nat]

\* Where a column stands on the ladder of the board.
LADDER_ORDER ==
    [c \in Columns |-> CASE c = "Backlog" -> 1 [] c = "Review" -> 2
                         [] c = "ToDo" -> 3 [] c = "InProgress" -> 4
                         [] c = "Done" -> 5 [] c = "Cancelled" -> 6]

DeriveStatus(d) ==
    IF "Cancelled" \in d.stamps THEN "Cancelled"
    ELSE IF "Done" \in d.stamps THEN "Done"
    ELSE IF d.dispatch # "none" /\ d.status \notin Terminal THEN "InProgress"
    ELSE IF "ToDo" \in d.stamps THEN "ToDo"
    ELSE IF "Backlog" \in d.stamps THEN "Backlog"
    ELSE d.status

\* Reading a card puts the derived column in the place of the status on disk.
ParseIssue(d) == [d EXCEPT !.status = DeriveStatus(d)]

-----------------------------------------------------------------------------
(* The projection of reconcile. *)

\* The column of a parent whose children are in the columns S; "mixed" when
\* no rule fits.
DeriveParentStatus(S) ==
    LET rest == S \ {"Cancelled"} IN
    IF "InProgress" \in S THEN "InProgress"
    ELSE IF "ToDo" \in S THEN "ToDo"
    ELSE IF rest = {} THEN "Cancelled"
    ELSE IF rest \in {{"Review"}, {"Backlog"}, {"Done"}}
         THEN CHOOSE c \in rest : TRUE ELSE "mixed"

\* Mutant of ApplyParentDerive: every rollup stamps.
ApplyParentDeriveStamped(d, col) ==
    [d EXCEPT !.status = col,
              !.stamps = IF col \in Terminal THEN @ \cup {col}
                         ELSE (@ \ Terminal) \cup {col}]

\* A terminal rollup stamps, one off terminal takes the stamps back.
ApplyParentDerive(d, col) ==
    IF col \in Terminal THEN [d EXCEPT !.status = col, !.stamps = @ \cup {col}]
    ELSE [d EXCEPT !.status = col, !.stamps = @ \ Terminal, !.finished = 0]

\* Step 3g: an epic with children to be worked on goes back to the ladder.
EpicReset(d, epic, S) ==
    IF /\ epic /\ ~(S \subseteq Terminal)
       /\ d.stamps \cap Terminal # {} \/ d.blocked \/ d.dispatch # "none"
    THEN [d EXCEPT !.status = "ToDo", !.stamps = @ \cap {"Backlog"},
                   !.blocked = FALSE, !.dispatch = "none", !.finished = 0]
    ELSE d

\* Step 3d: the dispatch is cleared unless this host has its live process.
\* One made on the board names no host of a worker.
ReapDispatch(d, alive) ==
    IF d.dispatch = "agent" /\ alive THEN d ELSE [d EXCEPT !.dispatch = "none"]

\* Step 3e: a blocked card has no owner.
FreeBlocked(d) == IF d.blocked THEN [d EXCEPT !.owned = FALSE] ELSE d

\* Step 3a: a parent that waits for nothing takes the column of its children.
RollUp(d, waits, S) ==
    LET col == DeriveParentStatus(S) IN
    IF S # {} /\ ~waits /\ col \notin {"mixed", d.status}
    THEN ApplyParentDerive(d, col) ELSE d

\* Steps 3g, 3d, 3e and 3a of a card that was read.
Projected(d, epic, waits, S, alive) ==
    RollUp(FreeBlocked(ReapDispatch(EpicReset(ParseIssue(d), epic, S), alive)),
           waits, S)

\* Step 3b: the bucket a card belongs in.
Closes(d) == DeriveStatus(d) \in Terminal

-----------------------------------------------------------------------------
(* Writers. *)

\* A move on the board.  Rightward it stamps what it passes, leftward it
\* clears what lies beyond; In Progress is a dispatch of the operator.
ApplyListMove(d, dest) ==
    LET from == LADDER_ORDER[DeriveStatus(d)]
        to == LADDER_ORDER[dest]
        beyond == {c \in Stamps : LADDER_ORDER[c] > to}
        passed == {c \in Stamps : from < LADDER_ORDER[c] /\ LADDER_ORDER[c] <= to}
        held == IF dest = "InProgress" /\ d.dispatch = "none"
                THEN "human" ELSE d.dispatch
        moved == [d EXCEPT !.status = dest]
    IN IF to = from THEN moved
       ELSE IF to > from
       THEN [moved EXCEPT !.stamps = @ \cup passed, !.dispatch = held]
       ELSE [moved EXCEPT !.stamps = (@ \ beyond) \cup ({dest} \cap Stamps),
                          !.finished = IF dest \in Terminal THEN @ ELSE 0,
                          !.dispatch = IF to < LADDER_ORDER["InProgress"]
                                       THEN "none" ELSE held]

\* stampIssueCompleted, stampIssueCancelled: a timestamp that is there stays.
StampTerminal(d, col, now) ==
    [d EXCEPT !.status = col, !.stamps = @ \cup {col}, !.dispatch = "none",
              !.finished = IF col \in d.stamps THEN @ ELSE now]
=============================================================================
