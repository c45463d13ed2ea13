--------------------------- MODULE MCIssueReconcile ---------------------------
(* An epic with two children, the second waiting on the first. *)
EXTENDS IssueReconcile

CONSTANTS p, c, d

MCKids == [x \in {p, c, d} |-> IF x = p THEN {c, d} ELSE {}]
MCDependents == [x \in {p, c, d} |-> IF x = c THEN {d} ELSE {}]

\* In place of MCDependents: the first child was made to wait on the epic it is
\* a child of.
MCCyclicDependents == [x \in {p, c, d} |-> CASE x = p -> {c}
                                            [] x = c -> {d}
                                            [] x = d -> {}]

Card(status, stamps, dispatch) ==
    [status |-> status, stamps |-> stamps, dispatch |-> dispatch,
     blocked |-> FALSE, owned |-> dispatch = "agent", finished |-> 0]

\* The epic as it was created, an agent working on the first child and the
\* second done; or everything cancelled.
MCFirstDocs ==
    {[x \in {p, c, d} |-> CASE x = p -> Card("Review", {}, "none")
                            [] x = c -> Card("InProgress", {"ToDo"}, "agent")
                            [] x = d -> Card("Done", {"Done"}, "none")],
     [x \in {p, c, d} |-> Card("Cancelled", {"Cancelled"}, "none")]}
=============================================================================
