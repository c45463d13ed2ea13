-------------------------- MODULE MCMultiAgentPick --------------------------
(* Cards that are in each other's way, card numbers for TLC, what a card may *)
(* start from, and the symmetry of dispatch ids, which are compared only.    *)
EXTENDS MultiAgentPick, TLC

MCConflictOn == [c \in Cards |-> IF c = 1 THEN {2} \cap Cards ELSE {}]

\* A card made ready on the dashboard, one an earlier worker left with agent 1,
\* and one that names an agent deleted since.
Ready == [Fresh EXCEPT !.column = "ready"]
EarlierWork == [Ready EXCEPT !.owner = 1]
Orphan == [Ready EXCEPT !.owner = Gone]
MCFirstIssues == {Ready, EarlierWork, Orphan}

\* Cards as the tracker has them: with a status, and no ready_at.
MCFromTracker == {Fresh, [Fresh EXCEPT !.column = "In Progress"], Orphan}

MCSymmetry == Permutations(Ids)
=============================================================================
