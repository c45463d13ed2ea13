----------------------------- MODULE Assignment -----------------------------
(***************************************************************************)
(* What the picker promises about the work it gives out, whatever it has    *)
(* read and whoever writes the cards meanwhile: an agent is given work when *)
(* it has none, nobody else is at work on a guarded card when one begins,   *)
(* and what has ended stays ended.  MultiAgentPick implements it.           *)
(***************************************************************************)
CONSTANTS Agents, Cards, Ids,
          Guarded   \* cards that have one agent at a time

VARIABLES held,     \* dispatches that keep their agent from another one
          working   \* those whose agent is at work

vars == <<held, working>>

Init == held = {} /\ working = {}

Begin(w) ==
    /\ \A v \in held : v.agent # w.agent
    /\ w.card \in Guarded => \A v \in working : v.card # w.card
    /\ held' = held \cup {w}
    /\ working' = working \cup {w}

Stop(w) == w \in working /\ working' = working \ {w} /\ UNCHANGED held

\* The agent is free again, when it has stopped.
Free(w) == w \in held \ working /\ held' = held \ {w} /\ UNCHANGED working

Next == \E w \in [id : Ids, agent : Agents, card : Cards] :
    Begin(w) \/ Stop(w) \/ Free(w)

Spec == Init /\ [][Next]_vars
=============================================================================
