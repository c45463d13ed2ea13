---------------------------- MODULE PickerDemand ----------------------------
(***************************************************************************)
(* What the dispatch scheduler promises about the picker of a repo,         *)
(* whichever of its six sources asked for a run: two runs of one repo never *)
(* overlap, and what is asked while a picker is registered stays owed until *)
(* a run starts or the picker is unregistered.  PickerMutex implements it.  *)
(***************************************************************************)
CONSTANT Repos

VARIABLES open,     \* repos with a registered picker
          running,  \* repos whose picker is executing
          owed      \* repos owed a run that starts after their last request

vars == <<open, running, owed>>

Init == open = {} /\ running = {} /\ owed = {}

Register(r) == open' = open \cup {r} /\ UNCHANGED <<running, owed>>

\* Nothing is owed to a repo without a picker.
Unregister(r) ==
    /\ r \in open
    /\ open' = open \ {r}
    /\ owed' = owed \ {r}
    /\ UNCHANGED running

Ask(r) == r \in open /\ owed' = owed \cup {r} /\ UNCHANGED <<open, running>>

Start(r) ==
    /\ r \notin running
    /\ running' = running \cup {r}
    /\ owed' = owed \ {r}
    /\ UNCHANGED open

End(r) == r \in running /\ running' = running \ {r} /\ UNCHANGED <<open, owed>>

Next == \E r \in Repos :
    Register(r) \/ Unregister(r) \/ Ask(r) \/ Start(r) \/ End(r)

Spec == Init /\ [][Next]_vars
=============================================================================
