----------------------------- MODULE PickerMutex -----------------------------
(***************************************************************************)
(* The dispatch scheduler's picker gate (src/src/dispatch/scheduler.ts):    *)
(* per repo, six event sources ask for a picker run; two debounce sets, a   *)
(* single-flight mutex and a tail flag turn the requests into runs.  The    *)
(* code is JavaScript: a step is what runs between two turns of the event   *)
(* loop, and a setImmediate callback is a pending entry of "immediates".    *)
(*                                                                          *)
(* asked, served and started are history variables.  They count what the    *)
(* code does not: the requests made, those made before the last run began,  *)
(* and the runs begun.                                                      *)
(***************************************************************************)
EXTENDS Naturals

CONSTANTS Repos,          \* repos the process serves
          MaxAsked,       \* bound: requests per repo
          MaxImmediates   \* bound: callbacks of one kind queued at once

ASSUME BoundsAssumption == MaxAsked \in Nat /\ MaxImmediates \in Nat

Kinds == {"reconcile", "roster", "kick", "tail"}

VARIABLES
    registered,          \* keys of pickersByRepo
    pendingPokes,        \* debounce of onReconcileResult
    pendingRosterPokes,  \* debounce of onAgentRosterChange
    pickerInflight,      \* the single-flight mutex
    pendingTailRun,      \* a request arrived during the run
    immediates,          \* queued setImmediate callbacks, by repo and kind
    runs,                \* picker executions that have begun and not settled
    asked, served, started

gate == <<pickerInflight, pendingTailRun, runs, served, started>>
vars == <<registered, pendingPokes, pendingRosterPokes, pickerInflight,
          pendingTailRun, immediates, runs, asked, served, started>>

Init ==
    /\ registered = {}
    /\ pendingPokes = {}
    /\ pendingRosterPokes = {}
    /\ pickerInflight = {}
    /\ pendingTailRun = {}
    /\ immediates = [r \in Repos |-> [k \in Kinds |-> 0]]
    /\ runs = [r \in Repos |-> 0]
    /\ asked = [r \in Repos |-> 0]
    /\ served = [r \in Repos |-> 0]
    /\ started = [r \in Repos |-> 0]

-----------------------------------------------------------------------------
Request(r) ==
    /\ asked[r] < MaxAsked
    /\ asked' = [asked EXCEPT ![r] = @ + 1]

Queued(im, r, k) == [im EXCEPT ![r][k] = @ + 1]
Dequeued(im, r, k) == [im EXCEPT ![r][k] = @ - 1]

\* The mutex is taken and the run begins; it sees every request made so far.
BeginRun(r) ==
    /\ pickerInflight' = pickerInflight \cup {r}
    /\ runs' = [runs EXCEPT ![r] = @ + 1]
    /\ served' = [served EXCEPT ![r] = asked'[r]]
    /\ started' = [started EXCEPT ![r] = @ + 1]
    /\ UNCHANGED pendingTailRun

\* Without a picker nothing can serve a request: it is given up at once.
GiveUpUnlessRegistered(r) ==
    served' = IF r \in registered THEN served
                                  ELSE [served EXCEPT ![r] = asked'[r]]

\* Mutant of CoalesceIntoTail: the request is dropped instead of remembered.
CoalesceDropped(r) ==
    /\ GiveUpUnlessRegistered(r)
    /\ UNCHANGED <<pickerInflight, pendingTailRun, runs, started>>

\* A run is in flight: the request coalesces into the tail flag.
CoalesceIntoTail(r) ==
    /\ pendingTailRun' = pendingTailRun \cup {r}
    /\ GiveUpUnlessRegistered(r)
    /\ UNCHANGED <<pickerInflight, runs, started>>

NoPicker(r) ==
    /\ GiveUpUnlessRegistered(r)
    /\ UNCHANGED <<pickerInflight, pendingTailRun, runs, started>>

\* Mutant of FirePicker: the mutex is not looked at.
FirePickerNoMutex(r) ==
    \/ r \in registered /\ BeginRun(r)
    \/ r \notin registered /\ NoPicker(r)

FirePicker(r) ==
    \/ r \in pickerInflight /\ CoalesceIntoTail(r)
    \/ r \notin pickerInflight /\ r \in registered /\ BeginRun(r)
    \/ r \notin pickerInflight /\ r \notin registered /\ NoPicker(r)

\* bootScheduler with a picker: at boot, and again on a hot reload.
BootScheduler(r) ==
    /\ registered' = registered \cup {r}
    /\ UNCHANGED <<pendingPokes, pendingRosterPokes, immediates, asked, gate>>

\* bootScheduler without a picker clears the registration.  What was asked
\* for until then is given up.
BootWithoutPicker(r) ==
    /\ r \in registered
    /\ registered' = registered \ {r}
    /\ served' = [served EXCEPT ![r] = asked[r]]
    /\ UNCHANGED <<pendingPokes, pendingRosterPokes, pickerInflight,
                   pendingTailRun, immediates, runs, asked, started>>

OnReconcileResult(r) ==
    /\ r \in registered
    /\ Request(r)
    /\ IF r \in pendingPokes
       THEN UNCHANGED <<pendingPokes, immediates>>
       ELSE /\ pendingPokes' = pendingPokes \cup {r}
            /\ immediates' = Queued(immediates, r, "reconcile")
    /\ UNCHANGED <<registered, pendingRosterPokes, gate>>

OnAgentRosterChange(r) ==
    /\ r \in registered
    /\ Request(r)
    /\ IF r \in pendingRosterPokes
       THEN UNCHANGED <<pendingRosterPokes, immediates>>
       ELSE /\ pendingRosterPokes' = pendingRosterPokes \cup {r}
            /\ immediates' = Queued(immediates, r, "roster")
    /\ UNCHANGED <<registered, pendingPokes, gate>>

\* kickPickerOnceAtBoot and onDispatchTerminated have one body and no
\* debounce.
Kick(r) ==
    /\ r \in registered
    /\ Request(r)
    /\ immediates[r]["kick"] < MaxImmediates
    /\ immediates' = Queued(immediates, r, "kick")
    /\ UNCHANGED <<registered, pendingPokes, pendingRosterPokes, gate>>

\* The per-minute cron sweep calls firePickerWithMutex itself.
CronSweep(r) ==
    /\ Request(r)
    /\ FirePicker(r)
    /\ UNCHANGED <<registered, pendingPokes, pendingRosterPokes, immediates>>

\* runWithPickerMutex: a caller's own function under the same mutex; it needs
\* no registered picker.
RunWithPickerMutex(r) ==
    /\ Request(r)
    /\ IF r \in pickerInflight THEN CoalesceIntoTail(r) ELSE BeginRun(r)
    /\ UNCHANGED <<registered, pendingPokes, pendingRosterPokes, immediates>>

\* Mutant of RunImmediate: the debounce entry is not cleared.
RunImmediateKeepsDebounce(r, k) ==
    /\ immediates[r][k] > 0
    /\ immediates' = Dequeued(immediates, r, k)
    /\ UNCHANGED <<registered, asked, pendingPokes, pendingRosterPokes>>
    /\ FirePicker(r)

\* A setImmediate callback runs: it clears its debounce entry, then fires.
RunImmediate(r, k) ==
    /\ immediates[r][k] > 0
    /\ immediates' = Dequeued(immediates, r, k)
    /\ pendingPokes' = IF k = "reconcile" THEN pendingPokes \ {r}
                                          ELSE pendingPokes
    /\ pendingRosterPokes' = IF k = "roster" THEN pendingRosterPokes \ {r}
                                             ELSE pendingRosterPokes
    /\ UNCHANGED <<registered, asked>>
    /\ FirePicker(r)

\* The picker resolved or threw: the finally block frees the mutex and turns
\* the tail flag into one callback.
SettleRun(r) ==
    /\ runs[r] > 0
    /\ runs' = [runs EXCEPT ![r] = @ - 1]
    /\ pickerInflight' = pickerInflight \ {r}
    /\ pendingTailRun' = pendingTailRun \ {r}
    /\ immediates' = IF r \in pendingTailRun
                     THEN Queued(immediates, r, "tail")
                     ELSE immediates
    /\ UNCHANGED <<registered, pendingPokes, pendingRosterPokes, asked,
                   served, started>>

EventLoopStep(r) == SettleRun(r) \/ \E k \in Kinds : RunImmediate(r, k)

Next == \E r \in Repos :
    \/ BootScheduler(r) \/ BootWithoutPicker(r)
    \/ OnReconcileResult(r) \/ OnAgentRosterChange(r) \/ Kick(r)
    \/ CronSweep(r) \/ RunWithPickerMutex(r)
    \/ EventLoopStep(r)

Spec == Init /\ [][Next]_vars

\* The event loop runs every queued callback, and every picker promise
\* settles.
Fairness == \A r \in Repos :
    /\ WF_vars(SettleRun(r))
    /\ \A k \in Kinds : WF_vars(RunImmediate(r, k))

FairSpec == Spec /\ Fairness

-----------------------------------------------------------------------------
TypeOK ==
    /\ registered \subseteq Repos
    /\ pendingPokes \subseteq Repos
    /\ pendingRosterPokes \subseteq Repos
    /\ pickerInflight \subseteq Repos
    /\ pendingTailRun \subseteq Repos
    /\ immediates \in [Repos -> [Kinds -> Nat]]
    /\ runs \in [Repos -> Nat]
    /\ asked \in [Repos -> Nat]
    /\ served \in [Repos -> Nat]
    /\ started \in [Repos -> Nat]

\* Two picker executions of one repo never overlap, whatever mix of sources
\* fired them: overlapping runs would read the same busy and assigned
\* snapshot and dispatch one agent twice.
SingleFlight == \A r \in Repos : runs[r] <= 1

\* A request is never lost: while a registered repo has a request no run has
\* started after, a callback is queued for it or the run in flight carries the
\* tail flag, so the debounce sets and the mutex only ever delay it.
HasPending(r) == \E k \in Kinds : immediates[r][k] > 0
NoPokeLost == \A r \in registered :
    served[r] < asked[r] => HasPending(r) \/ r \in pendingTailRun

\* Coalescing never multiplies: there are no more runs than requests, tail
\* runs included, so a burst cannot keep the picker running by itself.
NoAmplification == \A r \in Repos : started[r] <= asked[r]

\* Every request made while a picker is registered is followed by a run that
\* starts after it, unless the picker is unregistered first.
EveryPokeServed == \A r \in Repos : \A n \in 1..MaxAsked :
    (r \in registered /\ asked[r] >= n) ~> (served[r] >= n)

-----------------------------------------------------------------------------
Demand == INSTANCE PickerDemand WITH
    open <- registered,
    running <- {r \in Repos : runs[r] > 0},
    owed <- {r \in registered : served[r] < asked[r]}

\* The gate implements the promise of PickerDemand.
ImplementsDemand == Demand!Spec
=============================================================================
