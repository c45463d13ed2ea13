-------------------------- MODULE PickerMutexProofs --------------------------
(***************************************************************************)
(* Proofs about PickerMutex, for any set of repos and any bounds.           *)
(***************************************************************************)
EXTENDS PickerMutex, TLAPS

\* The mutex flag is up exactly while one run executes.
MutexMeansRun == \A r \in Repos :
    runs[r] = IF r \in pickerInflight THEN 1 ELSE 0

\* The tail flag only exists during a run.
TailDuringRun == pendingTailRun \subseteq pickerInflight

\* A debounce entry stands for a callback that is still queued, so the
\* requests it swallows are covered.
DebounceHasCallback ==
    /\ \A r \in pendingPokes : immediates[r]["reconcile"] > 0
    /\ \A r \in pendingRosterPokes : immediates[r]["roster"] > 0

\* served never overtakes asked, and meets it where no picker is registered.
ServedBounded == \A r \in Repos :
    /\ served[r] <= asked[r]
    /\ r \notin registered => served[r] = asked[r]

\* Each run begun, callback queued and tail flag is paid for by a request of
\* its own.
Callbacks(r) == immediates[r]["reconcile"] + immediates[r]["roster"]
              + immediates[r]["kick"] + immediates[r]["tail"]
Budget == \A r \in Repos :
    started[r] + Callbacks(r) + (IF r \in pendingTailRun THEN 1 ELSE 0)
        <= asked[r]

IInv == /\ TypeOK /\ MutexMeansRun /\ TailDuringRun /\ DebounceHasCallback
        /\ ServedBounded /\ NoPokeLost /\ Budget

-----------------------------------------------------------------------------
LEMMA InitIInv == Init => IInv
BY DEF Init, IInv, TypeOK, MutexMeansRun, TailDuringRun, DebounceHasCallback,
       ServedBounded, NoPokeLost, Budget, Callbacks, Kinds

\* Taking a callback off the queue touches one counter.
LEMMA DequeuedCounter ==
    ASSUME NEW im \in [Repos -> [Kinds -> Nat]], NEW r \in Repos,
           NEW k \in Kinds, im[r][k] > 0
    PROVE  /\ Dequeued(im, r, k) \in [Repos -> [Kinds -> Nat]]
           /\ Dequeued(im, r, k)[r][k] = im[r][k] - 1
           /\ \A s \in Repos, l \in Kinds :
                 (s # r \/ l # k) => Dequeued(im, r, k)[s][l] = im[s][l]
BY DEF Dequeued

\* Firing the picker after the counters of r changed in one of the ways the
\* callers change them.
LEMMA FirePreserves ==
    ASSUME NEW r \in Repos, IInv, FirePicker(r),
           registered' = registered,
           immediates' \in [Repos -> [Kinds -> Nat]],
           asked' \in [Repos -> Nat],
           pendingPokes' \subseteq pendingPokes,
           pendingRosterPokes' \subseteq pendingRosterPokes,
           \A s \in Repos : s # r => asked'[s] = asked[s],
           asked'[r] >= asked[r],
           \A s \in Repos, k \in Kinds : s # r =>
                 immediates'[s][k] = immediates[s][k],
           asked'[r] >= started[r] + 1 + Callbacks(r)'
                        + (IF r \in pendingTailRun THEN 1 ELSE 0),
           r \in pendingPokes' => immediates'[r]["reconcile"] > 0,
           r \in pendingRosterPokes' => immediates'[r]["roster"] > 0,
           r \notin registered \/ asked' = asked \/ asked'[r] = asked[r] + 1
    PROVE  IInv'
<1>. USE DEF Kinds
<1>1. TypeOK'
  BY DEF IInv, TypeOK, FirePicker, BeginRun, CoalesceIntoTail, NoPicker,
         GiveUpUnlessRegistered
<1>2. MutexMeansRun'
  BY DEF IInv, TypeOK, MutexMeansRun, FirePicker, BeginRun, CoalesceIntoTail,
         NoPicker
<1>3. TailDuringRun'
  BY DEF IInv, TypeOK, TailDuringRun, FirePicker, BeginRun, CoalesceIntoTail,
         NoPicker
<1>4. DebounceHasCallback'
  BY DEF IInv, TypeOK, DebounceHasCallback
<1>5. ServedBounded'
  BY DEF IInv, TypeOK, ServedBounded, FirePicker, BeginRun, CoalesceIntoTail,
         NoPicker, GiveUpUnlessRegistered
<1>6. NoPokeLost'
  <2>. SUFFICES ASSUME NEW s \in registered, served'[s] < asked'[s]
                PROVE  HasPending(s)' \/ s \in pendingTailRun'
    BY DEF NoPokeLost
  <2>0. s \in Repos
    BY DEF IInv, TypeOK
  <2>1. CASE s = r
    BY <2>0, <2>1 DEF IInv, TypeOK, FirePicker, BeginRun, CoalesceIntoTail,
                      NoPicker
  <2>2. CASE s # r
    <3>1. served[s] < asked[s]
      BY <2>0, <2>2 DEF IInv, TypeOK, FirePicker, BeginRun, CoalesceIntoTail,
                   NoPicker, GiveUpUnlessRegistered
    <3>2. HasPending(s) \/ s \in pendingTailRun
      BY <3>1 DEF IInv, NoPokeLost
    <3>3. HasPending(s) => HasPending(s)'
      BY <2>0, <2>2 DEF HasPending
    <3>4. s \in pendingTailRun => s \in pendingTailRun'
      BY DEF FirePicker, BeginRun, CoalesceIntoTail, NoPicker
    <3>. QED BY <3>2, <3>3, <3>4
  <2>. QED BY <2>1, <2>2
<1>7. Budget'
  <2>. SUFFICES ASSUME NEW s \in Repos
                PROVE started'[s] + Callbacks(s)'
                      + (IF s \in pendingTailRun' THEN 1 ELSE 0) <= asked'[s]
    BY DEF Budget
  <2>1. CASE s = r
    BY <2>1 DEF IInv, TypeOK, TailDuringRun, Callbacks, FirePicker, BeginRun,
                CoalesceIntoTail, NoPicker
  <2>2. CASE s # r
    <3>1. /\ Callbacks(s)' = Callbacks(s)
          /\ started'[s] = started[s]
          /\ (s \in pendingTailRun') = (s \in pendingTailRun)
      BY <2>2 DEF IInv, TypeOK, Callbacks, FirePicker, BeginRun,
                  CoalesceIntoTail, NoPicker
    <3>. QED BY <2>2, <3>1 DEF IInv, Budget
  <2>. QED BY <2>1, <2>2
<1>. QED BY <1>1, <1>2, <1>3, <1>4, <1>5, <1>6, <1>7 DEF IInv

\* An action that leaves the gate alone, makes at most one request on r and
\* queues one callback or relies on one that is queued.
LEMMA RequestPreserves ==
    ASSUME NEW r \in Repos, NEW k \in Kinds, IInv, r \in registered,
           registered' = registered, UNCHANGED gate, Request(r),
           \/ immediates' = Queued(immediates, r, k)
           \/ immediates' = immediates /\ immediates[r][k] > 0,
           pendingPokes' \subseteq pendingPokes \cup {r},
           pendingRosterPokes' \subseteq pendingRosterPokes \cup {r},
           r \in pendingPokes' => immediates'[r]["reconcile"] > 0,
           r \in pendingRosterPokes' => immediates'[r]["roster"] > 0
    PROVE  IInv'
<1>0. /\ immediates' \in [Repos -> [Kinds -> Nat]]
      /\ immediates'[r][k] > 0
      /\ \A s \in Repos, l \in Kinds : immediates'[s][l] >= immediates[s][l]
      /\ \A s \in Repos, l \in Kinds :
            (s # r \/ l # k) => immediates'[s][l] = immediates[s][l]
      /\ immediates'[r][k] <= immediates[r][k] + 1
  <2>1. immediates \in [Repos -> [Kinds -> Nat]]
    BY DEF IInv, TypeOK
  <2>2. CASE immediates' = Queued(immediates, r, k)
    BY <2>1, <2>2 DEF Queued
  <2>3. CASE immediates' = immediates /\ immediates[r][k] > 0
    BY <2>1, <2>3
  <2>. QED BY <2>2, <2>3
<1>1. TypeOK'
  <2>1. asked' \in [Repos -> Nat]
    BY DEF IInv, TypeOK, Request
  <2>2. pendingPokes' \subseteq Repos /\ pendingRosterPokes' \subseteq Repos
    BY DEF IInv, TypeOK
  <2>. QED BY <1>0, <2>1, <2>2 DEF IInv, TypeOK, gate
<1>2. MutexMeansRun' /\ TailDuringRun'
  BY DEF IInv, MutexMeansRun, TailDuringRun, gate
<1>3. DebounceHasCallback'
  BY <1>0 DEF IInv, TypeOK, DebounceHasCallback, Kinds
<1>4. ServedBounded'
  BY DEF IInv, TypeOK, ServedBounded, Request, gate
<1>5. NoPokeLost'
  BY <1>0 DEF IInv, TypeOK, NoPokeLost, HasPending, Request, gate
<1>6. Budget'
  <2>. SUFFICES ASSUME NEW s \in Repos
                PROVE started'[s] + Callbacks(s)'
                      + (IF s \in pendingTailRun' THEN 1 ELSE 0) <= asked'[s]
    BY DEF Budget
  <2>1. CASE s = r
    <3>1. Callbacks(r)' <= Callbacks(r) + 1
      BY <1>0 DEF Callbacks, Kinds, IInv, TypeOK
    <3>2. /\ Callbacks(r) \in Nat /\ Callbacks(r)' \in Nat
          /\ started[r] + Callbacks(r)
                + (IF r \in pendingTailRun THEN 1 ELSE 0) <= asked[r]
      BY <1>0 DEF IInv, Budget, TypeOK, Callbacks, Kinds
    <3>. QED BY <2>1, <3>1, <3>2 DEF IInv, TypeOK, Request, gate
  <2>2. CASE s # r
    <3>1. Callbacks(s)' = Callbacks(s)
      BY <1>0, <2>2 DEF Callbacks, Kinds
    <3>. QED BY <2>2, <3>1 DEF IInv, TypeOK, Budget, Request, gate
  <2>. QED BY <2>1, <2>2
<1>. QED BY <1>1, <1>2, <1>3, <1>4, <1>5, <1>6 DEF IInv

-----------------------------------------------------------------------------
LEMMA BootPreserves ==
    ASSUME NEW r \in Repos, IInv, BootScheduler(r) \/ BootWithoutPicker(r)
    PROVE  IInv'
<1>1. CASE BootScheduler(r)
  BY <1>1 DEF BootScheduler, IInv, TypeOK, MutexMeansRun, TailDuringRun,
     DebounceHasCallback, ServedBounded, NoPokeLost, HasPending, Budget,
     Callbacks, gate
<1>2. CASE BootWithoutPicker(r)
  BY <1>2 DEF BootWithoutPicker, IInv, TypeOK, MutexMeansRun, TailDuringRun,
     DebounceHasCallback, ServedBounded, NoPokeLost, HasPending, Budget,
     Callbacks, gate
<1>. QED BY <1>1, <1>2

LEMMA OnReconcileResultPreserves ==
    ASSUME NEW r \in Repos, IInv, OnReconcileResult(r)
    PROVE  IInv'
<1>1. "reconcile" \in Kinds /\ "roster" \in Kinds
  BY DEF Kinds
<1>2. r \in pendingPokes' => immediates'[r]["reconcile"] > 0
  BY <1>1 DEF OnReconcileResult, Queued, IInv, TypeOK, DebounceHasCallback
<1>3. r \in pendingRosterPokes' => immediates'[r]["roster"] > 0
  BY <1>1 DEF OnReconcileResult, Queued, IInv, TypeOK, DebounceHasCallback
<1>. QED
  BY <1>1, <1>2, <1>3, RequestPreserves
     DEF OnReconcileResult, IInv, DebounceHasCallback

LEMMA OnAgentRosterChangePreserves ==
    ASSUME NEW r \in Repos, IInv, OnAgentRosterChange(r)
    PROVE  IInv'
<1>1. "reconcile" \in Kinds /\ "roster" \in Kinds
  BY DEF Kinds
<1>2. r \in pendingPokes' => immediates'[r]["reconcile"] > 0
  BY <1>1 DEF OnAgentRosterChange, Queued, IInv, TypeOK, DebounceHasCallback
<1>3. r \in pendingRosterPokes' => immediates'[r]["roster"] > 0
  BY <1>1 DEF OnAgentRosterChange, Queued, IInv, TypeOK, DebounceHasCallback
<1>. QED
  BY <1>1, <1>2, <1>3, RequestPreserves
     DEF OnAgentRosterChange, IInv, DebounceHasCallback

LEMMA KickPreserves ==
    ASSUME NEW r \in Repos, IInv, Kick(r)
    PROVE  IInv'
<1>1. {"reconcile", "roster", "kick"} \subseteq Kinds
  BY DEF Kinds
<1>2. /\ r \in pendingPokes' => immediates'[r]["reconcile"] > 0
      /\ r \in pendingRosterPokes' => immediates'[r]["roster"] > 0
  BY <1>1 DEF Kick, Queued, IInv, TypeOK, DebounceHasCallback
<1>. QED
  BY <1>1, <1>2, RequestPreserves DEF Kick

LEMMA CronSweepPreserves ==
    ASSUME NEW r \in Repos, IInv, CronSweep(r)
    PROVE  IInv'
<1>1. /\ Callbacks(r)' = Callbacks(r) /\ Callbacks(r) \in Nat
      /\ asked'[r] = asked[r] + 1 /\ asked' \in [Repos -> Nat]
  BY DEF CronSweep, Request, Callbacks, IInv, TypeOK, Kinds
<1>2. asked'[r] >= started[r] + 1 + Callbacks(r)'
                   + (IF r \in pendingTailRun THEN 1 ELSE 0)
  BY <1>1 DEF IInv, TypeOK, Budget
<1>. QED
  BY <1>1, <1>2, FirePreserves
     DEF CronSweep, Request, IInv, TypeOK, DebounceHasCallback

LEMMA RunImmediatePreserves ==
    ASSUME NEW r \in Repos, NEW k \in Kinds, IInv, RunImmediate(r, k)
    PROVE  IInv'
<1>1. /\ immediates' \in [Repos -> [Kinds -> Nat]]
      /\ immediates'[r][k] = immediates[r][k] - 1
      /\ \A s \in Repos, l \in Kinds :
            (s # r \/ l # k) => immediates'[s][l] = immediates[s][l]
  BY DequeuedCounter DEF RunImmediate, IInv, TypeOK
<1>2. asked'[r] >= started[r] + 1 + Callbacks(r)'
                   + (IF r \in pendingTailRun THEN 1 ELSE 0)
  <2>1. Callbacks(r)' + 1 = Callbacks(r) /\ Callbacks(r)' \in Nat
    BY <1>1 DEF Callbacks, Kinds, IInv, TypeOK
  <2>. QED BY <2>1 DEF RunImmediate, IInv, TypeOK, Budget
<1>3. /\ r \in pendingPokes' => immediates'[r]["reconcile"] > 0
      /\ r \in pendingRosterPokes' => immediates'[r]["roster"] > 0
  BY <1>1 DEF RunImmediate, IInv, TypeOK, DebounceHasCallback, Kinds
<1>4. asked' = asked /\ asked \in [Repos -> Nat]
  BY DEF RunImmediate, IInv, TypeOK
<1>5. pendingPokes' \subseteq pendingPokes
      /\ pendingRosterPokes' \subseteq pendingRosterPokes
  BY DEF RunImmediate
<1>6. asked'[r] >= asked[r]
  BY <1>4
<1>. QED
  BY <1>1, <1>2, <1>3, <1>4, <1>5, <1>6, FirePreserves DEF RunImmediate

LEMMA RunWithPickerMutexPreserves ==
    ASSUME NEW r \in Repos, IInv, RunWithPickerMutex(r)
    PROVE  IInv'
<1>. USE DEF RunWithPickerMutex, Request, BeginRun, CoalesceIntoTail,
             GiveUpUnlessRegistered, IInv, TypeOK
<1>1. TypeOK'
  OBVIOUS
<1>2. MutexMeansRun' /\ TailDuringRun'
  BY DEF MutexMeansRun, TailDuringRun
<1>3. DebounceHasCallback'
  BY DEF DebounceHasCallback
<1>4. ServedBounded'
  BY DEF ServedBounded
<1>5. NoPokeLost'
  BY DEF NoPokeLost, HasPending
<1>6. Budget'
  <2>1. \A s \in Repos : Callbacks(s)' = Callbacks(s) /\ Callbacks(s) \in Nat
    BY DEF Callbacks, Kinds
  <2>. QED BY <2>1 DEF Budget, TailDuringRun
<1>. QED BY <1>1, <1>2, <1>3, <1>4, <1>5, <1>6

LEMMA SettleRunPreserves ==
    ASSUME NEW r \in Repos, IInv, SettleRun(r)
    PROVE  IInv'
<1>1. /\ immediates' \in [Repos -> [Kinds -> Nat]]
      /\ \A s \in Repos, l \in Kinds : immediates'[s][l] >= immediates[s][l]
      /\ \A s \in Repos, l \in Kinds :
            (s # r \/ l # "tail") => immediates'[s][l] = immediates[s][l]
      /\ immediates'[r]["tail"] = immediates[r]["tail"]
                                + (IF r \in pendingTailRun THEN 1 ELSE 0)
  <2>1. "tail" \in Kinds /\ immediates \in [Repos -> [Kinds -> Nat]]
    BY DEF IInv, TypeOK, Kinds
  <2>2. CASE r \in pendingTailRun
    BY <2>1, <2>2 DEF SettleRun, Queued
  <2>3. CASE r \notin pendingTailRun
    BY <2>1, <2>3 DEF SettleRun
  <2>. QED BY <2>2, <2>3
<1>2. TypeOK'
  BY <1>1 DEF SettleRun, IInv, TypeOK, MutexMeansRun
<1>3. MutexMeansRun' /\ TailDuringRun'
  BY DEF SettleRun, IInv, TypeOK, MutexMeansRun, TailDuringRun
<1>4. DebounceHasCallback'
  BY <1>1 DEF SettleRun, IInv, TypeOK, DebounceHasCallback, Kinds
<1>5. ServedBounded'
  BY DEF SettleRun, IInv, ServedBounded
<1>6. NoPokeLost'
  <2>. SUFFICES ASSUME NEW s \in registered, served[s] < asked[s]
                PROVE  HasPending(s)' \/ s \in pendingTailRun'
    BY DEF NoPokeLost, SettleRun
  <2>0. s \in Repos
    BY DEF IInv, TypeOK
  <2>1. CASE s = r /\ r \in pendingTailRun
    <3>1. immediates'[r]["tail"] > 0
      BY <1>1, <2>1 DEF IInv, TypeOK, Kinds
    <3>. QED BY <2>1, <3>1 DEF HasPending, Kinds
  <2>2. CASE ~(s = r /\ r \in pendingTailRun)
    <3>1. HasPending(s) \/ s \in pendingTailRun'
      BY <2>2 DEF IInv, NoPokeLost, SettleRun
    <3>2. HasPending(s) => HasPending(s)'
      BY <1>1, <2>0 DEF HasPending, IInv, TypeOK
    <3>. QED BY <3>1, <3>2
  <2>. QED BY <2>1, <2>2
<1>7. Budget'
  <2>1. \A s \in Repos :
          /\ Callbacks(s) \in Nat
          /\ Callbacks(s)' + (IF s \in pendingTailRun' THEN 1 ELSE 0)
               = Callbacks(s) + (IF s \in pendingTailRun THEN 1 ELSE 0)
    BY <1>1 DEF SettleRun, Callbacks, Kinds, IInv, TypeOK
  <2>2. \A s \in Repos : Callbacks(s)' \in Nat
    BY <1>1 DEF Callbacks, Kinds
  <2>. QED BY <2>1, <2>2 DEF SettleRun, IInv, TypeOK, Budget
<1>. QED BY <1>2, <1>3, <1>4, <1>5, <1>6, <1>7 DEF IInv

-----------------------------------------------------------------------------
LEMMA NextPreserves == IInv /\ [Next]_vars => IInv'
<1>. SUFFICES ASSUME IInv, [Next]_vars PROVE IInv'
  OBVIOUS
<1>1. CASE UNCHANGED vars
  BY <1>1 DEF vars, IInv, TypeOK, MutexMeansRun, TailDuringRun,
     DebounceHasCallback, ServedBounded, NoPokeLost, HasPending, Budget,
     Callbacks
<1>2. CASE Next
  <2>. PICK r \in Repos :
         \/ BootScheduler(r) \/ BootWithoutPicker(r)
         \/ OnReconcileResult(r) \/ OnAgentRosterChange(r) \/ Kick(r)
         \/ CronSweep(r) \/ RunWithPickerMutex(r)
         \/ SettleRun(r) \/ \E k \in Kinds : RunImmediate(r, k)
    BY <1>2 DEF Next, EventLoopStep
  <2>. QED
    BY BootPreserves, OnReconcileResultPreserves,
       OnAgentRosterChangePreserves, KickPreserves, CronSweepPreserves,
       RunWithPickerMutexPreserves, SettleRunPreserves, RunImmediatePreserves
<1>. QED BY <1>1, <1>2

THEOREM Invariance == Spec => []IInv
BY InitIInv, NextPreserves, PTL DEF Spec

\* The scheduler's state keeps its shape for every set of repos.
THEOREM TypeCorrect == Spec => []TypeOK
<1>1. IInv => TypeOK
  BY DEF IInv
<1>. QED BY <1>1, Invariance, PTL

\* Two picker runs of one repo never overlap, for any number of repos and of
\* requests from any source.
THEOREM SingleFlightSafe == Spec => []SingleFlight
<1>1. IInv => SingleFlight
  <2>. SUFFICES ASSUME IInv, NEW r \in Repos PROVE runs[r] <= 1
    BY DEF SingleFlight
  <2>1. runs[r] = 1 \/ runs[r] = 0
    BY DEF IInv, MutexMeansRun
  <2>. QED BY <2>1
<1>. QED BY <1>1, Invariance, PTL

\* A request of a registered repo always has a callback or the tail flag to
\* carry it until a run begins.
THEOREM NoPokeLostSafe == Spec => []NoPokeLost
<1>1. IInv => NoPokeLost
  BY DEF IInv
<1>. QED BY <1>1, Invariance, PTL

\* There are never more runs than requests.
THEOREM NoAmplificationSafe == Spec => []NoAmplification
<1>1. IInv => NoAmplification
  <2>. SUFFICES ASSUME IInv, NEW r \in Repos PROVE started[r] <= asked[r]
    BY DEF NoAmplification
  <2>1. Callbacks(r) \in Nat /\ started[r] \in Nat /\ asked[r] \in Nat
    BY DEF IInv, TypeOK, Callbacks, Kinds
  <2>2. started[r] + Callbacks(r) + (IF r \in pendingTailRun THEN 1 ELSE 0)
           <= asked[r]
    BY DEF IInv, Budget
  <2>. QED BY <2>1, <2>2
<1>. QED BY <1>1, Invariance, PTL

-----------------------------------------------------------------------------
\* The gate implements PickerDemand: each step starts or ends a run, records
\* what is owed, or changes neither.
LEMMA InitImplements == Init => Demand!Init
BY DEF Init, Demand!Init

LEMMA StepImplements == IInv /\ [Next]_vars => [Demand!Next]_(Demand!vars)
<1>. DEFINE running == {r \in Repos : runs[r] > 0}
            owed == {r \in registered : served[r] < asked[r]}
            same == registered' = registered /\ running' = running
<1>. SUFFICES ASSUME IInv, [Next]_vars
              PROVE  \/ \E r \in Repos :
                          \/ /\ registered' = registered \cup {r}
                             /\ running' = running /\ owed' = owed
                          \/ /\ r \in registered
                             /\ registered' = registered \ {r}
                             /\ owed' = owed \ {r} /\ running' = running
                          \/ /\ r \in registered
                             /\ owed' = owed \cup {r} /\ same
                          \/ /\ r \notin running
                             /\ running' = running \cup {r}
                             /\ owed' = owed \ {r}
                             /\ registered' = registered
                          \/ /\ r \in running
                             /\ running' = running \ {r}
                             /\ registered' = registered /\ owed' = owed
                     \/ same /\ owed' = owed
  BY DEF Demand!Next, Demand!vars, Demand!Register, Demand!Unregister,
         Demand!Ask, Demand!Start, Demand!End
<1>0. /\ registered \subseteq Repos /\ pickerInflight \subseteq Repos
      /\ asked \in [Repos -> Nat] /\ served \in [Repos -> Nat]
      /\ runs \in [Repos -> Nat]
      /\ \A r \in Repos : runs[r] = IF r \in pickerInflight THEN 1 ELSE 0
      /\ \A r \in Repos : served[r] <= asked[r]
      /\ \A r \in Repos : r \notin registered => served[r] = asked[r]
  BY DEF IInv, TypeOK, MutexMeansRun, ServedBounded
<1>1. CASE UNCHANGED vars
  BY <1>1 DEF vars
<1>2. ASSUME NEW r \in Repos, BootScheduler(r)
      PROVE  /\ registered' = registered \cup {r}
             /\ running' = running /\ owed' = owed
  BY <1>0, <1>2 DEF BootScheduler, gate
<1>3. ASSUME NEW r \in Repos, BootWithoutPicker(r)
      PROVE  /\ r \in registered
             /\ registered' = registered \ {r}
             /\ owed' = owed \ {r} /\ running' = running
  BY <1>0, <1>3 DEF BootWithoutPicker
<1>4. ASSUME NEW r \in Repos,
             OnReconcileResult(r) \/ OnAgentRosterChange(r) \/ Kick(r)
      PROVE  r \in registered /\ owed' = owed \cup {r} /\ same
  BY <1>0, <1>4 DEF OnReconcileResult, OnAgentRosterChange, Kick, Request,
                    gate
<1>5. ASSUME NEW r \in Repos, asked' \in [Repos -> Nat],
             registered' = registered,
             \/ asked' = asked
             \/ asked' = [asked EXCEPT ![r] = @ + 1],
             \/ BeginRun(r) /\ r \notin pickerInflight
             \/ CoalesceIntoTail(r) /\ r \in pickerInflight
             \/ NoPicker(r) /\ r \notin registered
      PROVE  \/ /\ r \notin running
                /\ running' = running \cup {r}
                /\ owed' = owed \ {r}
                /\ registered' = registered
             \/ r \in registered /\ owed' = owed \cup {r} /\ same
             \/ same /\ owed' = owed
  <2>1. CASE BeginRun(r) /\ r \notin pickerInflight
    BY <1>0, <1>5, <2>1 DEF BeginRun
  <2>2. CASE CoalesceIntoTail(r) /\ r \in pickerInflight
    BY <1>0, <1>5, <2>2 DEF CoalesceIntoTail, GiveUpUnlessRegistered
  <2>3. CASE NoPicker(r) /\ r \notin registered
    BY <1>0, <1>5, <2>3 DEF NoPicker, GiveUpUnlessRegistered
  <2>. QED BY <1>5, <2>1, <2>2, <2>3
<1>6. ASSUME NEW r \in Repos,
             \/ CronSweep(r)
             \/ RunWithPickerMutex(r)
             \/ \E k \in Kinds : RunImmediate(r, k)
      PROVE  \/ /\ r \notin running
                /\ running' = running \cup {r}
                /\ owed' = owed \ {r}
                /\ registered' = registered
             \/ r \in registered /\ owed' = owed \cup {r} /\ same
             \/ same /\ owed' = owed
  <2>1. /\ asked' \in [Repos -> Nat] /\ registered' = registered
        /\ asked' = asked \/ asked' = [asked EXCEPT ![r] = @ + 1]
    BY <1>0, <1>6 DEF CronSweep, RunWithPickerMutex, RunImmediate, Request
  <2>2. \/ BeginRun(r) /\ r \notin pickerInflight
        \/ CoalesceIntoTail(r) /\ r \in pickerInflight
        \/ NoPicker(r) /\ r \notin registered
    BY <1>6 DEF CronSweep, RunWithPickerMutex, RunImmediate, FirePicker
  <2>. QED BY <1>5, <2>1, <2>2
<1>7. ASSUME NEW r \in Repos, SettleRun(r)
      PROVE  /\ r \in running /\ running' = running \ {r}
             /\ registered' = registered /\ owed' = owed
  BY <1>0, <1>7 DEF SettleRun
<1>8. CASE Next
  BY <1>2, <1>3, <1>4, <1>6, <1>7, <1>8 DEF Next, EventLoopStep
<1>. QED BY <1>1, <1>8

\* Whatever the number of repos and requests, the scheduler keeps the promise
\* of PickerDemand.
THEOREM Refinement == Spec => ImplementsDemand
BY InitImplements, StepImplements, Invariance, PTL
   DEF Spec, ImplementsDemand, Demand!Spec
=============================================================================
