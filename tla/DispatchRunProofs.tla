-------------------------- MODULE DispatchRunProofs --------------------------
(***************************************************************************)
(* The safety of one dispatch, for any number of stall resumes.             *)
(***************************************************************************)
EXTENDS DispatchRun, FiniteSetTheorems, TLAPS

-----------------------------------------------------------------------------
(* The inductive invariant. *)

\* The gate of the closure lets one release through.
ReleaseGated == releases = IF lockReleased THEN 1 ELSE 0

\* Only the newest job can have a process, and none while its successor is
\* being spawned.
NewestAlone ==
    /\ processes \subseteq {newest}
    /\ recovery = "respawning" => processes = {}

\* activeJobs holds the newest job, from the launch until that job is over
\* and evicted; a recovery works on an entry that is there.
NewestRegistered ==
    /\ active \in {0, newest}
    /\ ~launched => active = 0 /\ newest = 1
    /\ recovery # "idle" => active = newest
    /\ launched /\ active = 0 => jobs[newest] = "over"

\* One job per counted stall, and none is running once the cap is reached.
ResumesCounted ==
    /\ newest <= resumeCount + 1
    /\ recovery # "idle" => newest <= resumeCount /\ resumeCount < MaxStallResumes
    /\ ~launched => resumeCount = 0
    /\ resumeCount = MaxStallResumes => active = 0 \/ jobs[active] # "running"

IInv ==
    /\ TypeOK
    /\ ReleaseGated
    /\ NewestAlone
    /\ NewestRegistered
    /\ ResumesCounted

-----------------------------------------------------------------------------
\* What holds when the dispatch begins: one job, not yet registered.
LEMMA InitEstablishes == Init => IInv
<1> SUFFICES ASSUME Init PROVE IInv
  OBVIOUS
<1> USE ResumesAssumption DEF Init, Jobs
<1>1. TypeOK
  <2>1. /\ launched \in BOOLEAN /\ respawnInProgress \in BOOLEAN
        /\ lockReleased \in BOOLEAN /\ ttlArmed \in BOOLEAN
    OBVIOUS
  <2>2. /\ processes \subseteq Jobs /\ active \in Jobs \cup {0}
        /\ newest \in Jobs /\ resumeCount \in 0..MaxStallResumes
        /\ releases \in Nat /\ told \in Nat
    OBVIOUS
  <2> QED
    BY <2>1, <2>2 DEF TypeOK
<1>2. ReleaseGated /\ NewestAlone /\ NewestRegistered /\ ResumesCounted
  BY DEF ReleaseGated, NewestAlone, NewestRegistered, ResumesCounted
<1> QED
  BY <1>1, <1>2 DEF IInv

\* The gate of the lock: it lets one release through whatever state it is in.
LEMMA GateHolds ==
    ASSUME TypeOK, ReleaseGated, FireLockReleaseOnce
    PROVE  /\ lockReleased' \in BOOLEAN
           /\ releases' \in Nat
           /\ releases' = IF lockReleased' THEN 1 ELSE 0
BY DEF TypeOK, ReleaseGated, FireLockReleaseOnce

\* The closure of a job, which fires the gate or leaves it alone.
LEMMA ClosureHolds ==
    ASSUME TypeOK, ReleaseGated, OnComplete
    PROVE  /\ lockReleased' \in BOOLEAN
           /\ releases' \in Nat
           /\ releases' = IF lockReleased' THEN 1 ELSE 0
           /\ ttlArmed' \in BOOLEAN
           /\ told' \in Nat
<1>1. ttlArmed' \in BOOLEAN /\ told' \in Nat
  <2>1. told \in Nat
    BY DEF TypeOK
  <2>2. told' \in Nat
    BY <2>1 DEF OnComplete
  <2>3. ttlArmed' \in BOOLEAN
    BY DEF OnComplete
  <2> QED
    BY <2>2, <2>3
<1>2. CASE respawnInProgress
  BY <1>1, <1>2 DEF TypeOK, ReleaseGated, OnComplete
<1>3. CASE ~respawnInProgress
  <2>1. FireLockReleaseOnce
    BY <1>3 DEF OnComplete
  <2> QED
    BY <1>1, <2>1, GateHolds
<1> QED
  BY <1>2, <1>3

\* Every action of the dispatch keeps the invariant.
LEMMA NextPreserves == IInv /\ [Next]_vars => IInv'
<1> SUFFICES ASSUME IInv, [Next]_vars PROVE IInv'
  OBVIOUS
<1> USE ResumesAssumption
        DEF IInv, TypeOK, ReleaseGated, NewestAlone, NewestRegistered,
            ResumesCounted, Jobs, shared, stall
<1>1. CASE Launched
  BY <1>1 DEF Launched
<1>2. CASE StopActive
  BY <1>2 DEF StopActive, BeginStop
<1>3. CASE Evict
  BY <1>3 DEF Evict
<1>4. CASE StallAtCap
  BY <1>4 DEF StallAtCap, BeginStop
<1>5. CASE Stall
  BY <1>5 DEF Stall
<1>6. CASE StalledKilled
  BY <1>6 DEF StalledKilled
<1>7. CASE RespawnSucceeds
  <2>1. newest + 1 \in Jobs /\ newest' = newest + 1 /\ processes = {}
    BY <1>7 DEF RespawnSucceeds
  <2>2. TypeOK'
    BY <1>7, <2>1 DEF RespawnSucceeds, RecoveryEnds
  <2>3. ReleaseGated' /\ NewestAlone' /\ NewestRegistered'
    BY <1>7, <2>1 DEF RespawnSucceeds, RecoveryEnds
  <2>4. ResumesCounted'
    BY <1>7, <2>1 DEF RespawnSucceeds, RecoveryEnds
  <2> QED
    BY <2>2, <2>3, <2>4
<1>8. CASE RespawnFails
  <2>1. FireLockReleaseOnce
    BY <1>8 DEF RespawnFails
  <2>2. lockReleased' \in BOOLEAN /\ releases' \in Nat /\ ReleaseGated'
    BY <2>1, GateHolds DEF IInv
  <2>3. TypeOK'
    <3>1. told' \in Nat /\ ttlArmed' = FALSE /\ respawnInProgress' = FALSE
      BY <1>8 DEF RespawnFails, RecoveryEnds
    <3> QED
      BY <1>8, <2>2, <3>1 DEF RespawnFails, RecoveryEnds
  <2>4. NewestAlone' /\ NewestRegistered' /\ ResumesCounted'
    BY <1>8 DEF RespawnFails, RecoveryEnds
  <2> QED
    BY <2>2, <2>3, <2>4
<1>9. ASSUME NEW j \in Jobs, ProcessExits(j) PROVE IInv'
  BY <1>9 DEF ProcessExits
<1>10. ASSUME NEW j \in Jobs, ExitNoticed(j) PROVE IInv'
  BY <1>10 DEF ExitNoticed
<1>11. ASSUME NEW j \in Jobs, JobOver(j) PROVE IInv'
  <2> OnComplete
    BY <1>11 DEF JobOver
  <2>1. TypeOK'
    BY <1>11, ClosureHolds DEF JobOver, FinalizeRow
  <2>2. ReleaseGated'
    BY <1>11, ClosureHolds DEF JobOver
  <2>3. NewestAlone' /\ NewestRegistered' /\ ResumesCounted'
    BY <1>11 DEF JobOver
  <2> QED
    BY <2>1, <2>2, <2>3
<1>12. ASSUME NEW j \in Jobs, TimerStops(j) PROVE IInv'
  BY <1>12 DEF TimerStops, BeginStop
<1>13. CASE UNCHANGED vars
  BY <1>13 DEF vars
<1> QED
  BY <1>1, <1>2, <1>3, <1>4, <1>5, <1>6, <1>7, <1>8, <1>9, <1>10, <1>11,
     <1>12, <1>13 DEF Next

\* The invariant of the dispatch, in every behaviour.
THEOREM Invariance == Spec => []IInv
<1>1. Init => IInv
  BY InitEstablishes
<1>2. IInv /\ [Next]_vars => IInv'
  BY NextPreserves
<1> QED
  BY <1>1, <1>2, PTL DEF Spec

-----------------------------------------------------------------------------
\* Type correctness, for any number of stall resumes.
THEOREM TypeCorrect == Spec => []TypeOK
<1>1. IInv => TypeOK
  BY DEF IInv
<1> QED
  BY <1>1, Invariance, PTL

\* The tracker lock is released at most once, whichever jobs end in whatever
\* order and whichever respawn fails.
THEOREM LockReleasedOnceSafe == Spec => []LockReleasedOnce
<1>1. IInv => LockReleasedOnce
  BY DEF IInv, ReleaseGated, LockReleasedOnce
<1> QED
  BY <1>1, Invariance, PTL

\* Two agents of the dispatch never run side by side.
THEOREM OneProcessSafe == Spec => []OneProcess
<1>1. ASSUME IInv PROVE OneProcess
  <2>1. processes = {} \/ processes = {newest}
    BY <1>1 DEF IInv, NewestAlone
  <2> QED
    BY <2>1, FS_EmptySet, FS_Singleton DEF OneProcess
<1> QED
  BY <1>1, Invariance, PTL

\* Between recoveries a stop finds the job of the live process.
THEOREM StopReachesLiveJobSafe == Spec => []StopReachesLiveJob
<1>1. IInv => StopReachesLiveJob
  BY DEF IInv, NewestAlone, NewestRegistered, StopReachesLiveJob
<1> QED
  BY <1>1, Invariance, PTL
=============================================================================
