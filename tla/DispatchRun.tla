----------------------------- MODULE DispatchRun -----------------------------
(***************************************************************************)
(* One dispatch as runResolved runs it (src/src/dispatch/core.ts): a first  *)
(* job and, when the stall detector finds the agent stuck, jobs respawned   *)
(* under the same dispatch id.  The jobs share one dispatches row, one      *)
(* tracker lock, one TTL timer and one entry of activeJobs.  AgentJob has   *)
(* the inside of a job; here a job is running, ending or over.              *)
(***************************************************************************)
EXTENDS Naturals, FiniteSets

CONSTANT MaxStallResumes  \* MAX_STALL_RESUMES

ASSUME ResumesAssumption == MaxStallResumes \in Nat \ {0}

\* Job 1 is the first; job n + 1 follows the n-th stall.
Jobs == 1..MaxStallResumes

VARIABLES
    launched,   \* runResolved has returned
    jobs,       \* "none", "running", "draining", "stopping", "over"
    processes,  \* jobs whose process exists
    active,     \* the job activeJobs holds under the dispatch id, 0 for none
    newest,     \* jobs spawned
    resumeCount,
    recovery,   \* onStall: "idle", "killing", "respawning"
    respawnInProgress,
    lockReleased, releases,
    ttlArmed,
    row,        \* "running" or "terminal"
    told        \* calls of input.onComplete

vars == <<launched, jobs, processes, active, newest, resumeCount, recovery,
          respawnInProgress, lockReleased, releases, ttlArmed, row, told>>
shared == <<lockReleased, releases, ttlArmed, row, told>>
stall == <<resumeCount, recovery, respawnInProgress>>

Init ==
    /\ launched = FALSE
    /\ jobs = [j \in Jobs |-> IF j = 1 THEN "running" ELSE "none"]
    /\ processes = {1}
    /\ active = 0
    /\ newest = 1
    /\ resumeCount = 0
    /\ recovery = "idle"
    /\ respawnInProgress = FALSE
    /\ lockReleased = FALSE
    /\ releases = 0
    /\ ttlArmed = FALSE
    /\ row = "running"
    /\ told = 0

-----------------------------------------------------------------------------
FireLockReleaseOnce ==
    /\ lockReleased' = TRUE
    /\ releases' = releases + (IF lockReleased THEN 0 ELSE 1)

\* The onComplete closure every job of the dispatch is given.
OnComplete ==
    /\ ttlArmed' = FALSE
    /\ IF respawnInProgress THEN UNCHANGED <<lockReleased, releases>>
                            ELSE FireLockReleaseOnce
    /\ told' = told + 1

\* Only the first job was given the row to finalize.
FinalizeRow(j) == row' = IF j = 1 THEN "terminal" ELSE row

\* spawnForDispatch and runResolved return: the job is registered and, with
\* no look at its status, the TTL timer armed.
Launched ==
    /\ ~launched
    /\ launched' = TRUE
    /\ active' = 1
    /\ ttlArmed' = TRUE
    /\ UNCHANGED <<jobs, processes, newest, lockReleased, releases, row, told,
                   stall>>

\* The process of j exits by itself; a running job starts its drain.
ProcessExits(j) ==
    /\ j \in processes
    /\ processes' = processes \ {j}
    /\ UNCHANGED <<launched, jobs, active, newest, shared, stall>>

ExitNoticed(j) ==
    /\ jobs[j] = "running"
    /\ j \notin processes
    /\ jobs' = [jobs EXCEPT ![j] = "draining"]
    /\ UNCHANGED <<launched, processes, active, newest, shared, stall>>

\* The job's cleanup, then its onComplete.
JobOver(j) ==
    /\ jobs[j] \in {"draining", "stopping"}
    /\ jobs' = [jobs EXCEPT ![j] = "over"]
    /\ FinalizeRow(j)
    /\ OnComplete
    /\ UNCHANGED <<launched, processes, active, newest, stall>>

\* A stop or a cancel reaches the job activeJobs holds; a timer its own job.
BeginStop(j) ==
    /\ jobs[j] = "running"
    /\ jobs' = [jobs EXCEPT ![j] = "stopping"]

StopActive ==
    /\ active # 0
    /\ BeginStop(active)
    /\ UNCHANGED <<launched, processes, active, newest, shared, stall>>

TimerStops(j) ==
    /\ BeginStop(j)
    /\ UNCHANGED <<launched, processes, active, newest, shared, stall>>

\* onStall of the newest job's detector, which job._cleanup stops.
StallAtCap ==
    /\ recovery = "idle"
    /\ active # 0
    /\ jobs[active] = "running"
    /\ resumeCount' = resumeCount + 1
    /\ resumeCount' >= MaxStallResumes
    /\ BeginStop(active)
    /\ UNCHANGED <<launched, processes, active, newest, recovery, respawnInProgress,
                   shared>>

\* Mutant of Stall: one resume too many.
StallOnceMore ==
    /\ recovery = "idle"
    /\ active # 0
    /\ jobs[active] = "running"
    /\ resumeCount' = resumeCount + 1
    /\ resumeCount' <= MaxStallResumes
    /\ recovery' = "killing"
    /\ respawnInProgress' = TRUE
    /\ UNCHANGED <<launched, jobs, processes, active, newest, shared>>

Stall ==
    /\ recovery = "idle"
    /\ active # 0
    /\ jobs[active] = "running"
    /\ resumeCount' = resumeCount + 1
    /\ resumeCount' < MaxStallResumes
    /\ recovery' = "killing"
    /\ respawnInProgress' = TRUE
    /\ UNCHANGED <<launched, jobs, processes, active, newest, shared>>

\* Mutant of StalledKilled: SIGTERM without SIGKILL.
StalledNotKilled ==
    /\ recovery = "killing"
    /\ recovery' = "respawning"
    /\ UNCHANGED <<launched, jobs, processes, active, newest, resumeCount,
                   respawnInProgress, shared>>

\* terminateWithGrace is over: SIGTERM, five seconds, SIGKILL.
StalledKilled ==
    /\ recovery = "killing"
    /\ recovery' = "respawning"
    /\ processes' = processes \ {active}
    /\ UNCHANGED <<launched, jobs, active, newest, resumeCount, respawnInProgress, shared>>

\* Mutant of RecoveryEnds: the flag is not reset.
RecoveryEndsFlagged == recovery' = "idle" /\ UNCHANGED respawnInProgress

RecoveryEnds == recovery' = "idle" /\ respawnInProgress' = FALSE

\* Mutant of RespawnSucceeds: activeJobs keeps the old job.
RespawnUnregistered ==
    /\ recovery = "respawning"
    /\ newest' = newest + 1
    /\ jobs' = [jobs EXCEPT ![newest'] = "running"]
    /\ processes' = processes \cup {newest'}
    /\ RecoveryEnds
    /\ UNCHANGED <<launched, active, resumeCount, shared>>

\* The new job takes the old one's place, whatever became of the old one.
RespawnSucceeds ==
    /\ recovery = "respawning"
    /\ newest' = newest + 1
    /\ jobs' = [jobs EXCEPT ![newest'] = "running"]
    /\ processes' = processes \cup {newest'}
    /\ active' = newest'
    /\ RecoveryEnds
    /\ UNCHANGED <<launched, resumeCount, shared>>

\* The spawn failed on the host: its own onComplete, then the catch releases.
RespawnFails ==
    /\ recovery = "respawning"
    /\ FireLockReleaseOnce
    /\ ttlArmed' = FALSE
    /\ told' = told + 1
    /\ RecoveryEnds
    /\ UNCHANGED <<launched, jobs, processes, active, newest, resumeCount, row>>

\* The hourly eviction of a finished job.
Evict ==
    /\ active # 0
    /\ jobs[active] = "over"
    /\ recovery = "idle"
    /\ active' = 0
    /\ UNCHANGED <<launched, jobs, processes, newest, shared, stall>>

-----------------------------------------------------------------------------
Next ==
    \/ Launched \/ StopActive \/ Evict
    \/ StallAtCap \/ Stall \/ StalledKilled
    \/ RespawnSucceeds \/ RespawnFails
    \/ \E j \in Jobs :
          ProcessExits(j) \/ ExitNoticed(j) \/ JobOver(j) \/ TimerStops(j)

Spec == Init /\ [][Next]_vars

\* The launch and the stall handler run on, a stopped job's process is killed
\* and every exit is noticed; a healthy agent may work for ever.
Fairness ==
    /\ WF_vars(Launched)
    /\ WF_vars(StalledKilled) /\ WF_vars(RespawnSucceeds \/ RespawnFails)
    /\ \A j \in Jobs :
          /\ WF_vars(ExitNoticed(j)) /\ WF_vars(JobOver(j))
          /\ WF_vars(jobs[j] = "stopping" /\ ProcessExits(j))

FairSpec == Spec /\ Fairness

-----------------------------------------------------------------------------
TypeOK ==
    /\ launched \in BOOLEAN
    /\ jobs \in [Jobs -> {"none", "running", "draining", "stopping", "over"}]
    /\ processes \subseteq Jobs
    /\ active \in Jobs \cup {0}
    /\ newest \in Jobs
    /\ resumeCount \in 0..MaxStallResumes
    /\ recovery \in {"idle", "killing", "respawning"}
    /\ respawnInProgress \in BOOLEAN
    /\ lockReleased \in BOOLEAN
    /\ releases \in Nat
    /\ ttlArmed \in BOOLEAN
    /\ row \in {"running", "terminal"}
    /\ told \in Nat

\* The tracker lock of a dispatch is released at most once, however many jobs
\* of it end and whatever spawn fails: a second release could hit the lock of
\* the card's next dispatch.
LockReleasedOnce == releases <= 1

\* Two agents of one dispatch never run side by side in its worktree: the
\* stalled one is dead before the next is spawned.
OneProcess == Cardinality(processes) <= 1

\* Between recoveries a stop or a cancel finds the agent that is running: the
\* entry of activeJobs is the job of the live process.
StopReachesLiveJob == launched /\ recovery = "idle" =>
    \A j \in processes : jobs[j] = "running" => j = active

\* The lock does not outlive the dispatch: once no process is left and no
\* respawn is under way, it is released and the caller told, unless a stall
\* noticed in between spawns another agent.
LockEventuallyReleased ==
    (processes = {} /\ recovery = "idle") ~>
        ((lockReleased /\ told > 0) \/ processes # {})
=============================================================================
