------------------------------ MODULE AgentJob ------------------------------
(***************************************************************************)
(* One spawned agent (src/src/agent): its process, the in-memory job, the   *)
(* dispatches row, and everything that may end it.  The process may exit by *)
(* itself; the agent, a stall, the operator, the API-error detector and two *)
(* timers may end it; the launcher may roll it back.  A step is what runs   *)
(* between two awaits, so handlers that await are several actions.          *)
(*                                                                          *)
(* completions, resumed and flag record what left the job: calls of         *)
(* onComplete, the POST to /api/resume, the CRITICAL_FAILURE file.          *)
(*                                                                          *)
(* The names of the specification begin with Job, so that one module can    *)
(* extend this one and AgentStrikes.                                        *)
(***************************************************************************)
EXTENDS Naturals, FiniteSets

CONSTANTS Runtimes,         \* subset of {"docker", "host"}
          MaxRecovers,      \* recovers of one chain (MAX_RECOVERS)
          DatabaseMayFail,  \* whether a write of the row may be rejected
          PairingMayFail    \* whether the paired host_pid write may be

ASSUME JobAssumption ==
    /\ Runtimes \subseteq {"docker", "host"}
    /\ MaxRecovers \in Nat
    /\ DatabaseMayFail \in BOOLEAN
    /\ PairingMayFail \in BOOLEAN

\* The calls that stop the agent tree and then wait for it.
Callers == {"stop", "cancel", "recover", "throttle"}
Terminal == {"completed", "failed", "canceled", "timeout", "recovered",
             "throttled"}

VARIABLES
    runtime,      \* where the agent runs
    launch,       \* spawnAgent: "spawning", "pairing", "returned", "threw"
    status,       \* job.status
    process,      \* "alive", "signalled", "exited"
    exiting,      \* close handler: "idle", "draining", "done"
    calls,        \* per caller: "idle", "killing", "cleaning", "reporting", "done"
    cleanup,      \* runCleanup: "none", "draining", "writing", "done"
    finalizing,   \* the status finalize was called with
    row,          \* status column of the dispatches row
    recovering,   \* recover handler: "idle", "recording", "stopping", "done"
    recoverCount,
    completions, resumed, flag

jobVars == <<runtime, launch, status, process, exiting, calls, cleanup,
          finalizing, row, recovering, recoverCount, completions, resumed,
          flag>>
jobState == <<status, process, calls>>
teardown == <<cleanup, finalizing, row>>
recover == <<recovering, recoverCount, resumed, flag>>

JobInit ==
    /\ runtime \in Runtimes
    /\ launch = IF runtime = "host" THEN "spawning" ELSE "pairing"
    /\ status = "running"
    /\ process = "alive"
    /\ exiting = "idle"
    /\ calls = [c \in Callers |-> "idle"]
    /\ cleanup = "none"
    /\ finalizing = "running"
    /\ row = "running"
    /\ recovering = "idle"
    /\ recoverCount \in 0..MaxRecovers
    /\ completions = 0
    /\ resumed = FALSE
    /\ flag = "none"

-----------------------------------------------------------------------------
\* job.handle is set once the process is there.
HasHandle == launch # "spawning"

\* Mutant of DispatchStatus: the job's status is stored as it is.
DispatchStatusRaw(s) == s

\* The row keeps "cancelled" for a canceled job and "failed" for a timeout.
DispatchStatus(s) ==
    CASE s = "canceled" -> "cancelled"
      [] s = "timeout"  -> "failed"
      [] OTHER          -> s

\* cleanup(): the first call starts runCleanup, later ones share its promise.
StartCleanup == cleanup' = IF cleanup = "none" THEN "draining" ELSE cleanup

\* stopAgentTree, up to its await.  On the host `systemctl stop` may fail.
StopAgentTree ==
    \/ process' = IF process = "alive" THEN "signalled" ELSE process
    \/ runtime = "host" /\ process' = process

OnComplete == completions' = completions + 1

SpawnSucceeds ==
    /\ launch = "spawning"
    /\ launch' = "pairing"
    /\ UNCHANGED <<runtime, exiting, completions, jobState, teardown, recover>>

\* The host never wrote its PID file.
SpawnFails ==
    /\ launch = "spawning"
    /\ launch' = "threw"
    /\ status' = "failed"
    /\ process' = "exited"
    /\ StartCleanup
    /\ OnComplete
    /\ UNCHANGED <<runtime, exiting, calls, finalizing, row, recover>>

PairingSucceeds ==
    /\ launch = "pairing"
    /\ launch' = "returned"
    /\ UNCHANGED <<runtime, exiting, completions, jobState, teardown, recover>>

\* pairedWriteHostPid marks the row failed, unless that write fails too, and
\* throws; spawnAgent fails the job whatever its status and tears it down.
PairingRollsBack ==
    /\ PairingMayFail
    /\ launch = "pairing"
    /\ launch' = "threw"
    /\ row' = "failed" \/ (DatabaseMayFail /\ row' = row)
    /\ status' = "failed"
    /\ StopAgentTree
    /\ StartCleanup
    /\ UNCHANGED <<runtime, exiting, calls, finalizing, completions, recover>>

-----------------------------------------------------------------------------
\* The process ends by itself or by the signal.
ProcessExits ==
    /\ process # "exited"
    /\ process' = "exited"
    /\ UNCHANGED <<runtime, launch, status, exiting, calls, completions,
                   teardown, recover>>

\* The host's liveness poll is disposed by cleanup; docker always emits.
ExitIsObserved ==
    /\ process = "exited"
    /\ exiting = "idle"
    /\ HasHandle
    /\ runtime = "host" => cleanup = "none"

\* close (docker) or onExit (host) of a running job: drain the watcher.
ExitOfRunning ==
    /\ ExitIsObserved
    /\ status = "running"
    /\ exiting' = "draining"
    /\ UNCHANGED <<runtime, launch, completions, jobState, teardown, recover>>

\* ... of a job another handler ended: docker runs cleanup defensively.
ExitOfEnded ==
    /\ ExitIsObserved
    /\ status # "running"
    /\ exiting' = "done"
    /\ IF runtime = "docker" THEN StartCleanup ELSE UNCHANGED cleanup
    /\ UNCHANGED <<runtime, launch, finalizing, row, completions, jobState, recover>>

\* The drain is over: the exit decides the status.  The exit code, or on the
\* host the last text, tells success from failure.
ExitIsRecorded ==
    /\ exiting = "draining"
    /\ exiting' = "done"
    /\ status' \in {"completed", "failed"}
    /\ StartCleanup
    /\ OnComplete
    /\ UNCHANGED <<runtime, launch, process, calls, finalizing, row, recover>>

\* The "error" event of the child: a signal could not be delivered.
ProcessError ==
    /\ runtime = "docker" /\ process # "exited"
    /\ StartCleanup
    /\ IF status = "running" THEN status' = "failed" /\ OnComplete
                             ELSE UNCHANGED <<status, completions>>
    /\ UNCHANGED <<runtime, launch, process, exiting, calls, finalizing, row,
                   recover>>

-----------------------------------------------------------------------------
\* job.stop and cancelJob up to the await of stopAgentTree.  They return at
\* once when the job is not running or has no handle.
MayStop == status = "running" /\ HasHandle

\* Mutant of BeginStop: the status is not looked at.
BeginStopAnyway(c, s) ==
    /\ HasHandle
    /\ status' = s
    /\ calls' = [calls EXCEPT ![c] = "killing"]
    /\ StopAgentTree

BeginStop(c, s) ==
    /\ MayStop
    /\ status' = s
    /\ calls' = [calls EXCEPT ![c] = "killing"]
    /\ StopAgentTree

\* POST /api/stop, and the stall detector's last resort.  They find the job in
\* activeJobs, where it is once spawnAgent has returned; so does a cancel.
Stop == \E s \in {"completed", "failed"} :
    /\ launch = "returned"
    /\ BeginStop("stop", s)
    /\ UNCHANGED <<runtime, launch, exiting, completions, teardown, recover>>

Cancel ==
    /\ launch = "returned"
    /\ BeginStop("cancel", "canceled")
    /\ UNCHANGED <<runtime, launch, exiting, completions, teardown, recover>>

TreeStopped(c) ==
    /\ calls[c] = "killing"
    /\ calls' = [calls EXCEPT ![c] = "cleaning"]
    /\ StartCleanup
    /\ UNCHANGED <<runtime, launch, status, process, exiting, finalizing, row,
                   completions, recover>>

CleanupAwaited(c) ==
    /\ calls[c] = "cleaning"
    /\ cleanup = "done"
    /\ calls' = [calls EXCEPT ![c] = "reporting"]
    /\ UNCHANGED <<runtime, launch, status, process, exiting, completions,
                   teardown, recover>>

\* The PUT to the caller's status URL is over.
StatusReported(c) ==
    /\ calls[c] = "reporting"
    /\ calls' = [calls EXCEPT ![c] = "done"]
    /\ OnComplete
    /\ UNCHANGED <<runtime, launch, status, process, exiting, teardown, recover>>

\* Mutant of TimerFires: nobody is told.
TimerFiresSilently ==
    /\ MayStop
    /\ cleanup = "none"
    /\ status' = "timeout"
    /\ StopAgentTree
    /\ StartCleanup
    /\ UNCHANGED <<runtime, launch, exiting, calls, finalizing, row,
                   completions, recover>>

\* The inactivity or the max-runtime timer.
TimerFires ==
    /\ MayStop
    /\ cleanup = "none"
    /\ status' = "timeout"
    /\ StopAgentTree
    /\ StartCleanup
    /\ OnComplete
    /\ UNCHANGED <<runtime, launch, exiting, calls, finalizing, row, recover>>

-----------------------------------------------------------------------------
\* Mutant of CleanupDrained: runCleanup does not drain the watcher.
CleanupUndrained ==
    /\ cleanup = "draining"
    /\ cleanup' = "writing"
    /\ finalizing' = DispatchStatus(status)
    /\ UNCHANGED <<runtime, launch, exiting, row, completions, jobState, recover>>

\* runCleanup after its drain: finalize is called with the status of now.
\* Drains are served in order, so the close handler's is over.
CleanupDrained ==
    /\ cleanup = "draining"
    /\ exiting # "draining"
    /\ cleanup' = "writing"
    /\ finalizing' = DispatchStatus(status)
    /\ UNCHANGED <<runtime, launch, exiting, row, completions, jobState, recover>>

\* finalize swallows a failed write.
RowSettles ==
    /\ cleanup = "writing"
    /\ cleanup' = "done"
    /\ row' = finalizing \/ (DatabaseMayFail /\ row' = row)
    /\ UNCHANGED <<runtime, launch, exiting, finalizing, completions, jobState,
                   recover>>

-----------------------------------------------------------------------------
\* The API-error detector confirmed a stream error; cleanup stops it.
RecoverFires ==
    /\ recovering = "idle"
    /\ cleanup = "none"
    /\ status = "running"
    /\ recovering' = "recording"
    /\ recoverCount' = recoverCount + 1
    /\ UNCHANGED <<runtime, launch, exiting, completions, resumed, flag, jobState,
                   teardown>>

\* job.stop as the recover handler calls it: nothing if the job has ended.
StopFromRecover(s) ==
    IF MayStop THEN BeginStop("recover", s)
               ELSE UNCHANGED jobState

\* recordRecoverCount is over: give up at the cap, else stop and resume.
RecoverExhausted ==
    /\ recovering = "recording"
    /\ recoverCount > MaxRecovers
    /\ recovering' = "done"
    /\ flag' = "critical"
    /\ StopFromRecover("failed")
    /\ UNCHANGED <<runtime, launch, exiting, recoverCount, completions,
                   resumed, teardown>>

RecoverStops ==
    /\ recovering = "recording"
    /\ recoverCount <= MaxRecovers
    /\ recovering' = "stopping"
    /\ StopFromRecover("recovered")
    /\ UNCHANGED <<runtime, launch, exiting, recoverCount, completions,
                   resumed, flag, teardown>>

PostResume ==
    /\ recovering = "stopping"
    /\ calls["recover"] \in {"idle", "done"}
    /\ recovering' = "done"
    /\ resumed' = TRUE
    /\ UNCHANGED <<runtime, launch, exiting, recoverCount, completions, flag,
                   jobState, teardown>>

\* A rate limit: the flag is written and the job stopped in one step.
ThrottleFires ==
    /\ cleanup = "none"
    /\ BeginStop("throttle", "throttled")
    /\ flag' = "throttle"
    /\ UNCHANGED <<runtime, launch, exiting, recovering, recoverCount,
                   completions, resumed, teardown>>

-----------------------------------------------------------------------------
Launch == SpawnSucceeds \/ SpawnFails \/ PairingSucceeds \/ PairingRollsBack
CallStep == \E c \in Callers :
    TreeStopped(c) \/ CleanupAwaited(c) \/ StatusReported(c)
Exit == ExitOfRunning \/ ExitOfEnded \/ ExitIsRecorded
CleanupStep == CleanupDrained \/ RowSettles
RecoverStep == RecoverExhausted \/ RecoverStops \/ PostResume

JobNext ==
    \/ Launch
    \/ ProcessExits \/ ProcessError \/ Exit
    \/ Stop \/ Cancel \/ CallStep \/ TimerFires
    \/ CleanupStep
    \/ RecoverFires \/ RecoverStep \/ ThrottleFires

JobSpec == JobInit /\ [][JobNext]_jobVars

\* Awaited work settles, and a signalled process exits (SIGKILL follows).
\* Nothing makes a healthy agent stop.
JobFairness ==
    /\ WF_jobVars(Launch) /\ WF_jobVars(Exit) /\ WF_jobVars(CleanupStep)
    /\ WF_jobVars(RecoverStep)
    /\ \A c \in Callers :
          WF_jobVars(TreeStopped(c) \/ CleanupAwaited(c) \/ StatusReported(c))
    /\ WF_jobVars(process = "signalled" /\ ProcessExits)

JobFairSpec == JobSpec /\ JobFairness

-----------------------------------------------------------------------------
JobTypeOK ==
    /\ runtime \in Runtimes
    /\ launch \in {"spawning", "pairing", "returned", "threw"}
    /\ status \in Terminal \cup {"running"}
    /\ process \in {"alive", "signalled", "exited"}
    /\ exiting \in {"idle", "draining", "done"}
    /\ calls \in [Callers ->
                    {"idle", "killing", "cleaning", "reporting", "done"}]
    /\ cleanup \in {"none", "draining", "writing", "done"}
    /\ {finalizing, row} \subseteq
          {"running", "cancelled"} \cup (Terminal \ {"canceled", "timeout"})
    /\ recovering \in {"idle", "recording", "stopping", "done"}
    /\ recoverCount \in 0..(MaxRecovers + 1)
    /\ completions \in Nat
    /\ resumed \in BOOLEAN
    /\ flag \in {"none", "critical", "throttle"}

\* Of the calls that stop the agent tree and wait, one wins: the stop, the
\* cancel, the recover and the throttle never run their teardown side by side.
OneTeardown == Cardinality({c \in Callers : calls[c] # "idle"}) <= 1

\* The row never disagrees with the job: once finalize has run, the column
\* holds the job's own status, also when a stop landed inside the close
\* handler's drain.  (A rolled-back launch writes the row by itself.)
RowMatchesJob ==
    (row # "running" /\ launch # "threw") => row = DispatchStatus(status)

\* A stop or a cancel tells its caller only after the row's write has
\* settled, so whoever acts on the PUT finds the row finalized.
FinalizedBeforeReport == \A c \in Callers :
    calls[c] \in {"reporting", "done"} => cleanup = "done"

\* onComplete is never ahead of the teardown: when it runs, the status is
\* terminal and cleanup has begun, so no monitor or temp dir outlives the job.
CompletionAfterTeardown ==
    completions > 0 => status # "running" /\ cleanup # "none"

\* Whatever ended it, a job whose process is gone or being killed is torn
\* down and its owner is told, unless spawnAgent threw instead.
EventuallyComplete ==
    (process # "alive") ~>
        (cleanup = "done" /\ (completions > 0 \/ launch = "threw"))

\* What agent-stop.ts says of the order status-then-kill: a terminal status
\* is not overridden.
TerminalIsFinal == [][status # "running" => status' = status]_jobVars
=============================================================================
