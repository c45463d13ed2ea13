-------------------------- MODULE DispatchRecovery --------------------------
(***************************************************************************)
(* The dispatches of one card across crashes of the worker.  An agent's     *)
(* process outlives the worker, and reports its end by the worker's stop    *)
(* route, by the dispatches row or by a queue file                          *)
(* (src/src/mcp/danxbot-server.ts).  A worker that boots replays the queue, *)
(* reattaches or resolves the open rows, reaps processes whose row is       *)
(* closed, clears dead dispatch blocks and arms the TTL timers              *)
(* (src/src/index.ts); then its picker may dispatch the card again.         *)
(*                                                                         *)
(* Every report is "completed".  A process id is the dispatch that started  *)
(* it.  No dispatch outlives the two hours of its block, and pids are not   *)
(* used again.                                                              *)
(***************************************************************************)
EXTENDS Naturals, FiniteSets

CONSTANTS
    MaxDispatches,  \* bound: dispatches of the card
    MaxFaults       \* bound: ends of the worker and failed database calls

ASSUME DispatchesAssumption == MaxDispatches \in Nat \ {0}
ASSUME FaultsAssumption == MaxFaults \in Nat

Ids == 1..MaxDispatches

\* Mutant of BootOrder: the open rows are resolved first.
ReattachFirst == <<"reattach", "replay", "reap", "rehydrate", "arm", "up">>

\* The passes of startWorkerMode, in its order.
BootOrder == <<"replay", "reattach", "reap", "rehydrate", "arm", "up">>

Phases == {BootOrder[i] : i \in 1..6}
Terminal == {"completed", "failed", "cancelled"}

VARIABLES
    row,      \* status of the dispatches rows, "none" before the insert
    pidKnown, \* the rows with a host_pid
    alive,    \* the processes of agents
    call,     \* danxbot_complete of the agent: "working", "http", "db",
              \* "queue", "told"
    files,    \* the files under .danxbot/dispatch-stops
    card,     \* the issue: completed, and its dispatch block
    worker,   \* "down" or the pass of the boot the worker is in
    todo,     \* what that pass read at its start and has not visited
    job,      \* the worker's job of a dispatch
    handler,  \* its stop request
    launch,   \* dispatch() at work, for the picker or to resume "parent"
    parent,   \* parent_job_id
    timers,   \* TTL timers armed
    unseen,   \* the card has changed since reconcile looked at it
    faults,
    owed,     \* history: reports the last boot found queued and could read
    excused,  \* history: dispatches that a failed call to the database let pass
              \* or left at work unseen, and the children that resume them
    lost      \* history: rows that a write meant to close, and failed to, since
              \* the last boot

vars == <<row, pidKnown, alive, call, files, card, worker, todo, job, handler,
          launch, parent, timers, unseen, faults, owed, excused, lost>>
memory == <<todo, job, handler, launch, timers>>
record == <<row, pidKnown, files, card, unseen>>
history == <<owed, excused, lost>>

NoLaunch == [id |-> 0, parent |-> 0, step |-> "none"]

Init ==
    /\ row = [d \in Ids |-> "none"]
    /\ pidKnown = {} /\ alive = {} /\ files = {}
    /\ call = [d \in Ids |-> "working"]
    /\ card = [done |-> FALSE, block |-> 0, pid |-> FALSE]
    /\ worker = "up"
    /\ todo = {} /\ timers = {}
    /\ job = [d \in Ids |-> "none"]
    /\ handler = [d \in Ids |-> "none"]
    /\ launch = NoLaunch
    /\ parent = [d \in Ids |-> 0]
    /\ unseen = FALSE
    /\ faults = 0
    /\ owed = {} /\ excused = {} /\ lost = {}

-----------------------------------------------------------------------------
Fresh == {d \in Ids : row[d] = "none"}
NextId == CHOOSE d \in Fresh : TRUE

Fault == faults < MaxFaults /\ faults' = faults + 1

\* isDispatchOrphaned, turned round.
Live(d) == d \in pidKnown /\ d \in alive

Open == {d \in Ids : row[d] = "running"}

Cleared == [card EXCEPT !.block = 0, !.pid = FALSE]
ClearBlock == card' = Cleared /\ unseen' = TRUE

\* checkYamlDispatchLiveness: a block without a pid is dead.
BlockDead == card.block # 0 /\ (~card.pid \/ card.block \notin alive)

\* An id may have been of a launch that a crash cut short before its row.
ExcuseNext(due) ==
    excused' = IF due THEN excused \cup {NextId} ELSE excused \ {NextId}

-----------------------------------------------------------------------------
(* dispatch(): the row, the process, the pid on the card, the pid on the row *)

\* Mutant of HasLiveDispatch: the guard sees nothing.
HasNoDispatch == FALSE

\* hasLiveDispatchForCard.
HasLiveDispatch == \E d \in Open : Live(d)

\* The picker takes the card; when the guard cannot read the rows it goes on.
PickerStamps(guarded) ==
    /\ worker = "up" /\ launch = NoLaunch /\ Fresh # {}
    /\ ~card.done /\ card.block = 0
    /\ IF guarded THEN ~HasLiveDispatch /\ UNCHANGED faults ELSE Fault
    /\ ExcuseNext(~guarded)
    /\ launch' = [id |-> NextId, parent |-> 0, step |-> "begun"]
    /\ parent' = [parent EXCEPT ![NextId] = 0]
    /\ card' = [card EXCEPT !.block = NextId, !.pid = FALSE]
    /\ unseen' = TRUE
    /\ UNCHANGED <<row, pidKnown, alive, call, files, worker, todo, job,
                   handler, timers, owed, lost>>

LaunchStep(from, to) ==
    /\ launch.step = from
    /\ launch' = [launch EXCEPT !.step = to]
    /\ UNCHANGED <<call, files, worker, todo, handler, parent, faults, history>>

RowInserted ==
    /\ LaunchStep("begun", "inserted")
    /\ row' = [row EXCEPT ![launch.id] = "running"]
    /\ UNCHANGED <<pidKnown, alive, card, unseen, job, timers>>

Spawned ==
    /\ LaunchStep("inserted", "spawned")
    /\ alive' = alive \cup {launch.id}
    /\ job' = [job EXCEPT ![launch.id] = "core"]
    /\ UNCHANGED <<row, pidKnown, card, unseen, timers>>

\* pairedWriteHostPid: the card first, as it is by now.
CardPaired ==
    /\ LaunchStep("spawned", "paired")
    /\ card' = [card EXCEPT !.block = launch.id, !.pid = TRUE]
    /\ unseen' = TRUE
    /\ UNCHANGED <<row, pidKnown, alive, job, timers>>

\* The row takes the pid; dispatch() arms the timer with no look at the job.
RowPaired ==
    /\ LaunchStep("paired", "linked")
    /\ pidKnown' = pidKnown \cup {launch.id}
    /\ timers' = timers \cup {launch.id}
    /\ UNCHANGED <<row, alive, card, unseen, job>>

\* The picker's call is over; a resume closes the parent's row.
Launched ==
    /\ launch.step = "linked"
    /\ launch' = NoLaunch
    /\ IF launch.parent = 0 THEN UNCHANGED <<row, todo>>
       ELSE /\ row' = [row EXCEPT ![launch.parent] = "cancelled"]
            /\ todo' = todo \ {launch.parent}
    /\ UNCHANGED <<pidKnown, alive, call, files, card, worker, job, handler,
                   parent, timers, unseen, faults, history>>

\* That write fails, and the parent is marked as an orphan if the next one does
\* not fail too.
LaunchedUnlinked ==
    /\ launch.step = "linked" /\ launch.parent # 0 /\ Fault
    /\ launch' = NoLaunch
    /\ todo' = todo \ {launch.parent}
    /\ \/ row' = [row EXCEPT ![launch.parent] = "failed"] /\ UNCHANGED lost
       \/ lost' = lost \cup {launch.parent} /\ UNCHANGED row
    /\ UNCHANGED <<pidKnown, alive, call, files, card, worker, job, handler,
                   parent, timers, unseen, owed, excused>>

\* The card or the row cannot be paired: what the database still lets be
\* written is taken back.  The process is only sent a kill, which nothing waits
\* for and which may fail (AgentDies, or the reaper).
PairRollsBack ==
    LET failing == {launch.id, launch.parent} \ {0} IN
    /\ launch.step \in {"spawned", "paired"} /\ Fault
    /\ launch' = NoLaunch
    /\ job' = [job EXCEPT ![launch.id] = "none"]
    /\ \E open \in SUBSET failing :
          /\ row' = [d \in Ids |-> IF d \in failing \ open THEN "failed" ELSE row[d]]
          /\ lost' = lost \cup open
    /\ todo' = todo \ {launch.parent}
    /\ \/ ClearBlock /\ (launch.step = "paired" \/ launch.parent = 0)
       \/ UNCHANGED <<card, unseen>>
    /\ excused' = excused \cup {launch.id}
    /\ UNCHANGED <<pidKnown, alive, call, files, worker, handler, parent, timers,
                   owed>>

-----------------------------------------------------------------------------
(* The end of a job in the worker.                                          *)

\* Mutant of JobOver: a job attached again has no tracker.
JobOverUntracked(d, status) ==
    /\ job' = [job EXCEPT ![d] = "none"]
    /\ row' = IF job[d] = "core" THEN [row EXCEPT ![d] = status] ELSE row
    /\ UNCHANGED <<faults, lost>>

\* The tracker closes the row, and says nothing when it cannot.
JobOver(d, status) ==
    /\ job' = [job EXCEPT ![d] = "none"]
    /\ \/ row' = [row EXCEPT ![d] = status] /\ UNCHANGED <<faults, lost>>
       \/ Fault /\ lost' = lost \cup {d} /\ UNCHANGED row

\* onComplete of dispatch() drops the timer and that of the picker clears
\* whatever block the card carries.
OnComplete(d) ==
    /\ timers' = IF job[d] = "core" THEN timers \ {d} ELSE timers
    /\ IF job[d] = "core" /\ parent[d] = 0 /\ card.block # 0
       THEN ClearBlock ELSE UNCHANGED <<card, unseen>>

\* The process is gone; its exit code gives the status.
JobEnds(d) ==
    /\ job[d] # "none" /\ d \notin alive /\ handler[d] = "none"
    /\ \E status \in {"completed", "failed"} : JobOver(d, status)
    /\ OnComplete(d)
    /\ UNCHANGED <<pidKnown, alive, call, files, worker, todo, handler, launch,
                   parent, owed, excused>>

\* handleStop and handleStopFromDb up to the stamp on the card.
StopBegins(d) ==
    /\ worker = "up" /\ d \in alive /\ call[d] = "http" /\ handler[d] = "none"
    /\ job[d] # "none" \/ row[d] = "running"
    /\ handler' = [handler EXCEPT ![d] = IF job[d] # "none" THEN "live" ELSE "row"]
    /\ card' = [Cleared EXCEPT !.done = TRUE]
    /\ unseen' = TRUE
    /\ UNCHANGED <<row, pidKnown, alive, call, files, worker, todo, job, launch,
                   parent, timers, faults, history>>

\* A closed row is answered as it is.
StopAnswered(d) ==
    /\ worker = "up" /\ d \in alive /\ call[d] = "http" /\ handler[d] = "none"
    /\ job[d] = "none" /\ row[d] \in Terminal
    /\ call' = [call EXCEPT ![d] = "told"]
    /\ UNCHANGED <<alive, worker, memory, record, parent, faults, history>>

\* job.stop kills the process; the other route only closes the row ...
StopEnds(d) ==
    /\ handler[d] # "none"
    /\ handler' = [handler EXCEPT ![d] = "none"]
    /\ call' = [call EXCEPT ![d] = "told"]
    /\ IF handler[d] = "live"
       THEN JobOver(d, "completed") /\ alive' = alive \ {d} /\ OnComplete(d)
       ELSE /\ row' = [row EXCEPT ![d] = "completed"]
            /\ UNCHANGED <<alive, job, timers, card, unseen, faults, lost>>
    /\ UNCHANGED <<pidKnown, files, worker, todo, launch, parent, owed, excused>>

\* ... and answers with an error when it cannot.
StopFails(d) ==
    /\ handler[d] = "row" /\ Fault
    /\ handler' = [handler EXCEPT ![d] = "none"]
    /\ call' = [call EXCEPT ![d] = IF @ = "http" THEN "db" ELSE @]
    /\ UNCHANGED <<record, alive, worker, todo, job, launch, timers, parent,
                   history>>

-----------------------------------------------------------------------------
(* The agent: callDanxbotComplete and its fallbacks.                        *)

AgentStep(d, from, to) ==
    /\ d \in alive /\ call[d] = from
    /\ call' = [call EXCEPT ![d] = to]
    /\ UNCHANGED <<alive, worker, memory, pidKnown, card, unseen, parent,
                   history>>

\* The agent is done, which takes it longer than its launch.
AgentReports(d) ==
    /\ launch.id # d
    /\ AgentStep(d, "working", "http")
    /\ UNCHANGED <<row, files, faults>>

\* The server listens once the boot is over; it may answer with an error.
StopUnreachable(d) ==
    /\ IF worker # "up" THEN UNCHANGED faults ELSE handler[d] = "none" /\ Fault
    /\ AgentStep(d, "http", "db")
    /\ UNCHANGED <<row, files>>

\* tryDirectDbWrite: a closed row is left as it is.
DbWritten(d) ==
    /\ row[d] = "running"
    /\ AgentStep(d, "db", "told")
    /\ row' = [row EXCEPT ![d] = "completed"]
    /\ UNCHANGED <<files, faults>>

\* No row was updated, for it was closed or the database is away.
DbRefused(d) ==
    /\ IF row[d] = "running" THEN Fault ELSE UNCHANGED faults
    /\ AgentStep(d, "db", "queue")
    /\ UNCHANGED <<row, files>>

\* writeFsQueueEntry.
Queued(d) ==
    /\ AgentStep(d, "queue", "told")
    /\ files' = files \cup {d}
    /\ UNCHANGED <<row, faults>>

\* Of itself, or by the kill that was sent after a launch was taken back; its
\* call, if it was in one, is over.
AgentDies(d) ==
    /\ d \in alive
    /\ alive' = alive \ {d}
    /\ call' = [call EXCEPT ![d] = "told"]
    /\ UNCHANGED <<worker, memory, record, parent, faults, history>>

-----------------------------------------------------------------------------
(* The end of the worker, and its boot.                                     *)

\* Mutant of Forget: the timers survive.
ForgetJobs ==
    /\ worker' = "down" /\ todo' = {} /\ timers' = timers
    /\ job' = [d \in Ids |-> "none"] /\ handler' = [d \in Ids |-> "none"]
    /\ launch' = NoLaunch

Forget ==
    /\ worker' = "down" /\ todo' = {} /\ timers' = {}
    /\ job' = [d \in Ids |-> "none"] /\ handler' = [d \in Ids |-> "none"]
    /\ launch' = NoLaunch

Crash ==
    /\ worker # "down" /\ Fault
    /\ Forget
    /\ UNCHANGED <<row, pidKnown, alive, call, files, card, unseen, parent,
                   history>>

\* SIGTERM: shutdown stops every running job as failed, as far as the rows can
\* be written, and their onComplete runs.
Shutdown ==
    LET running == {d \in Ids : job[d] # "none"} IN
    /\ worker # "down" /\ running # {} /\ Fault
    /\ Forget
    /\ alive' = alive \ running
    /\ \E closed \in SUBSET running :
          row' = [d \in Ids |-> IF d \in closed THEN "failed" ELSE row[d]]
    /\ IF \E d \in running : job[d] = "core" /\ parent[d] = 0
       THEN ClearBlock ELSE UNCHANGED <<card, unseen>>
    /\ UNCHANGED <<pidKnown, call, files, parent, history>>

\* What a pass reads at its start.
Worklist(phase) ==
    CASE phase = "replay" -> files
      [] phase = "reattach" -> Open
      [] phase = "reap" -> alive
      [] OTHER -> {}

Enter(phase) ==
    /\ worker' = phase
    /\ todo' = Worklist(phase)

\* reconcile's skip-cache is empty again.
BootBegins ==
    /\ worker = "down"
    /\ Enter(BootOrder[1])
    /\ owed' = files \cap Open
    /\ lost' = {}
    /\ unseen' = TRUE
    /\ UNCHANGED <<row, pidKnown, alive, call, files, card, job, handler,
                   launch, parent, timers, faults, excused>>

PassOver ==
    /\ todo = {} /\ launch = NoLaunch
    /\ \E i \in 1..3 : worker = BootOrder[i] /\ Enter(BootOrder[i + 1])
    /\ UNCHANGED <<alive, call, job, handler, launch, timers, record, parent,
                   faults, history>>

Visit(phase, d) ==
    /\ worker = phase /\ d \in todo /\ launch = NoLaunch
    /\ UNCHANGED <<call, worker, handler>>

Visited(d) == todo' = todo \ {d}

\* replayStopQueue: the report closes an open row; the file goes.
Replay(d) ==
    /\ Visit("replay", d) /\ Visited(d)
    /\ row' = IF row[d] = "running" THEN [row EXCEPT ![d] = "completed"] ELSE row
    /\ files' = files \ {d}
    /\ UNCHANGED <<pidKnown, alive, card, unseen, job, launch, parent, timers,
                   faults, history>>

\* The row cannot be read or written: the file stays for the next boot.
ReplayFails(d) ==
    /\ Visit("replay", d) /\ Visited(d)
    /\ owed' = owed \ {d}
    /\ UNCHANGED <<record, alive, job, launch, parent, timers, faults, excused,
                   lost>>

\* attemptAutoResume's gates.
Resumable(d) == d \in pidKnown /\ ~card.done /\ card.block = d /\ Fresh # {}

\* The process lives: the monitoring stack is attached to it, or its session
\* log is gone and the row closed over it.
Reattach(d) ==
    /\ Visit("reattach", d) /\ Visited(d)
    /\ Live(d)
    /\ \/ /\ job' = [job EXCEPT ![d] = "reattached"]
          /\ UNCHANGED row
       \/ /\ row' = [row EXCEPT ![d] = "failed"]
          /\ UNCHANGED job
    /\ UNCHANGED <<pidKnown, alive, files, card, unseen, launch, parent, timers,
                   faults, history>>

\* The process is dead: a child takes the session over.
AutoResume(d) ==
    /\ Visit("reattach", d)
    /\ ~Live(d) /\ Resumable(d)
    /\ launch' = [id |-> NextId, parent |-> d, step |-> "begun"]
    /\ parent' = [parent EXCEPT ![NextId] = d]
    /\ ExcuseNext(d \in excused)
    /\ UNCHANGED <<record, alive, todo, job, timers, faults, owed, lost>>

\* No session was recorded, or the card has moved on.
Orphaned(d) ==
    /\ Visit("reattach", d) /\ Visited(d)
    /\ ~Live(d)
    /\ row' = [row EXCEPT ![d] = "failed"]
    /\ UNCHANGED <<pidKnown, alive, files, card, unseen, job, launch, parent,
                   timers, faults, history>>

\* The row cannot be written.  One without a pid hides its agent, if it has one.
ResolveFails(d) ==
    /\ Visit("reattach", d) /\ Visited(d) /\ Fault
    /\ lost' = lost \cup {d}
    /\ excused' = excused \cup ({d} \ pidKnown)
    /\ UNCHANGED <<record, alive, job, launch, parent, timers, owed>>

\* The rows cannot be read: the pass is left out.
ReattachFails ==
    /\ worker = "replay" /\ todo = {} /\ Fault
    /\ Enter("reap")
    /\ lost' = lost \cup Open
    /\ excused' = excused \cup (Open \ pidKnown)
    /\ UNCHANGED <<record, alive, call, job, handler, launch, parent, timers,
                   owed>>

\* reapOrphans: a process whose row is closed is killed.
Doomed(d) == row[d] # "running"

Reap(d) ==
    /\ Visit("reap", d) /\ Visited(d)
    /\ alive' = IF Doomed(d) THEN alive \ {d} ELSE alive
    /\ UNCHANGED <<record, job, launch, parent, timers, faults, history>>

\* The row cannot be read.
ReapSkips(d) ==
    /\ Visit("reap", d) /\ Visited(d) /\ Fault
    /\ excused' = excused \cup {d}
    /\ UNCHANGED <<record, alive, job, launch, parent, timers, owed, lost>>

\* bootRehydrate, step 1 ...
Rehydrate ==
    /\ worker = "rehydrate"
    /\ Enter("arm")
    /\ IF BlockDead THEN ClearBlock ELSE UNCHANGED <<card, unseen>>
    /\ UNCHANGED <<row, pidKnown, alive, call, files, job, handler, launch,
                   parent, timers, faults, history>>

\* ... and step 2, scanAndArmTtlTimers.
ArmTimers ==
    /\ worker = "arm"
    /\ Enter("up")
    /\ timers' = timers \cup {d \in Open : Live(d)}
    /\ UNCHANGED <<alive, call, job, handler, launch, record, parent, faults,
                   history>>

-----------------------------------------------------------------------------
(* A worker at work.                                                        *)

\* The reaper of the cron tick.
CronReap(d) ==
    /\ worker = "up" /\ d \in alive /\ Doomed(d)
    /\ alive' = alive \ {d}
    /\ UNCHANGED <<call, worker, memory, record, parent, faults, history>>

\* The handler clears the block, whichever dispatch it is of.
TtlExpires(d) ==
    /\ d \in timers /\ d \notin alive
    /\ timers' = timers \ {d}
    /\ IF card.block # 0 THEN ClearBlock ELSE UNCHANGED <<card, unseen>>
    /\ UNCHANGED <<row, pidKnown, alive, call, files, worker, todo, job, handler,
                   launch, parent, faults, history>>

\* Step 3d of reconcile; a card it has seen before is skipped.
Reconcile ==
    /\ worker \in {"rehydrate", "arm", "up"} /\ unseen
    /\ unseen' = FALSE
    /\ card' = IF BlockDead THEN Cleared ELSE card
    /\ UNCHANGED <<row, pidKnown, alive, call, files, worker, memory, parent,
                   faults, history>>

-----------------------------------------------------------------------------
AgentNext(d) ==
    \/ AgentReports(d) \/ StopUnreachable(d) \/ DbWritten(d) \/ DbRefused(d)
    \/ Queued(d) \/ AgentDies(d)
LaunchNext == RowInserted \/ Spawned \/ CardPaired \/ RowPaired \/ Launched
BootNext(d) ==
    \/ Replay(d) \/ Reattach(d) \/ AutoResume(d) \/ Orphaned(d) \/ Reap(d)
WorkerNext(d) ==
    \/ JobEnds(d) \/ StopBegins(d) \/ StopAnswered(d) \/ StopEnds(d)
    \/ CronReap(d) \/ TtlExpires(d)
Boots == BootBegins \/ PassOver \/ Rehydrate \/ ArmTimers
Faulty(d) == ReplayFails(d) \/ ReapSkips(d) \/ ResolveFails(d) \/ StopFails(d)

Progress ==
    \/ LaunchNext \/ Boots \/ Reconcile
    \/ \E d \in Ids : AgentNext(d) \/ BootNext(d) \/ WorkerNext(d)

Next ==
    \/ Progress
    \/ \E d \in Ids : Faulty(d)
    \/ \E guarded \in BOOLEAN : PickerStamps(guarded)
    \/ PairRollsBack \/ LaunchedUnlinked \/ ReattachFails \/ Crash \/ Shutdown

Spec == Init /\ [][Next]_vars

\* The supervisor starts the worker again, an agent ends its call or dies, and
\* the worker's queues, timers and ticks come round; none of it can go on for
\* ever, so it is enough that something of it happens while it can.
Fairness == WF_vars(Progress)
FairSpec == Spec /\ Fairness

-----------------------------------------------------------------------------
\* The types, and that a worker that is down holds nothing in memory.
TypeOK ==
    /\ row \in [Ids -> Terminal \cup {"none", "running"}]
    /\ pidKnown \subseteq Ids /\ alive \subseteq Ids /\ files \subseteq Ids
    /\ call \in [Ids -> {"working", "http", "db", "queue", "told"}]
    /\ card \in [done: BOOLEAN, block: Ids \cup {0}, pid: BOOLEAN]
    /\ worker \in Phases \cup {"down"}
    /\ todo \subseteq Ids /\ timers \subseteq Ids
    /\ job \in [Ids -> {"none", "core", "reattached"}]
    /\ handler \in [Ids -> {"none", "live", "row"}]
    /\ launch \in [id: Ids \cup {0}, parent: Ids \cup {0},
                   step: {"none", "begun", "inserted", "spawned", "paired", "linked"}]
    /\ parent \in [Ids -> Ids \cup {0}]
    /\ unseen \in BOOLEAN /\ faults \in 0..MaxFaults
    /\ owed \subseteq Ids /\ excused \subseteq Ids /\ lost \subseteq Ids
    /\ worker = "down" => /\ todo = {} /\ timers = {} /\ launch = NoLaunch
                          /\ \A d \in Ids : job[d] = "none" /\ handler[d] = "none"

\* Once the boot is over one agent at most is at work on the card, whatever
\* crashes, resumes and expired timers went before.  Only a failed call to the
\* database makes a second one possible: a guard or a reaper that could not read,
\* a row without a pid that could not be closed, or a launch taken back whose
\* process is still to be killed; and a resume passes that on to the child
\* (guardLiveDispatchForCard, reapOrphans, pairedWriteHostPid).
AtWork == {d \in alive : call[d] # "told"}
OneAgentOnceUp == worker = "up" => Cardinality(AtWork \ excused) <= 1

\* A report that was queued when the worker booted is what its row says from
\* the reaper on: no pass closed it with a reason of its own, unless the replay
\* could not reach the database (index.ts 322-329).
QueuedReportWins ==
    worker \in {"reap", "rehydrate", "arm", "up"} =>
        \A d \in owed : row[d] = "completed"

\* In the end no process is left, and no open row but those a write was meant to
\* close since the last boot and could not, which wait for the next one; and as
\* long as nothing went wrong the card is free again.
Settled ==
    /\ alive = {} /\ Open \subseteq lost
    /\ faults = 0 => card.block = 0
EventuallySettled == <>[]Settled
=============================================================================
