# Danxbot in TLA+

Danxbot runs AI coding agents against a board of cards. A worker process per repository picks
cards, spawns one `claude` process per card, watches it, and records what became of it; a
dashboard shows the rows; a tracker (Trello) mirrors the cards. This directory holds TLA+ models
of the worker's dispatch core, the TLC configurations that check them, and TLAPS proofs.

All paths below are relative to `src/src/` of the repository unless they begin with `src/`.

## 1. Inventory

### Components, their state and how they interact

| Component | State | Operations | Talks to |
|---|---|---|---|
| Picker gate (`dispatch/scheduler.ts`) | `pickersByRepo`, `pendingPokes`, `pendingRosterPokes`, `pickerInflight`, `pendingTailRun` | `bootScheduler`, `onReconcileResult`, `onAgentRosterChange`, `onDispatchTerminated`, `kickPickerOnceAtBoot`, `runWithPickerMutex`, `firePickerWithMutex` | called by reconcile, the roster watcher, the stop route, cron; calls the picker |
| Picker tick (`poller/multi-agent-pick.ts`, `pick-agent.ts`) | snapshots of cards, roster, busy agents; `assigned_agent` and `dispatch` of card files | pass A (owned cards), pass B (card first), `attemptDispatch` (guard, lock, stamps, spawn) | tracker lock, card files, `dispatch()` |
| Tracker lock (`issue-tracker/lock.ts`) | one comment on the tracker card | `tryAcquireLock`, `releaseLock` | picker tick; `dispatch/core.ts` on completion |
| Dispatch (`dispatch/core.ts`) | `activeJobs`, `resumeCount`, `respawnInProgress`, `lockReleased` | `dispatch`, `runResolved`, `spawnForDispatch`, `onStall`, `onComplete`, eviction | agent job, tracker lock, TTL timer, dispatches row |
| Agent job (`agent/*`) | `job.status`, process handle, watcher, timers, cleanup promise | spawn, exit, `stop`, `cancelJob`, timers, API-error recover, rate-limit throttle, heartbeat | dispatches row, status endpoint, `/api/resume`, CRITICAL_FAILURE file |
| Dispatches rows (`dashboard/dispatch-tracker.ts`, `dispatches-db.ts`) | one row per dispatch | insert, token updates, `finalize` | read by busy-agents, the live-dispatch guard, reattach |
| Stop route and fallback (`worker/dispatch.ts`, `mcp/*`, `worker/replay-*`) | queue files | `handleStop`, `handleStopFromDb`, offline queue, replay at boot | agent job or the row alone |
| TTL and triage timers (`dispatch/ttl-timer.ts`, `triage-timer.ts`) | armed timers by dispatch or card | arm, re-arm, expire, boot scan | card files, reconcile |
| Reattach and restart (`worker/reattach*.ts`, `restart*.ts`) | rows of the previous process | adopt, resume, reap; drain and restart | agent job, rows, picker |
| Issue reconcile (`issue/reconcile.ts`, `db/issues-mirror.ts`, `poller/yaml-lifecycle.ts`) | YAML file, database mirror, per-card mutex and skip-cache | reconcile of a card, its parent and its dependents; file events, sweep, boot scan; write route, clear and stamp | scheduler, tracker sync |
| Derived status, gates and moves (`issue/derive-status.ts`, `effective-*.ts`, `list-move.ts`, `reconcile/parent.ts`) | none (pure) | status, parent's rollup, move of the board, blocked, waiting-on, conflict-on | reconcile, picker, dashboard |
| Agents' records (`settings-file.ts`, `agent/strikes.ts`) | settings.json, its lock file, one queue of writes per process | `mutateAgents`, strikes, resets, breaks, create and delete | worker, dashboard, picker |
| Evaluator and sync repair (`agent/evaluator-dispatcher.ts`, `sync-repair-dispatcher.ts`) | the evaluation bound to a break | on a break: spawn, summary, end, re-run; repair of a worktree | agents' records, `dispatch()` |
| Tracker sync (`issue-tracker/sync.ts`, `retry-queue.ts`, `circuit-breaker.ts`) | queue files, breaker | push, retry with backoff, open and half-open | tracker |
| Cron (`cron/*`) | last-run times, in-flight flags | sync and audit, inbound fetch, worker loop, self repair, orphan reaping | picker gate, rows |
| Critical failure (`critical-failure.ts`) | one flag file | halt, throttle with `resume_at`, clear | read before every tick |
| Slack, thread pool, system repair | queues and pools | enqueue, drain, dispatch | `dispatch()` |
| Dashboard, worktrees, preflights, workspaces, template build, skill evaluation | configuration, rendered files, provisioned resources | HTTP, rendering, git and Docker calls | the above |

### Hard behaviours

* The worker is one event loop: between two awaits a handler is atomic, across an await anything
  may run. Most of the code reads, awaits, and then writes: that is where the hazards are.
* A worker can die at any time. What survives: card files, rows, queue files, the tracker, and
  the agent processes themselves.
* Several workers (a laptop, a server) poll the same tracker; only the lock comment keeps them
  apart, and a comment is no compare-and-swap.
* The worker and the dashboard are two processes that write the same settings file.
* A tracker call may be refused, rate-limited, or applied with its answer lost.
* A reconcile keeps its card's mutex while it waits for the reconciles of other cards.
* Six sources ask for picker runs; a lost request leaves a card until the sweep, a doubled one
  dispatches twice.
* A job can be ended by its own exit, an agent's stop, an operator's cancel, two timers, a stall,
  an API error, a rate limit and a rolled-back launch, in any overlap.

`PROJECT.json` lists the hazards at their lines with the properties that cover them, and names those
that no property covers. Four smaller ones are only told here: the live stop route does not await
its Blocked stamp (`worker/dispatch.ts:1957`), a failed spawn in docker mode leaves a job that only
its timers end (`agent/spawn-docker-mode.ts:85`), a recover posts its resume after the job may have
ended (`agent/attach-monitoring-stack.ts:600`), and a job's owner is told while temp directories are
still being reaped (`agent/process-utils.ts:209`). That the picker never runs without a request, a
dispatch never releases its lock twice, and a report never precedes the row are theorems without
a run.

### What makes each part correct

* Picker gate: runs of a repo never overlap; a request is always followed by a run that starts
  after it; no run without a request.
* Lock: at most one worker works on a card (as far as a read followed by a write can promise);
  a crashed holder does not block the card for ever.
* Job: torn down once, row and status agree, reported after the row is final, owner always told.
* Dispatch: lock released once and in the end, one process, a stop finds it.
* Picker tick: an agent has one live dispatch, a card has one live dispatch, an owned card stays
  with its owner, a tick ends.
* Reconcile: one at a time per card, waiting in a circle only where the cards do; nothing is skipped
  that had to be done, it comes to rest, a parent ends up showing its children, and the file readers
  take is in the bucket of its column and in the mirror, also where a second copy was left.
* Stop, replay and reattach: one agent at work on a card however often the worker crashes, and a
  report that was queued decides how its row ends.
* Outbound mirror: nothing dropped before its attempts are used, an older write never the last one,
  one retro comment per card.
* Agents' records: no write lost between two processes, a break lifted only by a person or the
  repair it asked for, an agent that struck out evaluated in the end.

## 2. Plan

In order of importance.

1. `PickerMutex` with its abstract specification `PickerDemand` and proofs. **Built.**
2. `DispatchLock`: the tracker lock among workers, with proofs. **Built.**
3. `AgentJob`: one job and all that ends it, with proofs. **Built.**
4. `DispatchRun`: the chain of jobs of one dispatch, using a job as four states, with proofs.
   **Built.**
5. `MultiAgentPick` with its abstract specification `Assignment`: the tick (reads, heal, pass A, pass B, the phases of `attemptDispatch`, the
   completion that clears the dispatch block) among agents, completions, reconcile and an operator,
   with proofs. It takes from 1 that ticks of a repo do not overlap and from 2 how the lock phase
   may end. **Built.**
6. `OutboundPush`: push, retry queue and breaker over an unreliable tracker, with proofs. **Built.**
7. `CardState`, the pure part of reconcile, and `IssueReconcile`: mirror, mutex, skip-cache and
   recursion among writers of the cards, with proofs of both. **Built.**
8. `DispatchRecovery`: restart, reattach, reaper, replay, TTL timers and the stop fallback of a
   card's dispatches, with proofs. **Built.**
9. `AgentStrikes`: the settings file between two processes, strikes, evaluator and repair, with
   proofs. **Built.**
10. Left: `WorkerRestart` (drain and finalize), the prep verdict's offline queue, `CriticalFailure`
    (flag and throttle), `SlackQueue`, `ThreadPool`, `CronLoop`, id allocation, the cascade of list
    moves, worktrees as far as they hold state of their own.

Every invariant and action property of a passing run is proved. What proofs could still say: that a
dispatch seen through `DispatchRun` implements one job of `AgentJob`.

## 3. Modules

### PickerMutex, PickerDemand, PickerMutexProofs

The variables carry the names of the sets in `scheduler.ts`. `immediates` counts the
`setImmediate` callbacks that are queued, per repo and kind. One action per function: an action is
the synchronous code of a handler; an awaited picker run is the interval between `BeginRun` and
`SettleRun`. `asked`, `served` and `started` are history: requests made, requests made before the
last run began, runs begun. `PickerDemand` is the promise alone: what is asked of a
registered picker stays owed until a run starts or the picker is unregistered, and a run never
starts beside another. `PickerMutex` implements it (`ImplementsDemand`): a repo is owed a run when
its picker is registered and `served` is behind `asked`, and is running when `runs` is positive.

### DispatchLock

One card, its comments as a sequence, workers with a host each. `ReadForAcquire` and `Acquire`
are the two tracker calls of `tryAcquireLock`; between them other workers, ageing, edits and
crashes take place. The decision is the three named rules of the code: stale, mine, same host and
dead pid. A release reads and then edits, and is not awaited by the code, so it sits in
`releases` until it lands or fails. `excused` records that the one thing the lock cannot exclude
has happened: a write landed on comments that changed since they were read, a running dispatch
outlived the TTL, or a person edited the comment. The invariants are stated up to that.

A worker that dies may leave its agent alive (host mode; `poller/multi-agent-pick.ts:455-468`): such
a run is in `survivors`, and its end releases nothing, since a re-attached job has no `onComplete`
(`worker/reattach.ts:230`). The comment carries the worker's pid, not the agent's (`lock.ts:489`), so
a worker of the same host, the restarted one included, reclaims the record beside the living agent.
What stands against that in the picker is the live-dispatch guard in front of the lock; it asks the
database of its own environment and lets the card through when the query fails, so the model leaves it
out. A run whose record was taken in this way is `overtaken`, and the invariants are about every
other run: no other host gets at the card of a surviving agent before somebody of its own host does.

### AgentJob

One job. Handlers that await are split at each await: the close handler into notice, drain and
record; `stop` into kill, cleanup, report; recover into count, stop, post. `calls` has one entry
per caller that tears the tree down. `cleanup` is the shared promise of `runCleanup`, `row` the
column in the database whose write may be rejected. `AgentProofs` holds the proofs of this module and
of `AgentStrikes`; the two share a name space there, which is why the job's names begin with `Job`.

### DispatchRun

One dispatch: `jobs[1]` and the jobs that stalls spawn after it. A job is running, draining
(its exit was noticed), stopping or over; the inside is `AgentJob`'s. `active` is the entry of
`activeJobs`, `respawnInProgress` and `lockReleased` are the closure's two flags.

A job that ends while the recover handler records its count makes `PostResume` possible before the
row is final, and the close handler tells the owner while the cleanup still drains: the model has
both, and no run is spent on them.

### MultiAgentPick, Assignment, MultiAgentPickProofs

One repo's tick, from the two lists `runPicker` reads to the convergence check, one action per
await. `cards` is `remainingCards` with the cards as they were read; `openIssues`, `brokenSeen`,
`assigned` and `busy` are the tick's other snapshots; `at` is how far the pass has walked; `attempt`
holds the arguments of the `attemptDispatch` that is running, whose phases are the values of `pc`
from `guard` to `failed`. `issue` is a card, file and mirror together; `run` holds, per dispatch id,
the row, the process and whether `onComplete` has run: the three end in any order that begins with
the process. Around the tick, at any step, an agent completes or blocks its card, releases cards
when it was sent to sort them out, or exits; rows are finalized and completions run; reconcile clears
the owner of a blocked card; the operator finishes and unblocks cards and repairs worktrees.

`Assignment` is the promise alone, with neither cards nor snapshots: dispatches that keep an agent, and
those whose agent is at work. Work begins with an agent that has none, and on a guarded card only when
nobody is at work on it; it stops once, and the agent is free again after that. `MultiAgentPick`
implements it (`ImplementsAssignment`): a dispatch keeps its agent while its row is open, its agent is at
work while the process lives, and the tracked cards are the guarded ones.

What is abstracted. A card is its column, whether it carries a dispatch block, its owner and whether
it is blocked; `waiting_on`, `requires_human`, epics and archived cards gate the same way as
`blocked`, and the card simply is not dispatchable. The column is `ready` once `ready_at` is set,
because `deriveStatus` then never looks at the status on disk. File and mirror are written as one
(the watcher's lag belongs to `IssueReconcile`). The two stamps are one step, as nothing that runs
between them reads what the first writes, except that either may fail. A stamp of an agent who was
deleted from the roster exists from the start and is not added while the worker runs. The heal's own
write failure, which ends the tick, is left out, and so are the guard's fail-open path on a
database error and repositories without a tracker. What else a finished card carries is dropped.

### CardState

Pure operators over a document: its status on disk, which lifecycle timestamps are set, whose
dispatch block it carries, whether it is blocked and owned. `DeriveStatus` is `deriveStatus`,
`DeriveParentStatus` the column children give a parent, `ApplyListMove` a move on the board, and
`Projected` the five heals and the rollup of reconcile in the order of its steps. Times are only set
or not set, except for one: `finished` tells the reports of an agent apart, by the edit that made
them, as `completed_at` and `cancelled_at` do in the digest of the skip-cache. Without it a card that is
closed, reopened and closed again would look to the cache like the card it was before, and
`SkipSound` fails from the third edit on. History entries, comments and the tracker's ids are left
out.

### IssueReconcile, MCIssueReconcile, IssueReconcileProofs

A thread is one chain of awaits: a handler of file events or of a parent's call, or the sweep. Its
`stack` holds a frame per reconcile it is in, as `reconcileBody` calls itself for the parent and the
dependents with its own mutex still held; `at` is the await a frame is in, `doc` what it has read.
`file` and `db` are the YAMLs and the mirror, `watch` the file events to come, `skip` the skip-cache
with the digest of the children. Every write of a YAML (by reconcile, agents, the picker, the
operator) is followed by a file event at any later time. The graph of cards is fixed. `InHand` and
`WaitsFor` say which card a thread has and for whom it waits.

A card can have a file in both buckets. `file` is the one readers take ("open wins" in `loadYaml`),
`closed` the cards without one in the open bucket, and `hidden` the copy beneath in the closed one.
`Write` follows step 5: the open file is written first; when the card closes it is moved over whatever
the closed bucket has (`Alone`); when it was read from the closed bucket the copy there is unlinked,
or not, as the failure is only logged; and a copy that another process moved there in the meantime stays
(`Hides`), so that person's move to Done is undone by the older document. An operator's write
(`Saved`) is likewise in place, moved, or moved with the old copy still there. A worker may die
between the write and the move (`Interrupted`); the boot mirrors the open bucket first and the closed
one last, so the mirror then shows the copy nobody reads, until the sweep comes to the open one. A
file event is of a path: the model lets it be of either copy, also of the one that did not change.

### OutboundPush, OutboundPushProofs

One issue. `disk` is its YAML, `skip` and `cache` the two caches that decide whether step 7 pushes,
`slot` the per-card push slot, `file` and `armed` the retry queue on disk and its timers. A caller of
`syncIssue` (the slot or a queue entry) takes its turn in `queue`, reads the YAML then, and makes its
requests one by one; each may succeed, be refused by the breaker, or fail as `FaultKinds` says.
`remote` is what the tracker holds, a lost answer to a create included. `private` are the lists without
a Trello mapping, and a revision of the card is on a list of its own: `PushSkipped` is `doPush` leaving
at `resolveTrelloListMapping`, after which reconcile stamps `lastPushedHash` as if it had pushed. The
retry asks for no mapping. `excuse` names the four ways a push is given up: the sync disabled, the
attempts used up, a list without a mapping, a closed card after a restart.

### DispatchRecovery, DispatchRecoveryProofs

One card's dispatches, each with its row, its process and its agent's report, and one worker that
boots, works, shuts down and dies. `worker` is the pass of the boot the worker is in (`BootOrder`, the
order of `startWorkerMode`); `todo` is what the pass read when it began. A launch is cut at each
await: row, spawn, pid on the card, pid on the row, timer. An agent reports by the stop route, then
by the row, then by a queue file. `owed`, `excused` and `lost` are history: reports the last boot
found queued and could read; dispatches that a failed call to the database let past the guard or left
at work unseen, with the children that resume them; and rows that a write meant to close, and failed
to, since the last boot. Every write that closes a row may fail, because the code only logs it: at the
end of a job (`JobOver`), in the passes of the boot (`ResolveFails`, `ReattachFails`,
`LaunchedUnlinked`), in the stop route (`StopFails`), and in a launch whose pid could not be paired.
That launch (`PairRollsBack`) clears the card and lets go of a process which is still alive: it ends
by `AgentDies`, when the signal nobody waits for has landed, or by the reaper. A child inherits the excuse: with three dispatches it made no difference, the
attempt to prove `OneAgentOnceUp` for any number showed that with four the resumed child of an
excused dispatch works beside the one it was excused from.

### AgentStrikes

One agent's record in settings.json. A write is the steps of `mutateAgents`: open the lock file,
read, write and release; a process has one under way and queues the others, as `enqueueWrite` does.
What happens after a write settles is part of its last step (`Settled`): the transition is announced,
the evaluator is spawned, the dispatch fails. Between opening the lock and the read there are awaits;
from the read to the release the process runs through, but the other process does not stop for it,
so the two are steps. `robbed` is history: a process unlinked a lock that was not the leftover it had
seen. Of the record, the strike history, the reason and the schedule are left out; the second
settings file (drift) and the roster's other agents too.

## 4. Runs

| Run | Instance | Shows |
|---|---|---|
| `picker` | 2 repos, 3 requests each, 2 queued callbacks of a kind | single flight, no lost request, refinement of the demand, every request served |
| `lock` | 2 workers of one host, 3 dispatch ids, 1 crash, 1 release in flight | the lock excludes while nothing excuses it, the running dispatch is on record, the card is worked on again |
| `job` | docker and host, 1 recover, failing writes and launches | one teardown, row and status agree, the owner is told |
| `job_override` | docker | **violated**: the exit code overrides a stop that landed inside the drain |
| `dispatch_run` | 3 stall resumes | one process, a stop reaches it, the lock is released |
| `pick` | 2 agents, 2 cards in conflict, 2 dispatch ids, one card local | one dispatch per agent, owners are kept, a tick converges, refinement of the assignment |
| `pick_prep` | 2 agents, 1 tracked card, 3 dispatch ids, separate prep, a fragile worktree | a card has one agent at work |
| `outbound` | 2 queue entries, 2 revisions, any lists mapped, 3 faults, 1 restart, pause or remapping, 2 attempts | one retro, no push forgotten, the breaker costs no attempt, the tracker catches up |
| `reconcile` | an epic with two children, one waiting on the other, one handler and the sweep, 2 edits | calls wait in a circle only where cards do, the skip-cache hides no work, reconcile comes to rest, the epic shows its children, files end in their bucket and second copies out of the mirror |
| `human_hold` | the same, 1 edit | **violated**: the next reconcile ends a person's hold on a card |
| `recovery` | 3 dispatches, 2 faults | one agent once up but for the excused, a queued report wins, everything settles but rows whose last write failed |
| `strikes` | worker and dashboard, 2 strikes to a break, 3 dispatches, 2 acts of the operator, 1 fault | no write lost, a break stands, an agent that struck out is evaluated |

### Bounds

* `MaxAsked`: three requests are enough for one to be running, one to set the tail flag and one to
  coalesce; `MaxImmediates = 2` lets two callbacks of a kind of one repo be queued at once. Two
  repos show that the sets keyed by repo do not leak into each other.
* The lock needs two workers and three ids: holder, reclaimer, and the next dispatch of the first.
  One crash leaves a dead pid behind; with `MaxReleases = 1` one release is in flight, and that
  suffices to hit a reclaim.
* `MaxRecovers = 1` reaches both sides of the recover cap. `MaxStallResumes = 3` is the code's own
  value.
* The tick needs two agents (one that owns, one that could take) and two cards (for the conflict,
  and for an agent that owns several). Dispatch ids are reused once a dispatch is settled: two let
  both agents work, three let an old dispatch of the one card be unsettled beside two attempts.
  `Tracked`, `Fragile` and `Blockable` name the cards and agents that may take the guard and the
  lock, lose their worktree, or be blocked; each is covered by one of the two runs. `FirstIssues` is
  what a card may be at the start: in `pick` a card readied on the dashboard, one an earlier
  worker left with an agent, and one that names a deleted agent; in `pick_prep` cards as the tracker
  has them, with a status and no `ready_at`. Dispatch ids are interchangeable
  (`MCSymmetry`); agents and cards are not, since the picker goes by their order.

* `outbound`: any of the lists may be without a mapping at the start, and the one event may be a
  mapping made or taken away. Two entries let a retry and a push, or two retries, be in the tracker at once. Two
  revisions tell an old write from a new one. Three faults use up the two attempts of an entry (the
  code has more, and nothing depends on how many) and leave one for the breaker or a lost create.
* `reconcile`: the epic gives recursion upward, the waiting child recursion sideways. One handler
  beside the sweep is two threads for one mutex. Two edits let a write land between any read and the
  write that follows it, with a third party's state already changed; a restart and a failed unlink
  count as edits. The graph of this run has no cycle, so there `WaitsFollowCards` says that nobody waits
  in a circle at all (section 6 has a graph with one). Depth 5 is the code's own. The
  two starts are a working family and one where everything was cancelled.
* `recovery`: three dispatches are the one that crashed, the one that resumes it and a new one; two
  faults are a crash during the boot that followed a crash, a crash and a failed database call, or a
  launch taken back and the failed write of its row.
* `strikes`: two strikes stand for the code's three, so that a strike below the cap, the last one and
  one after it occur with three dispatches. Two acts of the operator let a re-run and a clear, or two
  re-runs, meet. One fault is a crash with the lock or a write that timed out.

### Fairness

* `picker`: the event loop runs what is queued and a picker run settles (every await inside has a
  timeout or an error). No source is required to ask for anything.
* `lock`: live workers poll on an interval, a crashed worker is restarted by its supervisor, time
  passes so comments age, and a tracker call that is attempted again and again does not fail every
  time (strong fairness of `Acquire`).
* `job`, `dispatch_run`: awaited work settles, a signalled process exits (SIGKILL follows SIGTERM),
  an exit is noticed. Nothing makes a healthy agent end: liveness begins when the process is
  gone or being killed.

* `outbound`: reconcile, the slot and armed timers run, a request is answered, and the breaker's
  cooldown ends. Faults are bounded, edits too; nothing makes the operator enable the sync again or map
  a list, which the property allows for.
* `reconcile`: every await settles, file events are delivered, and the sweep comes round. Nobody has
  to edit a card.
* `recovery`: `Progress` says that something happens as long as the worker, an agent or a pass can go
  on: agents end, a worker that is down is started again, awaited calls settle.
* `strikes`: a write that is asked for is made or times out, events are handled, and an evaluator ends.
  No dispatch has to be picked and no person has to act.

`CHECK_DEADLOCK FALSE` stands where the system stops: a job and a dispatch end, and bounded
counters run out.

## 5. Proofs

`PickerMutexProofs` proves, for every set of repos and all bounds, `TypeOK`, `SingleFlight`,
`NoPokeLost`, `NoAmplification` and the refinement `ImplementsDemand` of `PickerMutex`. The only
assumption is that the bounds are naturals (`BoundsAssumption`). `TypeOK` is proved only; no run
repeats it.

`NoPokeLost` says that a request no run has begun after is carried by a queued callback or by the
tail flag. It is not inductive alone: a callback could be in the debounce set without being
queued, or the tail flag be set with no run to honour it. The inductive invariant adds that the
mutex is held exactly while a run is out (`MutexMeansRun`), that the tail flag is set only during a
run (`TailDuringRun`), that each debounce mark has its callback (`DebounceHasCallback`), that a
run serves no more than was asked (`ServedBounded`), and the budget (`Budget`): runs begun, plus
callbacks queued, plus the tail flag, never exceed requests. `FirePreserves` proves the step every
action shares, taking the mutex or coalescing; each action then has one step and one sub-step per
conjunct.

`MultiAgentPickProofs` proves the safety invariants of the tick, its action property and the refinement
of `Assignment`, for
every roster, every number of cards, any conflict relation and any initial cards
(`PickAssumption`: the sizes are positive, the sets are subsets of them).

* `OneDispatchPerAgentSafe` and `OneAgentPerCardSafe` rest on `IInv`: a live process has an open row;
  from the read of busy agents on, every agent with an open row is in `busy`, so what the tick has
  missed can only be an end, never a beginning (`BusyKnown`); the agent of a running attempt is not
  busy (`AttemptFree`); past the guard, no process works on the tracked card of the attempt
  (`CardClear`). The last holds although the guard is one read, since only the tick itself spawns.
* `Refinement` goes step by step from the same `IInv`: a spawn is the only step that begins work, and
  `BusyKnown` and `CardClear` are the two guards of `Begin`, established several steps earlier and
  still true; an exit stops the work; finalizing the row frees the agent, and the callback that comes
  before or after it changes neither.
* `TypeCorrect` (no run repeats it) needs, beside the types, that the card of an attempt is in the list its pass took it
  from (`AttemptRead`): the stamps write what is found there.
* `TickConvergesSafe`: in pass B every card the walk has passed has left the working list, unless it
  is the one being attempted (`WalkedAway`). When the walk stops, either the list is empty or the
  first card ahead found nobody free, so the check the code makes at run time cannot fire.
* `OwnerKeptSafe`: an owner of the roster on a card is the one the tick has read in `openIssues`
  (`OpenRead`), and on a card of the working list it is the mirror's snapshot, unless pass A has
  handled the card or the attempt has just stamped it (`AssignedRead`). So whoever a card is given to
  is its owner when it has one (`AttemptOwns`). Every other write leaves an owner or clears it
  (`Fades`); that the picker is the only one to stamp is what the invariant lives on.

`DispatchLockProofs`: `TypeOK`, `ExclusiveUnlessExcused` and `RunningIsOnRecord`, for any finite set of
workers on any hosts (`IdentityAssumption`). The invariant `IInv` says that unless excused the first
comment of the card is that of every run not overtaken: readable, fresh, not released, and carrying a
live pid while the run's worker works (`OnRecord`). So two of them would be one, and a worker that may
write over what it found unchanged finds only runs that it takes over (`NobodyElseRuns`); that only a live worker claims or works (`Claims`), that
dispatch ids are not shared (`IdsApart`), and that a comment once found stays found (`FoundStays`),
since a lock is edited and never removed. `PostsBounded` keeps the number of comments at that of the
workers.

`AgentProofs`, for the job: `JobTypeOK`, `OneTeardown`, `RowMatchesJob`, `FinalizedBeforeReport` and
`CompletionAfterTeardown`. Of the exit, the stop, the timers and the recovery, whichever is first
takes the job out of `running`, so only one of them is a caller of the teardown (`OneCaller`); once
the cleanup has begun the status is final (`EndedBeforeCleanup`), and the finalize carries the
status it saw (`FinalizeKnows`).

`AgentProofs`, for the settings file: `TypeOK`, `NoLostUpdate` and `BreakStands` of `AgentStrikes`, for
any number of strikes, dispatches, acts of the operator, crashes and timeouts. Whoever is between
opening the lock and releasing it is the one the lock file names, unless it was robbed (`LockHeld`), so
what he has read is still on disk when he writes. A record, on disk or in a copy, is a whole one with
an author when it is broken (`Good`); a strike can end a break only when the break has none, and no
record of that kind is written. The type invariant has bounds in it, and those are the hard part: that
no more evaluators and repairs are started than dispatches and acts of the operator called for needs
an account of all that may still call for one, an event not yet handled, the job that is running and
the writes in the queue (`Budget`), and that a dispatch asks for one break at most (`Breaking`).

`DispatchRunProofs`: `TypeOK`, `LockReleasedOnce`, `OneProcess`, `StopReachesLiveJob`. Only the newest
job can have a process (`NewestAlone`), and outside a stall recovery it is the registered one
(`NewestRegistered`); the count of releases is the flag (`ReleaseGated`).

`OutboundPushProofs`: `TypeOK`, `OneRetro`, `NoPushForgotten` and `BreakerCostsNoAttempt`, for any
number of entries, revisions, faults and attempts. `OneRetro` is not inductive alone: a call that
has seen no retro may still be on its way to post one. `CallsOK` says that only the caller whose turn
it is has requests left, and that a retro among them is for a card that has none; `Carried` and
`LagSeen` say what carries a revision the tracker does not show; `CardsCounted` and `FaultsBounded`
bound what a lost create leaves behind.

`DispatchRecoveryProofs`: `TypeOK` and `QueuedReportWins`. While the replay runs nothing else in the
worker does (`ReplayAlone`), each report found queued is either still to be visited or its row says
so (`ReplayPending`), and after the pass none of those rows is open for another one to close
(`ReplayedIsOver`).

`OneAgentOnceUpSafe` needs a second invariant beside that one (`OneInv`), which sorts the agents at work
that nothing excuses by what the database knows of them. Those whose row is open and carries a pid
(`Linked`) are one at most, it is the dispatch being launched when there is one, and the card's block
names it or nobody. Those whose row is open without a pid (`Loose`) last as long as their launch; if a
crash left one, it is ahead of the reattach pass of the next boot, which closes its row. Those whose
row is closed (`Closed`) are ahead of the reaper. So when the worker is up only `Linked` agents and the
launch are left, and the guard of a launch has seen that there is no other.

`IssueReconcileProofs`, first about `CardState`: `MoveLands`, a card that shows its own column can be
dragged to any column but Review and is there afterwards; and `ProjectionSettles`, what reconcile
writes is projected to itself by the next reconcile, so a card whose neighbours rest is not written
again. The second needs three hypotheses, and each of them is necessary: dropping one gives the
writes of section 6.

Then about `IssueReconcile`: `TypeOK`, `SkipSound`, `Serialized` and `WaitsFollowCards`, for any graph of cards,
any finite set of handlers, any depth and any number of edits (`GraphAssumption`: a card has one
parent; `BoundsAssumption`).

* `SerializedSafe`: queues and stacks fit together (`Exclusive`). A thread is once in the queue of every
  card that it has called for, and has a card only from the head of its queue. That no call queues
  behind its own chain is `Nested`: all the cards above a frame are in the frame's visited set, and
  none of them is among those it has still to call.
* `SkipSoundSafe`: whatever is in the skip-cache, and whatever a reconcile has in hand for it, is a
  document that reconcile leaves alone with those children (`Settled`); this is where
  `ProjectionSettles` is used, for what was written, and its converse for what was only read. The other
  half is the bucket. A report puts the mark of its edit into a file and leaves the file in the open
  bucket (`Astray`), and until a reconcile has moved it every frame and every entry holds an older
  report than the file does (`FrameFiled`, `EntryOK`), or knows that it has to move the file; so no
  entry matches it. A crash between write and move leaves such a file too, and an empty cache. The
  hidden copy does not enter: it is never what a reconcile reads.
* `WaitsFollowCardsSafe` is about every graph, those with a cycle included. In a chain of calls each
  card is the parent of the one before or waits for it (`Linked`). Of calls none of which can go on, take
  all the cards of their chains: a card inside a chain has its successor in it, and the card a chain
  waits for is inside another one, for whoever waits for a card does not have it yet. So the cards go in
  a circle too. Where the graph has none, no call waits for ever; where it has one, it may (section 6).

Model-checked only: liveness everywhere (out of the prover's reach) and the violations.

## 6. Where code and comments disagree

Two runs are expected to be violated; `PROJECT.json` quotes the comment each one contradicts.

* `job_override`: a stop or a cancel accepted while the close handler drains the log has its status
  overwritten by the exit code.
* `human_hold`: a person who moves a card to In Progress is meant to keep agents off it; the block that
  is written names no worker host, and the next reconcile takes it for a dead dispatch.

Seen while modelling, and reached by the models, with no run of their own:

* "If the process is gone, the lock is dead regardless of TTL" (`issue-tracker/lock.ts:350-351`), but the
  pid on the lock is the worker's: after a crash in host mode a worker of the host takes the card beside
  a living agent, with no pid misread (`overtaken` in `DispatchLock`).
* Two workers on different hosts that both read a card without a lock both acquire it, and a release
  that is not awaited may edit the lock of the next dispatch (`issue-tracker/lock.ts`).
* The first job of a stalled dispatch closes the row the respawned agent still works under
  (`dispatch/core.ts:797`).
* A push from a list without a mapping counts as pushed (`issue/reconcile/trello.ts:324`,
  `issue/reconcile.ts:1175`): mapping the list later pushes nothing until the card is edited or the
  worker restarts. The comment of the cache speaks of success only: it is updated "when the push fully
  succeeded" (`issue/reconcile.ts:1171`).
* The conflict gate is evaluated once per tick, so one tick may dispatch both partners of a conflict;
  and the tick's stamps put a card back that was finished meanwhile.
* The replay of a queued stop closes the row and never stamps the card, unlike the live route it
  says it follows (`worker/replay-stop-queue.ts:8-12`): the finished card is dispatched again.
* Two re-runs of an evaluation while it is pending start two evaluators, though the guard "bounds
  dispatch cost to 1 evaluator per broken-state transition" (`worker/re-run-evaluator-route.ts`). An
  evaluator that a restart reattached has no `onComplete`, so its record stays running if it ends
  without a summary, and the re-run refuses a running evaluation.
* A repair that ends clears any break without an evaluator, also one that a later prep or snapshot put
  there (`agent/sync-repair-dispatcher.ts:167-177` looks at the evaluator's id only).
* Two waiters that find the same dead process's settings lock may both unlink: the second takes the
  first one's live lock (`settings-file.ts:1656-1668`).
* Cycles in the graph of cards are meant to be bounded by the visited set and the depth
  (`issue/reconcile.ts:51-54`, "Either guard is sufficient"), but the visited set belongs to one chain of
  calls and a mutex is held through the fan-out. The rollup of an epic and the event of a child that was
  made to wait on it (the validator accepts that) each hold their card's mutex and wait for the other's
  until the worker is restarted; when one of them is the sweep, it comes to no other card either. To see
  it, check `NoWaitCycle` as the invariant of `reconcile` with `MCCyclicDependents` for `MCDependents`,
  where the first child waits on the epic as well: TLC needs eleven steps.
* A person's move of a card to Done that lands while reconcile writes the card, or whose unlink of the
  open file fails, is undone: "open wins" (`issue/reconcile.ts`, `loadYaml`) takes the other copy, and
  only the boot, which mirrors the closed bucket last, shows the Done one for a while.
* The skip-cache hides a dead dispatch from the sweep: the death of a process is not in its key.
* A move from Backlog to Review leaves the archived stamp, so the card is still shown in Backlog. A
  parent that was cancelled and whose children are all done keeps both terminal stamps, and a parent
  that is itself dispatched is rolled up and taken back: each later reconcile that is not skipped
  derives it again, where `issue/reconcile.ts:703-706` promises zero writes.
* A file that says Done without a stamp and carries a live dispatch is read one way before its first
  reconcile and another way after it.

## 7. Not modelled

External effects (git, Docker, systemd, the tracker's HTTP client), rendering, argument
construction, authentication and the dashboard's user interface: nothing in them interleaves. The
skill evaluation tool and the template server are apart from dispatching. `PROJECT.json` gives
each component's status and reason; those still to come are in section 2, and those never to come
are rendering, provisioning and single calls into a modelled part.

Error paths that the models of their components leave out:

* A step of reconcile that throws (the upsert, the write, the unlink of the open copy inside
  `moveToClosedIfTerminal`) rejects the call. The files are then as a crash between the two steps leaves
  them, which `IssueReconcile` has.
* A settings file that cannot be read or parsed is taken for the defaults (`settings-file.ts:1557-1566`),
  and the write that follows replaces the whole `agents` map (line 1823). `AgentStrikes` reads what
  was last written, so `NoLostUpdate` says nothing of that.
* A dispatch whose row cannot be inserted is not modelled (the launch aborts and the worker is halted by
  its flag). That the process of a launch taken back outlives it is in `DispatchRecovery` only: in
  `MultiAgentPick` a failed spawn leaves no process, and `OneAgentPerCard` is to be read with the excuse of `OneAgentOnceUp`.
