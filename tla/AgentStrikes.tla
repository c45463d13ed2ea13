----------------------------- MODULE AgentStrikes -----------------------------
(***************************************************************************)
(* The record of one agent in settings.json, written by two processes: the  *)
(* lock file and the read-modify-write of mutateAgents                      *)
(* (src/src/settings-file.ts), and what is kept there.  Strikes and the     *)
(* third one's break (agent/strikes.ts), the evaluator it calls             *)
(* (agent/evaluator-dispatcher.ts), the aborts of a dispatch's pre-flight   *)
(* and of its prep (dispatch/recovery-mode.ts, worker/prep-verdict-route.ts), *)
(* the repair of a worktree (agent/sync-repair-dispatcher.ts) and the acts  *)
(* of the operator, in the worker and in the dashboard.                     *)
(*                                                                         *)
(* Of a break only its author, the status of its evaluation and the         *)
(* evaluator bound to it are kept (0: none).                                *)
(***************************************************************************)
EXTENDS Naturals, Sequences, FiniteSets

CONSTANTS
    STRIKES_MAX,
    MaxDispatches, \* dispatches of the agent (bound)
    MaxActs,       \* acts of the operator (bound)
    MaxFaults      \* crashes and timeouts of the lock (bound)

ASSUME BoundsAssumption ==
    /\ STRIKES_MAX \in Nat \ {0} /\ MaxDispatches \in Nat /\ MaxActs \in Nat
    /\ MaxFaults \in Nat

Processes == {"worker", "dashboard"}

\* One is called for by a strike or by a re-run.
Evaluators == 1..(MaxDispatches + MaxActs)

VARIABLES
    file,      \* the agent's record in settings.json
    lock,      \* .settings.lock: free, whose it is, or left by a crash
    at,        \* by process: where its write is
    copy,      \* by process: the record it has read
    queue,     \* inProcessQueues: the writes asked for, the oldest first
    event,     \* events emitted and not handled yet
    job,       \* the agent's dispatch
    evaluators,\* evaluators at work
    tended,    \* those whose onComplete this worker has
    repairs,   \* repair dispatches at work
    robbed,    \* somebody's live lock was taken for a leftover
    dispatches, acts, spawned, faults

settings == <<file, lock, at, copy, robbed>>
agents == <<job, evaluators, tended, repairs, spawned, dispatches>>
vars == <<settings, queue, event, agents, acts, faults>>

Whole == [by |-> "nobody", status |-> "completed", id |-> 0]
Absent == [count |-> 0, broken |-> Whole, here |-> FALSE]
Broken(r) == r.broken # Whole

\* defaultBrokenEvaluator: a break that nobody evaluates.
BrokenBy(who) == [by |-> who, status |-> "completed", id |-> 0]

Write(what, who, id) == [what |-> what, who |-> who, id |-> id]
Asked(p, w) == [queue EXCEPT ![p] = Append(@, w)]
Waiting(p, what) == \E i \in DOMAIN queue[p] : queue[p][i].what = what

Init ==
    /\ file = [count |-> 0, broken |-> Whole, here |-> TRUE]
    /\ lock = "free"
    /\ at = [p \in Processes |-> "idle"]
    /\ copy = [p \in Processes |-> Absent]
    /\ queue = [p \in Processes |-> <<>>]
    /\ event = {} /\ job = "none"
    /\ evaluators = {} /\ tended = {} /\ repairs = 0 /\ robbed = FALSE
    /\ dispatches = 0 /\ acts = 0 /\ spawned = 0 /\ faults = 0

-----------------------------------------------------------------------------
(* What a write makes of the record. *)

\* Mutant of Struck: the count is not capped.
StruckOnAndOn(r) ==
    [r EXCEPT !.count = @ + 1,
              !.broken = IF r.count + 1 >= STRIKES_MAX /\ ~Broken(r)
                         THEN [by |-> "strikes", status |-> "pending", id |-> 0]
                         ELSE @]

\* appendStrike, and the break of the last one.
Struck(r) ==
    LET count == IF r.count < STRIKES_MAX THEN r.count + 1 ELSE STRIKES_MAX IN
    [r EXCEPT !.count = count,
              !.broken = IF count = STRIKES_MAX /\ ~Broken(r)
                         THEN [by |-> "strikes", status |-> "pending", id |-> 0]
                         ELSE @]

\* Mutant of Reset: a success heals the agent.
ResetAndHeal(r) == [r EXCEPT !.count = 0, !.broken = Whole]

\* resetStrikes.
Reset(r) == [r EXCEPT !.count = 0]

\* markEvaluatorFailedIfStillOurs.
Failed(r, id) ==
    IF r.broken.id = id /\ r.broken.status = "running"
    THEN [r EXCEPT !.broken.status = "failed"] ELSE r

\* clearBrokenIfStillSyncRepair.
Repaired(r) ==
    IF Broken(r) /\ r.broken.id = 0
    THEN [r EXCEPT !.broken = Whole, !.count = 0] ELSE r

\* resetEvaluatorBinding.
Rebound(r) ==
    IF Broken(r) /\ r.broken.status # "running"
    THEN [r EXCEPT !.broken.status = "pending", !.broken.id = 0] ELSE r

\* The mutators.
Mutate(w, r) ==
    CASE w.what = "strike" -> Struck(r)
      [] w.what = "reset" -> Reset(r)
      [] w.what = "break" -> [r EXCEPT !.broken = BrokenBy(w.who)]
      [] w.what = "run" -> IF Broken(r)
           THEN [r EXCEPT !.broken.status = "running", !.broken.id = w.id] ELSE r
      [] w.what = "summary" -> IF r.broken.id = w.id
           THEN [r EXCEPT !.broken.status = "completed"] ELSE r
      [] w.what = "failed" -> Failed(r, w.id)
      [] w.what = "repaired" -> Repaired(r)
      [] w.what = "clear" -> IF Broken(r)
           THEN [r EXCEPT !.broken = Whole, !.count = 0] ELSE r
      [] w.what = "rerun" -> Rebound(r)
      [] w.what = "resolve" -> [r EXCEPT !.broken = Whole]
      [] w.what = "delete" -> Absent
      [] w.what = "create" -> IF r.here THEN r ELSE [Absent EXCEPT !.here = TRUE]

-----------------------------------------------------------------------------
(* mutateAgents: one write of a process at a time, under the lock file. *)

\* The handlers of an event run before the next write of the worker starts.
Turn(p) ==
    /\ queue[p] # <<>>
    /\ at[p] = "idle"
    /\ p = "worker" => event = {}

Open(p) ==
    /\ Turn(p)
    /\ lock = "free"
    /\ lock' = p
    /\ at' = [at EXCEPT ![p] = "open"]
    /\ UNCHANGED <<file, copy, robbed, queue, event, agents, acts, faults>>

\* The lock file is older than LOCK_STALE_MS.  A live holder is quicker.
SeesStale(p) ==
    /\ Turn(p)
    /\ lock = "left"
    /\ at' = [at EXCEPT ![p] = "stale"]
    /\ UNCHANGED <<file, lock, copy, robbed, queue, event, agents, acts, faults>>

\* It unlinks the file that has the name by now.
Steal(p) ==
    /\ at[p] = "stale"
    /\ robbed' = (robbed \/ lock \in Processes)
    /\ lock' = "free"
    /\ at' = [at EXCEPT ![p] = "idle"]
    /\ UNCHANGED <<file, copy, queue, event, agents, acts, faults>>

\* Mutant of Read: the lock is released before the write.
ReadAndRelease(p) ==
    /\ at[p] = "open"
    /\ copy' = [copy EXCEPT ![p] = file]
    /\ at' = [at EXCEPT ![p] = "read"]
    /\ lock' = "free"
    /\ UNCHANGED <<file, robbed, queue, event, agents, acts, faults>>

\* safeParseContract.
Read(p) ==
    /\ at[p] = "open"
    /\ copy' = [copy EXCEPT ![p] = file]
    /\ at' = [at EXCEPT ![p] = "read"]
    /\ UNCHANGED <<file, lock, robbed, queue, event, agents, acts, faults>>

-----------------------------------------------------------------------------
(* What the caller does once its write has settled. *)

\* handleBrokenTransition goes on: the evaluator is spawned, whether or not
\* there was a break to bind it to.
RunSettled(id, rest) ==
    \/ /\ evaluators' = evaluators \cup {id}
       /\ tended' = tended \cup {id}
       /\ queue' = rest
       /\ UNCHANGED <<job, event>>
    \/ /\ queue' = [rest EXCEPT !["worker"] = Append(@, Write("failed", "nobody", id))]
       /\ UNCHANGED <<evaluators, tended, job, event>>

\* A break is in place before the dispatch fails: stamp, emit, throw.  One of
\* the prep route ends the job, which strikes.
BreakSettled(who, done, rest) ==
    /\ event' = IF who = "sync" /\ done THEN event \cup {"sync-repair-needed"} ELSE event
    /\ IF who = "prep"
       THEN IF done
            THEN /\ job' = "none"
                 /\ queue' = [rest EXCEPT !["worker"] =
                                Append(@, Write("strike", "nobody", 0))]
            ELSE job' = "working" /\ queue' = rest
       ELSE job' = "none" /\ queue' = rest
    /\ UNCHANGED <<evaluators, tended>>

\* The caller of a write learns that it is done, or that it threw.  made is
\* whether it changed the record in the way that is announced.
Settled(p, done, made) ==
    LET w == Head(queue[p])
        rest == [queue EXCEPT ![p] = Tail(@)] IN
    /\ CASE w.what = "run" /\ done -> RunSettled(w.id, rest)
         [] w.what = "break" -> BreakSettled(w.who, done, rest)
         [] w.what \in {"strike", "rerun"} /\ made ->
              /\ event' = event \cup {"broken-transition"}
              /\ queue' = rest
              /\ UNCHANGED <<job, evaluators, tended>>
         [] OTHER -> queue' = rest /\ UNCHANGED <<job, evaluators, tended, event>>
    /\ UNCHANGED <<repairs, spawned, dispatches>>

\* Whether the write breaks the agent or asks for its evaluation again.
Announces(w, r) ==
    /\ r.here
    /\ \/ w.what = "strike" /\ ~Broken(r) /\ Broken(Struck(r))
       \/ w.what = "rerun" /\ Broken(r) /\ r.broken.status # "running"

\* The mutator, the rename and release, which unlinks the lock file, whoever's
\* it is.  A strike, a reset or a break of an agent that is not there throws.
WriteAndRelease(p) ==
    LET w == Head(queue[p])
        throws == ~copy[p].here /\ w.what \in {"strike", "reset", "break"} IN
    /\ at[p] = "read"
    /\ file' = IF throws THEN file ELSE Mutate(w, copy[p])
    /\ lock' = "free"
    /\ at' = [at EXCEPT ![p] = "idle"]
    /\ copy' = [copy EXCEPT ![p] = Absent]
    /\ Settled(p, ~throws, Announces(w, copy[p]))
    /\ UNCHANGED <<robbed, acts, faults>>

\* LOCK_TIMEOUT_MS is over: the write throws.
GivesUp(p) ==
    /\ Turn(p)
    /\ lock # "free"
    /\ faults < MaxFaults
    /\ faults' = faults + 1
    /\ Settled(p, FALSE, FALSE)
    /\ UNCHANGED <<settings, acts>>

-----------------------------------------------------------------------------
(* The worker: dispatches of the agent, evaluators and repairs. *)

\* The picker takes an agent whose record is whole.
Pick ==
    /\ job = "none"
    /\ dispatches < MaxDispatches
    /\ file.here /\ ~Broken(file)
    /\ job' = "preflight"
    /\ dispatches' = dispatches + 1
    /\ UNCHANGED <<settings, queue, event, evaluators, tended, repairs, spawned,
                   acts, faults>>

Launched ==
    /\ job = "preflight"
    /\ job' = "working"
    /\ UNCHANGED <<settings, queue, event, evaluators, tended, repairs, spawned,
                   dispatches, acts, faults>>

\* stampBrokenAndThrow, of snapshotIfDirty or of syncWorktree.
WorktreeAborts(who) ==
    /\ job = "preflight"
    /\ job' = "breaking"
    /\ queue' = Asked("worker", Write("break", who, 0))
    /\ UNCHANGED <<settings, event, evaluators, tended, repairs, spawned,
                   dispatches, acts, faults>>

PrepAborts ==
    /\ job = "working"
    /\ job' = "breaking"
    /\ queue' = Asked("worker", Write("break", "prep", 0))
    /\ UNCHANGED <<settings, event, evaluators, tended, repairs, spawned,
                   dispatches, acts, faults>>

\* The row is terminal; applyStrike, or nothing for a cancelled dispatch.
JobEnds ==
    /\ job = "working"
    /\ job' = "none"
    /\ \/ \E what \in {"strike", "reset"} :
            queue' = Asked("worker", Write(what, "nobody", 0))
       \/ UNCHANGED queue
    /\ UNCHANGED <<settings, event, evaluators, tended, repairs, spawned,
                   dispatches, acts, faults>>

\* handleBrokenTransition: a break that is still there is to be evaluated.
OnBroken ==
    /\ "broken-transition" \in event
    /\ event' = event \ {"broken-transition"}
    /\ IF Broken(file)
       THEN /\ spawned' = spawned + 1
            /\ queue' = Asked("worker", Write("run", "nobody", spawned'))
       ELSE UNCHANGED <<spawned, queue>>
    /\ UNCHANGED <<settings, job, evaluators, tended, repairs, dispatches, acts,
                   faults>>

\* handleSyncRepairNeeded; the spawn may fail.
OnSyncRepairNeeded ==
    /\ "sync-repair-needed" \in event
    /\ event' = event \ {"sync-repair-needed"}
    /\ \/ Broken(file) /\ repairs' = repairs + 1
       \/ UNCHANGED repairs
    /\ UNCHANGED <<settings, queue, job, evaluators, tended, spawned, dispatches,
                   acts, faults>>

\* danxbot_set_evaluator_summary.
Summarises(id) ==
    /\ id \in evaluators
    /\ ~Waiting("worker", "summary")
    /\ queue' = Asked("worker", Write("summary", "nobody", id))
    /\ UNCHANGED <<settings, event, agents, acts, faults>>

\* Mutant of EvaluatorEnds: onComplete forgets the record.
EvaluatorEndsUntended(id) ==
    /\ id \in evaluators
    /\ evaluators' = evaluators \ {id}
    /\ tended' = tended \ {id}
    /\ UNCHANGED <<settings, queue, event, job, repairs, spawned, dispatches, acts,
                   faults>>

\* onComplete, when this worker has it: a reattached job has none.
EvaluatorEnds(id) ==
    /\ id \in evaluators
    /\ evaluators' = evaluators \ {id}
    /\ tended' = tended \ {id}
    /\ queue' = IF id \in tended THEN Asked("worker", Write("failed", "nobody", id))
                                 ELSE queue
    /\ UNCHANGED <<settings, event, job, repairs, spawned, dispatches, acts, faults>>

RepairEnds ==
    /\ repairs > 0
    /\ repairs' = repairs - 1
    /\ \/ queue' = Asked("worker", Write("repaired", "nobody", 0))
       \/ UNCHANGED queue
    /\ UNCHANGED <<settings, event, job, evaluators, tended, spawned, dispatches,
                   acts, faults>>

-----------------------------------------------------------------------------
(* The operator and the crashes. *)

\* clear-broken and re-run-evaluator are routes of the worker; Mark Resolved,
\* DELETE (of an agent without a row at work: before the spawn there is none) and
\* POST are the dashboard's own.
OperatorActs(p, what) ==
    /\ acts < MaxActs
    /\ acts' = acts + 1
    /\ \/ p = "worker" /\ what \in {"clear", "rerun"}
       \/ p = "dashboard" /\ what \in {"resolve", "create"}
       \/ p = "dashboard" /\ what = "delete" /\ job \in {"none", "preflight"}
    /\ queue' = Asked(p, Write(what, "nobody", 0))
    /\ UNCHANGED <<settings, event, agents, faults>>

\* A process dies with its queue, and may leave the lock file behind.  The
\* agents outlive the worker and are reattached without their onComplete.
Crash(p) ==
    /\ faults < MaxFaults
    /\ faults' = faults + 1
    /\ lock' = IF lock = p THEN "left" ELSE lock
    /\ at' = [at EXCEPT ![p] = "idle"]
    /\ queue' = [queue EXCEPT ![p] = <<>>]
    /\ IF p = "worker"
       THEN /\ event' = {} /\ tended' = {} /\ repairs' = 0
            /\ job' = IF job \in {"preflight", "breaking"} THEN "none" ELSE job
       ELSE UNCHANGED <<event, tended, repairs, job>>
    /\ copy' = [copy EXCEPT ![p] = Absent]
    /\ UNCHANGED <<file, robbed, evaluators, spawned, dispatches, acts>>

Writes(p) ==
    \/ Open(p) \/ SeesStale(p) \/ Steal(p) \/ Read(p) \/ WriteAndRelease(p)

Dispatched ==
    \/ Launched \/ PrepAborts \/ JobEnds
    \/ \E who \in {"snapshot", "sync"} : WorktreeAborts(who)

Next ==
    \/ \E p \in Processes : Writes(p) \/ GivesUp(p) \/ Crash(p)
    \/ OnBroken \/ OnSyncRepairNeeded
    \/ Pick \/ Dispatched \/ RepairEnds
    \/ \E id \in Evaluators : Summarises(id) \/ EvaluatorEnds(id)
    \/ \E p \in Processes, what \in {"clear", "rerun", "resolve", "delete", "create"} :
         OperatorActs(p, what)

Spec == Init /\ [][Next]_vars

\* Writes settle, events are handled and evaluators end.
Fairness ==
    /\ \A p \in Processes : WF_vars(Writes(p))
    /\ WF_vars(OnBroken) /\ WF_vars(OnSyncRepairNeeded)
    /\ \A id \in Evaluators : WF_vars(EvaluatorEnds(id))

FairSpec == Spec /\ Fairness

-----------------------------------------------------------------------------
Breaks == [by: {"nobody", "strikes", "snapshot", "sync", "prep"},
           status: {"pending", "running", "completed", "failed"},
           id: Evaluators \cup {0}]

\* Type invariant: a record's strikes never pass STRIKES_MAX, and only one of
\* the process's writes is under way.
TypeOK ==
    /\ \A r \in {file} \cup {copy[p] : p \in Processes} :
         r.count \in 0..STRIKES_MAX /\ r.broken \in Breaks /\ r.here \in BOOLEAN
    /\ lock \in Processes \cup {"free", "left"}
    /\ \A p \in Processes :
         /\ at[p] \in {"idle", "stale", "open", "read"}
         /\ at[p] # "idle" => queue[p] # <<>>
    /\ event \subseteq {"broken-transition", "sync-repair-needed"}
    /\ job \in {"none", "preflight", "working", "breaking"}
    /\ tended \subseteq evaluators /\ evaluators \subseteq Evaluators
    /\ repairs \in 0..MaxDispatches /\ robbed \in BOOLEAN
    /\ dispatches \in 0..MaxDispatches /\ acts \in 0..MaxActs
    /\ spawned \in Evaluators \cup {0} /\ faults \in 0..MaxFaults

\* No write is lost: a process that is about to write has read the record that
\* is on disk, unless two processes found the same lock file of a dead one
\* (settings-file.ts: concurrent writers "don't race each other").
NoLostUpdate ==
    \A p \in Processes : at[p] = "read" => copy[p] = file \/ robbed

\* A break stands until the operator lifts it or the repair it asked for does:
\* neither a success of a dispatch that was picked before it, nor a strike, nor a
\* late evaluator, nor a write of the other process takes it away (strikes.ts,
\* resetStrikes: "Preserves any existing `broken` record").
BreakStands ==
    [][Broken(file) /\ ~Broken(file') =>
         \/ robbed
         \/ \E p \in Processes :
              /\ at[p] = "read"
              /\ Head(queue[p]).what \in {"clear", "resolve", "delete", "repaired"}]_vars

\* An agent that struck out is evaluated in the end: its record does not stay
\* pending or running, unless a process died or a write timed out.
EventuallyEvaluated ==
    <>[](file.broken.status \in {"completed", "failed"} \/ faults > 0)
=============================================================================
