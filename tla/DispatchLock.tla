---------------------------- MODULE DispatchLock ----------------------------
(***************************************************************************)
(* The tracker-comment dispatch lock of one card                            *)
(* (src/src/issue-tracker/lock.ts), shared by the workers of several        *)
(* environments.  Every operation is a read of the card's comments followed *)
(* by a separate write, and the tracker offers nothing in between.          *)
(*                                                                          *)
(* A worker is a holder/host pair and outlives its process.  Dispatch ids   *)
(* are fresh: an id is reused only once nothing mentions it.  excused is a  *)
(* history variable: something happened that the protocol does not exclude  *)
(* (a write landed on comments that changed since they were read, a running *)
(* dispatch outlived the TTL, somebody edited the comment).                 *)
(*                                                                          *)
(* An agent of host mode outlives the worker that launched it, while the    *)
(* comment carries the worker's pid: a worker of the same host then takes   *)
(* the record over beside a living agent (overtaken).                       *)
(***************************************************************************)
EXTENDS Naturals, Sequences, FiniteSets

CONSTANTS Workers, Hosts, HostOf, Dispatches, NoDispatch, NoComment,
          MaxCrashes,  \* bound: crashes of worker processes
          MaxReleases  \* bound: releaseLock calls in flight at once

ASSUME IdentityAssumption ==
    /\ HostOf \in [Workers -> Hosts]
    /\ NoDispatch \notin Dispatches
    /\ IsFiniteSet(Workers)
    /\ MaxCrashes \in Nat /\ MaxReleases \in Nat

VARIABLES
    comments,  \* the card's lock comments, oldest first
    up,        \* workers whose process is alive
    pc,        \* what each worker does for the card
    dispatch,  \* the dispatch a worker is claiming the card for or running
    seen,      \* the comment an acquire found
    releases,  \* releaseLock calls in flight
    survivors, \* runs whose agent outlived the worker that launched it
    overtaken, \* those whose record a worker of their host has taken over
    crashes, excused

vars == <<comments, up, pc, dispatch, seen, releases, survivors, overtaken,
          crashes, excused>>

\* fresh: younger than the TTL.  procDead: the process whose pid it carries
\* is gone.  parses: its required rows are readable.
Lock(w, d) == [owner |-> w, dispatch |-> d, fresh |-> TRUE,
               released |-> FALSE, procDead |-> FALSE, parses |-> TRUE]
LockType == [owner : Workers, dispatch : Dispatches, fresh : BOOLEAN,
             released : BOOLEAN, procDead : BOOLEAN, parses : BOOLEAN]

ASSUME NoCommentAssumption == NoComment \notin LockType

\* findCommentByMarker: the oldest comment carrying the marker.
LockComment == IF comments = <<>> THEN NoComment ELSE comments[1]

Init ==
    /\ comments = <<>>
    /\ up = Workers
    /\ pc = [w \in Workers |-> "idle"]
    /\ dispatch = [w \in Workers |-> NoDispatch]
    /\ seen = [w \in Workers |-> NoComment]
    /\ releases = {}
    /\ survivors = {} /\ overtaken = {}
    /\ crashes = 0
    /\ excused = FALSE

Mentioned == {comments[i].dispatch : i \in 1..Len(comments)}
             \cup {dispatch[w] : w \in Workers}
             \cup {rel.dispatch : rel \in releases}
             \cup {run.dispatch : run \in survivors}
             \cup {seen[w].dispatch : w \in {v \in Workers : seen[v] # NoComment}}

Fresh == Dispatches \ Mentioned

Working == {w \in Workers : pc[w] = "working"}

Run(w) == [worker |-> w, dispatch |-> dispatch[w]]
\* The agents at work on the card.
Running == {Run(w) : w \in Working} \cup survivors

-----------------------------------------------------------------------------
\* The decision of tryAcquireLock about the comment it found.
IsStale(c) == ~c.fresh
\* Mutant of IsSelf: the host alone identifies the holder.
IsSelfByHost(w, c) == HostOf[c.owner] = HostOf[w]

IsSelf(w, c) == c.owner = w
\* Mutant of SameHostDeadPid: the pid is not probed.
SameHostAnyPid(w, c) == c.owner # w /\ HostOf[c.owner] = HostOf[w]

SameHostDeadPid(w, c) ==
    c.owner # w /\ HostOf[c.owner] = HostOf[w] /\ c.procDead
\* Mutant of Held: neither age nor identity lets a comment be reclaimed.
HeldUnlessDead(w, c) == /\ c # NoComment
                        /\ c.parses
                        /\ ~SameHostDeadPid(w, c)

Held(w, c) == /\ c # NoComment
              /\ c.parses
              /\ ~IsStale(c) /\ ~IsSelf(w, c) /\ ~SameHostDeadPid(w, c)

\* Mutant of WriteLock: a reclaim posts a new comment.
WriteLockAppends(w) == comments' = Append(comments, Lock(w, dispatch[w]))

\* The write of an acquire: a new comment, or an edit of the one found.
WriteLock(w) ==
    LET mine == Lock(w, dispatch[w]) IN
    IF seen[w] = NoComment
    THEN comments' = Append(comments, mine)
    ELSE comments' = [comments EXCEPT ![1] = mine]

\* The agents still alive whose record the write replaces: the record is the
\* worker's own, from before its restart, or its pid is dead.
TakenOver(w) ==
    {run \in survivors : /\ seen[w] # NoComment
                         /\ seen[w].dispatch = run.dispatch
                         /\ IsSelf(w, seen[w]) \/ SameHostDeadPid(w, seen[w])}

\* The live-dispatch guard of the picker looks into the database of its own
\* environment and lets the card through when the query fails, so a worker may
\* come here whatever agent is alive.
ReadForAcquire(w) ==
    /\ w \in up /\ pc[w] = "idle"
    /\ Fresh # {}
    /\ dispatch' = [dispatch EXCEPT ![w] = CHOOSE d \in Fresh : TRUE]
    /\ pc' = [pc EXCEPT ![w] = "locking"]
    /\ seen' = [seen EXCEPT ![w] = LockComment]
    /\ UNCHANGED <<comments, up, releases, survivors, overtaken, excused, crashes>>

BackToIdle(w) ==
    /\ pc' = [pc EXCEPT ![w] = "idle"]
    /\ dispatch' = [dispatch EXCEPT ![w] = NoDispatch]
    /\ seen' = [seen EXCEPT ![w] = NoComment]

Refuse(w) ==
    /\ pc[w] = "locking" /\ Held(w, seen[w])
    /\ BackToIdle(w)
    /\ UNCHANGED <<comments, up, releases, survivors, overtaken, excused, crashes>>

Acquire(w) ==
    /\ pc[w] = "locking" /\ ~Held(w, seen[w])
    /\ WriteLock(w)
    /\ pc' = [pc EXCEPT ![w] = "working"]
    /\ seen' = [seen EXCEPT ![w] = NoComment]
    /\ overtaken' = overtaken \cup TakenOver(w)
    /\ excused' = (excused \/ LockComment # seen[w])
    /\ UNCHANGED <<up, dispatch, releases, survivors, crashes>>

\* The tracker call fails, before or after the write took effect; the picker
\* drops the card for this tick.
AcquireThrows(w) ==
    /\ pc[w] = "locking"
    /\ BackToIdle(w)
    /\ \/ UNCHANGED <<comments, overtaken, excused>>
       \/ /\ ~Held(w, seen[w])
          /\ WriteLock(w)
          /\ overtaken' = overtaken \cup TakenOver(w)
          /\ excused' = (excused \/ LockComment # seen[w])
    /\ UNCHANGED <<up, releases, survivors, crashes>>

\* The YAML stamp or an early step of dispatch() throws: nothing runs, and
\* nothing releases the lock.
DispatchFailsBeforeSpawn(w) ==
    /\ pc[w] = "working"
    /\ BackToIdle(w)
    /\ UNCHANGED <<comments, up, releases, survivors, overtaken, excused, crashes>>

\* The dispatch ends and fires releaseLock without waiting for it; the read
\* of the comments is its first step.
Complete(w) ==
    /\ pc[w] = "working" /\ Cardinality(releases) < MaxReleases
    /\ releases' = releases \cup {[worker |-> w, dispatch |-> dispatch[w],
                                   found |-> LockComment]}
    /\ BackToIdle(w)
    /\ UNCHANGED <<comments, up, survivors, overtaken, excused, crashes>>

Releasable(rel) ==
    /\ rel.found # NoComment
    /\ rel.found.parses
    /\ ~rel.found.released
    /\ rel.found.dispatch = rel.dispatch

\* The edit of releaseLock: the comment read, rewritten as released and as old
\* as the epoch.
WriteRelease(rel) ==
    /\ Releasable(rel)
    /\ comments' = [comments EXCEPT ![1] =
           [rel.found EXCEPT !.released = TRUE, !.fresh = FALSE]]
    /\ excused' = (excused \/ LockComment # rel.found)
    /\ releases' = releases \ {rel}
    /\ UNCHANGED <<up, pc, dispatch, seen, survivors, overtaken, crashes>>

\* no-lock, unparseable, already-released or not-mine; or the call threw.
DropRelease(rel) ==
    /\ releases' = releases \ {rel}
    /\ UNCHANGED <<comments, up, pc, dispatch, seen, survivors, overtaken,
                   excused, crashes>>

-----------------------------------------------------------------------------
Bury(c, w) == IF c # NoComment /\ c.owner = w
              THEN [c EXCEPT !.procDead = TRUE] ELSE c

\* The worker's process dies with its calls in flight.  Its agent dies with it
\* (docker mode, or not spawned yet) or goes on, reparented (host mode).
Crash(w) ==
    /\ w \in up /\ crashes < MaxCrashes
    /\ crashes' = crashes + 1
    /\ up' = up \ {w}
    /\ pc' = [pc EXCEPT ![w] = "idle"]
    /\ dispatch' = [dispatch EXCEPT ![w] = NoDispatch]
    /\ seen' = [v \in Workers |-> IF v = w THEN NoComment ELSE Bury(seen[v], w)]
    /\ releases' = {[rel EXCEPT !.found = Bury(@, w)] :
                       rel \in {x \in releases : x.worker # w}}
    /\ comments' = [i \in 1..Len(comments) |-> Bury(comments[i], w)]
    /\ \/ survivors' = survivors
       \/ pc[w] = "working" /\ survivors' = survivors \cup {Run(w)}
    /\ UNCHANGED <<overtaken, excused>>

\* The agent ends: whoever watches it by then, a worker that re-attached to it
\* or nobody, has no onComplete to release the lock with.
SurvivorEnds(run) ==
    /\ survivors' = survivors \ {run}
    /\ overtaken' = overtaken \ {run}
    /\ UNCHANGED <<comments, up, pc, dispatch, seen, releases, excused, crashes>>

Restart(w) ==
    /\ w \notin up
    /\ up' = up \cup {w}
    /\ UNCHANGED <<comments, pc, dispatch, seen, releases, survivors, overtaken,
                   excused, crashes>>

\* LOCK_TTL_MS passes since the comment was written.
AgeOut(i) ==
    /\ i \in 1..Len(comments) /\ comments[i].fresh
    /\ comments' = [comments EXCEPT ![i].fresh = FALSE]
    /\ excused' = (excused \/ \E run \in Running :
                                  run.dispatch = comments[i].dispatch)
    /\ UNCHANGED <<up, pc, dispatch, seen, releases, survivors, overtaken, crashes>>

\* Somebody edits the comment on the tracker and its rows no longer parse.
ManualEdit ==
    /\ comments # <<>> /\ comments[1].parses
    /\ comments' = [comments EXCEPT ![1].parses = FALSE]
    /\ excused' = TRUE
    /\ UNCHANGED <<up, pc, dispatch, seen, releases, survivors, overtaken, crashes>>

Next ==
    \/ \E w \in Workers :
          \/ ReadForAcquire(w) \/ Refuse(w) \/ Acquire(w) \/ AcquireThrows(w)
          \/ DispatchFailsBeforeSpawn(w) \/ Complete(w)
          \/ Crash(w) \/ Restart(w)
    \/ \E rel \in releases : WriteRelease(rel) \/ DropRelease(rel)
    \/ \E run \in survivors : SurvivorEnds(run)
    \/ \E i \in 1..Cardinality(Workers) : AgeOut(i)
    \/ ManualEdit

Spec == Init /\ [][Next]_vars

\* Live workers keep polling, the tracker does not fail every call for ever, a
\* crashed worker is restarted, and time passes.
Fairness ==
    /\ \A w \in Workers :
          /\ WF_vars(ReadForAcquire(w)) /\ WF_vars(Refuse(w))
          /\ SF_vars(Acquire(w)) /\ WF_vars(Restart(w))
    /\ WF_vars(\E rel \in releases : WriteRelease(rel) \/ DropRelease(rel))
    /\ \A i \in 1..Cardinality(Workers) : WF_vars(AgeOut(i))

FairSpec == Spec /\ Fairness

-----------------------------------------------------------------------------
TypeOK ==
    /\ comments \in Seq(LockType) /\ Len(comments) <= Cardinality(Workers)
    /\ crashes \in 0..MaxCrashes
    /\ up \subseteq Workers
    /\ pc \in [Workers -> {"idle", "locking", "working"}]
    /\ dispatch \in [Workers -> Dispatches \cup {NoDispatch}]
    /\ seen \in [Workers -> LockType \cup {NoComment}]
    /\ releases \subseteq [worker : Workers, dispatch : Dispatches,
                           found : LockType \cup {NoComment}]
    /\ survivors \subseteq [worker : Workers, dispatch : Dispatches]
    /\ overtaken \subseteq survivors
    /\ excused \in BOOLEAN

\* The lock excludes what it can: while no write landed on comments that had
\* changed, no running dispatch outlived the TTL and nobody edited the
\* comment, one agent at most works on the card, an agent that outlived its
\* worker included, until a worker of that agent's own host takes its record.
ExclusiveUnlessExcused ==
    ~excused => \A run, other \in Running \ overtaken : run = other

\* Until then the comment every worker reads names the running dispatch and is
\* neither released nor stale: no worker of another host may reclaim it.
RunningIsOnRecord ==
    ~excused => \A run \in Running \ overtaken :
        /\ LockComment # NoComment
        /\ LockComment.owner = run.worker /\ LockComment.dispatch = run.dispatch
        /\ LockComment.fresh /\ ~LockComment.released

\* A card is never locked for ever: after crashes, leaked locks, failed calls
\* and agents whose end released nothing some agent gets to work on it again.
EventuallyWorkedOn == (Running = {}) ~> (Running # {})
=============================================================================
