----------------------------- MODULE AgentProofs -----------------------------
(***************************************************************************)
(* Proofs about an agent.  First the job of one spawn (AgentJob), whatever  *)
(* ends it and in whatever overlap, for any runtime, any number of recovers *)
(* and with or without failing writes.  Then the record of the agent in     *)
(* settings.json and the two processes that write it (AgentStrikes), for    *)
(* every bound.  The two specifications have no variable in common.         *)
(***************************************************************************)
EXTENDS AgentJob, AgentStrikes, FiniteSetTheorems, FunctionTheorems, TLAPS

-----------------------------------------------------------------------------
(* The job: its inductive invariant. *)

\* Only a running job may be stopped and every stop ends it: the first caller
\* is the only one.
OneCaller ==
    /\ \A c \in Callers : calls[c] # "idle" => status # "running"
    /\ \A c, d \in Callers : calls[c] # "idle" /\ calls[d] # "idle" => c = d

\* A job is ended before it is torn down, and the exit cannot change the
\* status any more once finalize has been called with it.
EndedBeforeCleanup ==
    /\ cleanup # "none" => status # "running"
    /\ cleanup \in {"writing", "done"} => exiting # "draining"

\* What finalize was called with is the status, and until it was called the
\* row is as it was inserted.
FinalizeKnows == launch # "threw" =>
    /\ cleanup \in {"none", "draining"} => row = "running"
    /\ cleanup \in {"writing", "done"} =>
          /\ finalizing = DispatchStatus(status)
          /\ row \in {"running", finalizing}

\* The recover handler runs once in the life of a job.
RecoversCounted == recovering = "idle" => recoverCount <= MaxRecovers

JobInv ==
    /\ JobTypeOK
    /\ OneCaller
    /\ EndedBeforeCleanup
    /\ FinalizeKnows
    /\ RecoversCounted
    /\ FinalizedBeforeReport
    /\ CompletionAfterTeardown

JobSafety == OneCaller /\ EndedBeforeCleanup /\ FinalizeKnows /\ RecoversCounted
          /\ FinalizedBeforeReport /\ CompletionAfterTeardown

-----------------------------------------------------------------------------
\* A job that was just spawned.
LEMMA JobInitEstablishes == JobInit => JobInv
<1> SUFFICES ASSUME JobInit PROVE JobInv
  OBVIOUS
<1> USE JobAssumption DEF JobInit, Callers, Terminal
<1>1. JobTypeOK
  <2>1. calls \in [Callers ->
                     {"idle", "killing", "cleaning", "reporting", "done"}]
    OBVIOUS
  <2>2. recoverCount \in 0..(MaxRecovers + 1) /\ completions \in Nat
    OBVIOUS
  <2>3. resumed \in BOOLEAN
    OBVIOUS
  <2> QED
    BY <2>1, <2>2, <2>3 DEF JobTypeOK
<1>2. JobSafety
  BY DEF JobSafety, OneCaller, EndedBeforeCleanup, FinalizeKnows,
         RecoversCounted, FinalizedBeforeReport, CompletionAfterTeardown
<1> QED
  BY <1>1, <1>2 DEF JobInv, JobSafety

\* The column a status is stored as is one the row may hold.
LEMMA StoredStatus ==
    ASSUME NEW s \in Terminal \cup {"running"}
    PROVE  DispatchStatus(s) \in {"running", "cancelled"}
                                  \cup (Terminal \ {"canceled", "timeout"})
BY DEF DispatchStatus, Terminal

\* Every action of the job keeps the types.
LEMMA JobTypePreserved == JobInv /\ [JobNext]_jobVars => JobTypeOK'
<1> SUFFICES ASSUME JobInv, [JobNext]_jobVars PROVE JobTypeOK'
  OBVIOUS
<1> JobTypeOK /\ RecoversCounted
  BY DEF JobInv
<1> USE JobAssumption DEF JobTypeOK, jobState, teardown, recover, StartCleanup, OnComplete
<1>1. CASE Launch
  BY <1>1 DEF Launch, SpawnSucceeds, SpawnFails, PairingSucceeds,
              PairingRollsBack, StopAgentTree, Terminal
<1>2. CASE ProcessExits \/ ProcessError
  BY <1>2 DEF ProcessExits, ProcessError, Terminal
<1>3. CASE Exit
  BY <1>3 DEF Exit, ExitOfRunning, ExitOfEnded, ExitIsRecorded, Terminal
<1>4. CASE Stop \/ Cancel \/ TimerFires \/ ThrottleFires
  BY <1>4 DEF Stop, Cancel, TimerFires, ThrottleFires, BeginStop,
              StopAgentTree, Callers, Terminal
<1>5. CASE CallStep
  BY <1>5 DEF CallStep, TreeStopped, CleanupAwaited, StatusReported
<1>6. CASE CleanupStep
  BY <1>6, StoredStatus DEF CleanupStep, CleanupDrained, RowSettles
<1>7. CASE RecoverFires \/ RecoverStep
  <2>1. CASE RecoverFires
    BY <1>7, <2>1 DEF RecoverFires, RecoversCounted
  <2>2. CASE PostResume
    BY <1>7, <2>2 DEF PostResume
  <2>3. ASSUME NEW s \in Terminal, StopFromRecover(s)
        PROVE  /\ status' \in Terminal \cup {"running"}
               /\ process' \in {"alive", "signalled", "exited"}
               /\ calls' \in [Callers ->
                      {"idle", "killing", "cleaning", "reporting", "done"}]
    BY <2>3 DEF StopFromRecover, BeginStop, StopAgentTree, Callers
  <2>4. CASE RecoverExhausted
    BY <2>3, <2>4 DEF RecoverExhausted, Terminal
  <2>5. CASE RecoverStops
    BY <2>3, <2>5 DEF RecoverStops, Terminal
  <2> QED
    BY <1>7, <2>1, <2>2, <2>4, <2>5 DEF RecoverStep
<1>8. CASE UNCHANGED jobVars
  BY <1>8 DEF jobVars
<1> QED
  BY <1>1, <1>2, <1>3, <1>4, <1>5, <1>6, <1>7, <1>8 DEF JobNext

\* Every action of the job keeps the rest of the invariant.
LEMMA JobSafetyPreserved == JobInv /\ [JobNext]_jobVars => JobSafety'
<1> SUFFICES ASSUME JobInv, [JobNext]_jobVars PROVE JobSafety'
  OBVIOUS
<1> USE DEF JobInv, JobTypeOK, JobSafety, OneCaller, EndedBeforeCleanup, FinalizeKnows,
            RecoversCounted, FinalizedBeforeReport, CompletionAfterTeardown,
            jobState, teardown, recover, StartCleanup, OnComplete
<1>1. CASE Launch
  BY <1>1 DEF Launch, SpawnSucceeds, SpawnFails, PairingSucceeds,
              PairingRollsBack
<1>2. CASE ProcessExits \/ ProcessError
  BY <1>2 DEF ProcessExits, ProcessError
<1>3. CASE Exit
  BY <1>3 DEF Exit, ExitOfRunning, ExitOfEnded, ExitIsRecorded, ExitIsObserved
<1>4. CASE Stop \/ Cancel \/ TimerFires \/ ThrottleFires
  BY <1>4 DEF Stop, Cancel, TimerFires, ThrottleFires, BeginStop, MayStop,
              Callers
<1>5. CASE CallStep
  BY <1>5 DEF CallStep, TreeStopped, CleanupAwaited, StatusReported
<1>6. CASE CleanupStep
  BY <1>6 DEF CleanupStep, CleanupDrained, RowSettles
<1>7. CASE RecoverFires \/ RecoverStep
  BY <1>7 DEF RecoverFires, RecoverStep, RecoverExhausted, RecoverStops,
              PostResume, StopFromRecover, BeginStop, MayStop, Callers
<1>8. CASE UNCHANGED jobVars
  BY <1>8 DEF jobVars
<1> QED
  BY <1>1, <1>2, <1>3, <1>4, <1>5, <1>6, <1>7, <1>8 DEF JobNext

\* The invariant of a job, in every behaviour.
THEOREM JobInvariance == JobSpec => []JobInv
<1>1. JobInit => JobInv
  BY JobInitEstablishes
<1>2. JobInv /\ [JobNext]_jobVars => JobInv'
  BY JobTypePreserved, JobSafetyPreserved DEF JobInv, JobSafety
<1> QED
  BY <1>1, <1>2, PTL DEF JobSpec

-----------------------------------------------------------------------------
\* Type correctness of a job.
THEOREM JobTypeCorrect == JobSpec => []JobTypeOK
<1>1. JobInv => JobTypeOK
  BY DEF JobInv
<1> QED
  BY <1>1, JobInvariance, PTL

\* Of the stop, the cancel, the recover and the throttle one at most tears the
\* job down.
THEOREM OneTeardownSafe == JobSpec => []OneTeardown
<1>1. ASSUME JobInv PROVE OneTeardown
  <2> DEFINE tearing == {c \in Callers : calls[c] # "idle"}
  <2>1. CASE tearing = {}
    BY <2>1, FS_EmptySet DEF OneTeardown
  <2>2. CASE tearing # {}
    <3>1. PICK c \in Callers : tearing = {c}
      BY <1>1, <2>2 DEF JobInv, OneCaller
    <3>2. Cardinality({c}) = 1
      BY FS_Singleton
    <3> QED
      BY <3>1, <3>2 DEF OneTeardown
  <2> QED
    BY <2>1, <2>2
<1> QED
  BY <1>1, JobInvariance, PTL

\* Row and job agree once the row is written, whatever ended the job and
\* however it overlapped with its own exit.
THEOREM RowMatchesJobSafe == JobSpec => []RowMatchesJob
<1>1. JobInv => RowMatchesJob
  BY DEF JobInv, JobTypeOK, FinalizeKnows, RowMatchesJob
<1> QED
  BY <1>1, JobInvariance, PTL

\* A caller is told only after the write of the row has settled.
THEOREM FinalizedBeforeReportSafe == JobSpec => []FinalizedBeforeReport
<1>1. JobInv => FinalizedBeforeReport
  BY DEF JobInv
<1> QED
  BY <1>1, JobInvariance, PTL

\* The owner is told only of a job that has ended and is being torn down.
THEOREM CompletionAfterTeardownSafe == JobSpec => []CompletionAfterTeardown
<1>1. JobInv => CompletionAfterTeardown
  BY DEF JobInv
<1> QED
  BY <1>1, JobInvariance, PTL

-----------------------------------------------------------------------------
(* The record of the agent in settings.json: its inductive invariant. *)

Records == [count: 0..STRIKES_MAX, broken: Breaks, here: BOOLEAN]

\* What each process asks to be written.
Kinds(p) ==
    IF p = "worker"
    THEN {"strike", "reset", "break", "run", "summary", "failed", "repaired",
          "clear", "rerun"}
    ELSE {"resolve", "delete", "create"}

\* A break has an author, and a run an evaluator.
Asks(p) ==
    {w \in [what: Kinds(p), who: {"nobody", "snapshot", "sync", "prep"},
            id: Evaluators \cup {0}] :
       /\ w.what = "break" => w.who # "nobody"
       /\ w.what = "run" => w.id # 0}

\* A record nobody broke is whole, and so is one that is not there.
Authored(r) == r.broken.by = "nobody" \/ ~r.here => r.broken = Whole
Good(r) == r \in Records /\ Authored(r)

\* Unless a live lock was robbed, who is between the lock and its release has it.
LockHeld ==
    ~robbed => \A p \in Processes : at[p] \in {"open", "read"} => lock = p

\* A break that is asked for is its dispatch's last act.
Breaking(q, j) ==
    /\ \A i \in 1..Len(q) : q[i].what = "break" => j = "breaking"
    /\ \A i, k \in 1..Len(q) :
         q[i].what = "break" /\ q[k].what = "break" => i = k

\* The writes that may call for an evaluator.
ToAnnounce(q) == {i \in 1..Len(q) : q[i].what \in {"strike", "rerun"}}
One(b) == IF b THEN 1 ELSE 0

\* The evaluators there have been and those that may be called for as things
\* are, and so for the repairs.
EvaluatorsDue ==
    spawned + One("broken-transition" \in event) + One(job # "none")
      + Cardinality(ToAnnounce(queue["worker"]))
RepairsDue == repairs + One("sync-repair-needed" \in event) + One(job # "none")

\* Each evaluator was called for by a dispatch or by an act of the operator,
\* each repair by a dispatch, and by none of them twice.
Budget == EvaluatorsDue <= dispatches + acts /\ RepairsDue <= dispatches

\* The file and the two processes at it.
Locks ==
    /\ DOMAIN copy = Processes
    /\ at \in [Processes -> {"idle", "stale", "open", "read"}]
    /\ lock \in Processes \cup {"free", "left"} /\ robbed \in BOOLEAN
    /\ Good(file) /\ \A p \in Processes : Good(copy[p])
    /\ LockHeld /\ NoLostUpdate

\* What is asked for, and who asks.
Work ==
    /\ DOMAIN queue = Processes
    /\ \A p \in Processes : queue[p] \in Seq(Asks(p))
    /\ event \subseteq {"broken-transition", "sync-repair-needed"}
    /\ job \in {"none", "preflight", "working", "breaking"}
    /\ tended \subseteq evaluators /\ evaluators \subseteq Evaluators
    /\ repairs \in Nat /\ spawned \in Nat
    /\ dispatches \in 0..MaxDispatches /\ acts \in 0..MaxActs
    /\ Breaking(queue["worker"], job) /\ Budget

\* Who is at the file has something to write.
Asking == \A p \in Processes : at[p] # "idle" => queue[p] # <<>>

StrikesInv == Locks /\ Work /\ Asking /\ faults \in 0..MaxFaults

-----------------------------------------------------------------------------
(* Writes. *)

LEMMA Bounds ==
    /\ STRIKES_MAX \in Nat \ {0} /\ MaxDispatches \in Nat /\ MaxActs \in Nat
    /\ MaxFaults \in Nat /\ 0 \notin Evaluators
BY BoundsAssumption DEF Evaluators

\* A strike, a reset or a break of an agent that is not there.
Throws(w, r) == ~r.here /\ w.what \in {"strike", "reset", "break"}

\* A write makes a good record of a good one, and only four of them take a
\* break away.
LEMMA MutateGood ==
    ASSUME NEW p \in Processes, NEW w \in Asks(p), NEW r, Good(r), ~Throws(w, r)
    PROVE  /\ Good(Mutate(w, r))
           /\ Broken(r) /\ ~Broken(Mutate(w, r)) =>
                w.what \in {"clear", "resolve", "delete", "repaired"}
<1>1. /\ r \in Records /\ r.count \in 0..STRIKES_MAX /\ r.broken \in Breaks
      /\ r.here \in BOOLEAN /\ Authored(r)
  BY DEF Good, Records
<1>2. Whole \in Breaks /\ Absent \in Records /\ Authored(Absent)
  BY Bounds DEF Whole, Absent, Records, Breaks, Authored
<1>0. w.what \in {"strike", "reset", "break"} => r.here
  BY <1>1 DEF Throws
<1>3. /\ w.what \in Kinds(p) /\ w.id \in Evaluators \cup {0}
      /\ w.who \in {"nobody", "snapshot", "sync", "prep"}
      /\ w.what = "break" => w.who # "nobody"
      /\ w.what = "run" => w.id # 0
  BY DEF Asks
<1>4. CASE w.what = "strike"
  <2>1. Mutate(w, r) = Struck(r)
    BY <1>4 DEF Mutate
  <2>2. (IF r.count < STRIKES_MAX THEN r.count + 1 ELSE STRIKES_MAX) \in 0..STRIKES_MAX
    BY <1>1, Bounds
  <2> DEFINE c == IF r.count < STRIKES_MAX THEN r.count + 1 ELSE STRIKES_MAX
             b == IF c = STRIKES_MAX /\ ~Broken(r)
                  THEN [by |-> "strikes", status |-> "pending", id |-> 0]
                  ELSE r.broken
  <2>3. b \in Breaks /\ (b.by = "nobody" => b = Whole) /\ (Broken(r) => b = r.broken)
    BY <1>1 DEF Breaks, Authored, Broken
  <2>4. Struck(r) = [r EXCEPT !.count = c, !.broken = b]
    BY DEF Struck
  <2> HIDE DEF c, b
  <2>5. /\ Struck(r) \in Records /\ Struck(r).broken = b
    BY <1>1, <2>2, <2>3, <2>4 DEF Records, c
  <2> QED
    BY <1>0, <1>1, <1>4, <2>1, <2>3, <2>4, <2>5 DEF Good, Authored, Broken, Records
<1>5. CASE w.what = "reset"
  BY <1>0, <1>1, <1>5, Bounds DEF Mutate, Reset, Good, Records, Authored, Broken
<1>6. CASE w.what = "break"
  <2>1. BrokenBy(w.who) \in Breaks /\ BrokenBy(w.who) # Whole
    BY <1>3, <1>6 DEF BrokenBy, Breaks, Whole
  <2>2. Mutate(w, r) = [r EXCEPT !.broken = BrokenBy(w.who)]
    BY <1>6 DEF Mutate
  <2> QED
    BY <1>0, <1>1, <1>3, <1>6, <2>1, <2>2 DEF Good, Records, Authored, Broken, BrokenBy
<1>7. CASE w.what = "run"
  <2> DEFINE b == [r.broken EXCEPT !.status = "running", !.id = w.id]
  <2>1. Mutate(w, r) = IF Broken(r) THEN [r EXCEPT !.broken = b] ELSE r
    BY <1>1, <1>7 DEF Mutate, Records
  <2>2. b \in Breaks /\ b # Whole /\ b.by = r.broken.by
    BY <1>1, <1>3 DEF Breaks, Whole
  <2> HIDE DEF b
  <2> QED
    BY <1>1, <2>1, <2>2 DEF Good, Records, Authored, Broken
<1>8. CASE w.what = "summary"
  <2>1. Mutate(w, r) = IF r.broken.id = w.id
           THEN [r EXCEPT !.broken.status = "completed"] ELSE r
    BY <1>8 DEF Mutate
  <2> QED
    BY <1>1, <1>3, <2>1 DEF Good, Records, Authored, Broken, Breaks, Whole
<1>9. CASE w.what = "failed"
  <2>1. Mutate(w, r) = IF r.broken.id = w.id /\ r.broken.status = "running"
                       THEN [r EXCEPT !.broken.status = "failed"] ELSE r
    BY <1>9 DEF Mutate, Failed
  <2> QED
    BY <1>1, <1>3, <2>1 DEF Good, Records, Authored, Broken, Breaks, Whole
<1>10. CASE w.what = "rerun"
  <2> DEFINE b == [r.broken EXCEPT !.status = "pending", !.id = 0]
  <2>1. Mutate(w, r) = IF Broken(r) /\ r.broken.status # "running"
                       THEN [r EXCEPT !.broken = b] ELSE r
    BY <1>1, <1>10 DEF Mutate, Rebound, Records
  <2>2. b \in Breaks /\ b # Whole /\ b.by = r.broken.by
    BY <1>1, <1>3 DEF Breaks, Whole
  <2> HIDE DEF b
  <2> QED
    BY <1>1, <2>1, <2>2 DEF Good, Records, Authored, Broken
<1>11. CASE w.what \in {"clear", "repaired", "resolve", "delete"}
  <2> DEFINE mended == [r EXCEPT !.broken = Whole]
             cleared == [r EXCEPT !.broken = Whole, !.count = 0]
  <2>1. Mutate(w, r) \in {r, Absent, mended, cleared}
    BY <1>11 DEF Mutate, Repaired
  <2>2. mended \in Records /\ Authored(mended)
    BY <1>1, <1>2 DEF Records, Authored
  <2>3. cleared \in Records /\ Authored(cleared)
    <3>1. 0 \in 0..STRIKES_MAX
      BY Bounds
    <3>2. cleared = [mended EXCEPT !.count = 0]
      BY <1>1 DEF Records
    <3>3. mended.broken = Whole
      BY <1>1 DEF Records
    <3> HIDE DEF mended
    <3> HIDE DEF cleared
    <3>4. cleared \in Records
      BY <2>2, <3>1, <3>2 DEF Records
    <3>5. cleared.broken = Whole
      BY <2>2, <3>2, <3>3 DEF Records
    <3> QED
      BY <3>4, <3>5 DEF Authored
  <2> HIDE DEF mended, cleared
  <2> QED
    BY <1>1, <1>2, <1>11, <2>1, <2>2, <2>3 DEF Good
<1>12. CASE w.what = "create"
  <2>1. Mutate(w, r) = IF r.here THEN r ELSE [Absent EXCEPT !.here = TRUE]
    BY <1>12 DEF Mutate
  <2>2. /\ [Absent EXCEPT !.here = TRUE] \in Records
        /\ Authored([Absent EXCEPT !.here = TRUE])
    BY <1>2, Bounds DEF Records, Authored, Absent
  <2>3. ~r.here => ~Broken(r)
    BY <1>1 DEF Authored, Broken
  <2> QED
    BY <1>1, <2>1, <2>2, <2>3 DEF Good, Broken
<1> QED
  BY <1>3, <1>4, <1>5, <1>6, <1>7, <1>8, <1>9, <1>10, <1>11, <1>12 DEF Kinds

-----------------------------------------------------------------------------
(* Queues of writes. *)

\* Of a queue finitely many writes are to be announced.
LEMMA CountType ==
    ASSUME NEW S, NEW q \in Seq(S)
    PROVE  IsFiniteSet(ToAnnounce(q)) /\ Cardinality(ToAnnounce(q)) \in Nat
<1>1. IsFiniteSet(1..Len(q))
  BY FS_Interval
<1>2. ToAnnounce(q) \subseteq 1..Len(q)
  BY DEF ToAnnounce
<1> QED
  BY <1>1, <1>2, FS_Subset, FS_CardinalityType

\* A write that is asked for counts when it is to be announced.
LEMMA AppendCount ==
    ASSUME NEW S, NEW q \in Seq(S), NEW w \in S
    PROVE  Cardinality(ToAnnounce(Append(q, w)))
             = Cardinality(ToAnnounce(q)) + One(w.what \in {"strike", "rerun"})
<1> DEFINE n == Len(q) + 1
<1>1. n \notin ToAnnounce(q)
  BY DEF ToAnnounce
<1>2. ToAnnounce(Append(q, w)) =
        IF w.what \in {"strike", "rerun"} THEN ToAnnounce(q) \cup {n} ELSE ToAnnounce(q)
  <2>1. /\ Len(Append(q, w)) = n /\ Append(q, w)[n] = w
        /\ \A i \in 1..Len(q) : Append(q, w)[i] = q[i]
        /\ 1..n = 1..Len(q) \cup {n}
    OBVIOUS
  <2> QED
    BY <2>1 DEF ToAnnounce
<1>3. Cardinality(ToAnnounce(q) \cup {n}) = Cardinality(ToAnnounce(q)) + 1
  BY <1>1, CountType, FS_AddElement
<1> QED
  BY <1>2, <1>3, CountType DEF One

\* A write that has settled does not count any more.
LEMMA TailCount ==
    ASSUME NEW S, NEW q \in Seq(S), q # <<>>
    PROVE  Cardinality(ToAnnounce(Tail(q))) + One(Head(q).what \in {"strike", "rerun"})
             <= Cardinality(ToAnnounce(q))
<1> DEFINE A == ToAnnounce(Tail(q))
           B == ToAnnounce(q) \ {1}
           f == [i \in A |-> i + 1]
<1>1. /\ Tail(q) \in Seq(S) /\ Len(Tail(q)) = Len(q) - 1 /\ Head(q) = q[1]
      /\ \A i \in 1..Len(Tail(q)) : Tail(q)[i] = q[i + 1]
  OBVIOUS
<1>2. f \in [A -> B]
  <2>1. ASSUME NEW i \in A PROVE i + 1 \in B
    BY <1>1 DEF ToAnnounce
  <2> QED
    BY <2>1
<1>3. \A i, k \in A : f[i] = f[k] => i = k
  BY DEF ToAnnounce
<1>4. IsFiniteSet(B)
  BY CountType, FS_RemoveElement
<1>5. Cardinality(A) <= Cardinality(B)
  <2> HIDE DEF A, B, f
  <2>1. f \in Injection(A, B)
    BY <1>2, <1>3, Fun_IsInj
  <2> QED
    BY <1>4, <2>1, FS_Injection
<1>6. Cardinality(B) =
        IF 1 \in ToAnnounce(q) THEN Cardinality(ToAnnounce(q)) - 1
                               ELSE Cardinality(ToAnnounce(q))
  BY CountType, FS_RemoveElement
<1>7. 1 \in ToAnnounce(q) <=> Head(q).what \in {"strike", "rerun"}
  BY <1>1 DEF ToAnnounce
<1>8. Cardinality(A) \in Nat /\ Cardinality(ToAnnounce(q)) \in Nat
  BY <1>1, CountType
<1> QED
  BY <1>5, <1>6, <1>7, <1>8 DEF One

\* A break is asked for when no other is, and by a dispatch that then breaks.
LEMMA AppendBreaking ==
    ASSUME NEW S, NEW q \in Seq(S), NEW w \in S, NEW j, NEW k, Breaking(q, j),
           \/ w.what # "break" /\ k = j
           \/ j # "breaking" /\ (w.what = "break" => k = "breaking")
    PROVE  Breaking(Append(q, w), k)
<1>1. /\ Len(Append(q, w)) = Len(q) + 1 /\ Append(q, w)[Len(q) + 1] = w
      /\ \A i \in 1..Len(q) : Append(q, w)[i] = q[i]
      /\ \A i \in 1..(Len(q) + 1) : i \in 1..Len(q) \/ i = Len(q) + 1
  OBVIOUS
<1> QED
  BY <1>1 DEF Breaking

\* Once the break at the head has settled none is left.
LEMMA TailBreaking ==
    ASSUME NEW S, NEW q \in Seq(S), q # <<>>, NEW j, Breaking(q, j)
    PROVE  /\ Breaking(Tail(q), j)
           /\ Head(q).what = "break" => j = "breaking" /\ \A k : Breaking(Tail(q), k)
<1>1. /\ Len(Tail(q)) = Len(q) - 1 /\ Head(q) = q[1] /\ Len(q) \in Nat \ {0}
      /\ \A i \in 1..Len(Tail(q)) : Tail(q)[i] = q[i + 1]
  OBVIOUS
<1>2. \A i \in 1..Len(Tail(q)) : i + 1 \in 1..Len(q) /\ i + 1 # 1
  BY <1>1
<1>3. ASSUME NEW i \in 1..Len(Tail(q)), NEW k \in 1..Len(Tail(q)),
             Tail(q)[i].what = "break", Tail(q)[k].what = "break"
      PROVE  i = k
  <2>1. i + 1 = k + 1
    BY <1>1, <1>2, <1>3 DEF Breaking
  <2> QED
    BY <2>1
<1>4. Breaking(Tail(q), j)
  BY <1>1, <1>2, <1>3 DEF Breaking
<1>5. ASSUME Head(q).what = "break"
      PROVE  j = "breaking" /\ \A i \in 1..Len(Tail(q)) : Tail(q)[i].what # "break"
  BY <1>1, <1>2, <1>5 DEF Breaking
<1> QED
  BY <1>4, <1>5 DEF Breaking

-----------------------------------------------------------------------------
\* What the budget leaves to each kind.
LEMMA WorkTypes ==
    ASSUME Work
    PROVE  /\ repairs \in 0..MaxDispatches /\ spawned \in Evaluators \cup {0}
           /\ "broken-transition" \in event => spawned + 1 \in Evaluators
<1>1. Cardinality(ToAnnounce(queue["worker"])) \in Nat
  BY CountType DEF Work, Processes
<1> QED
  BY <1>1, Bounds DEF Work, Budget, EvaluatorsDue, RepairsDue, One, Evaluators

\* The invariant has the types.
LEMMA StrikesTypes == StrikesInv => TypeOK
<1> SUFFICES ASSUME StrikesInv PROVE TypeOK
  OBVIOUS
<1>1. \A r \in {file} \cup {copy[p] : p \in Processes} :
         r.count \in 0..STRIKES_MAX /\ r.broken \in Breaks /\ r.here \in BOOLEAN
  BY DEF StrikesInv, Locks, Good, Records
<1> QED
  BY <1>1, WorkTypes DEF StrikesInv, Locks, Work, Asking, TypeOK

\* A write is asked for: the queue has one more.
LEMMA AskedFacts ==
    ASSUME Work, NEW p \in Processes, NEW w \in Asks(p), queue' = Asked(p, w)
    PROVE  /\ DOMAIN queue' = Processes
           /\ \A q \in Processes : queue'[q] \in Seq(Asks(q))
           /\ \A q \in Processes : queue[q] # <<>> => queue'[q] # <<>>
           /\ queue'["worker"] = IF p = "worker" THEN Append(queue["worker"], w)
                                                 ELSE queue["worker"]
           /\ Cardinality(ToAnnounce(queue'["worker"])) =
                Cardinality(ToAnnounce(queue["worker"]))
                  + One(p = "worker" /\ w.what \in {"strike", "rerun"})
           /\ Cardinality(ToAnnounce(queue["worker"])) \in Nat
           /\ \A k : /\ p = "worker"
                     /\ \/ w.what # "break" /\ k = job
                        \/ job # "breaking" /\ (w.what = "break" => k = "breaking")
                     => Breaking(queue'["worker"], k)
<1>1. DOMAIN queue = Processes /\ \A q \in Processes : queue[q] \in Seq(Asks(q))
  BY DEF Work
<1>2. /\ DOMAIN queue' = Processes
      /\ \A q \in Processes : queue'[q] = IF q = p THEN Append(queue[q], w) ELSE queue[q]
  BY <1>1 DEF Asked
<1>3. Append(queue[p], w) \in Seq(Asks(p)) /\ Append(queue[p], w) # <<>>
  BY <1>1
<1>4. queue["worker"] \in Seq(Asks("worker")) /\ "worker" \in Processes
  BY <1>1 DEF Processes
<1>5. p = "worker" =>
        Cardinality(ToAnnounce(Append(queue["worker"], w)))
          = Cardinality(ToAnnounce(queue["worker"])) + One(w.what \in {"strike", "rerun"})
  BY <1>4, AppendCount
<1>6. Cardinality(ToAnnounce(queue["worker"])) \in Nat
  BY <1>4, CountType
<1>7. p = "worker" => \A k :
           \/ w.what # "break" /\ k = job
           \/ job # "breaking" /\ (w.what = "break" => k = "breaking")
           => Breaking(Append(queue["worker"], w), k)
  BY <1>4, AppendBreaking DEF Work
<1>8. /\ \A q \in Processes : queue'[q] \in Seq(Asks(q))
      /\ \A q \in Processes : queue[q] # <<>> => queue'[q] # <<>>
  BY <1>1, <1>2, <1>3
<1>9. queue'["worker"] = IF p = "worker" THEN Append(queue["worker"], w)
                                         ELSE queue["worker"]
  BY <1>2, <1>4
<1>10. Cardinality(ToAnnounce(queue'["worker"])) =
         Cardinality(ToAnnounce(queue["worker"]))
           + One(p = "worker" /\ w.what \in {"strike", "rerun"})
  <2>1. CASE p = "worker"
    <3>1. One(p = "worker" /\ w.what \in {"strike", "rerun"})
            = One(w.what \in {"strike", "rerun"})
      BY <2>1
    <3> QED
      BY <1>5, <1>9, <2>1, <3>1
  <2>2. CASE p # "worker"
    BY <1>6, <1>9, <2>2 DEF One
  <2> QED
    BY <2>1, <2>2
<1> QED
  BY <1>2, <1>6, <1>7, <1>8, <1>9, <1>10

\* A write that has settled leaves the queue.
LEMMA RestFacts ==
    ASSUME Work, NEW p \in Processes, queue[p] # <<>>
    PROVE  LET rest == [queue EXCEPT ![p] = Tail(@)]
               n == Cardinality(ToAnnounce(queue["worker"])) IN
           /\ Head(queue[p]) \in Asks(p)
           /\ DOMAIN rest = Processes
           /\ \A q \in Processes : rest[q] \in Seq(Asks(q))
           /\ \A q \in Processes \ {p} : rest[q] = queue[q]
           /\ Cardinality(ToAnnounce(rest["worker"])) \in Nat /\ n \in Nat
           /\ Cardinality(ToAnnounce(rest["worker"]))
                + One(p = "worker" /\ Head(queue[p]).what \in {"strike", "rerun"}) <= n
           /\ Breaking(rest["worker"], job)
           /\ Head(queue[p]).what = "break" =>
                p = "worker" /\ job = "breaking" /\ \A k : Breaking(rest["worker"], k)
<1> DEFINE rest == [queue EXCEPT ![p] = Tail(@)]
<1>1. DOMAIN queue = Processes /\ \A q \in Processes : queue[q] \in Seq(Asks(q))
  BY DEF Work
<1>2. Head(queue[p]) \in Asks(p) /\ Tail(queue[p]) \in Seq(Asks(p))
  BY <1>1
<1>3. /\ DOMAIN rest = Processes
      /\ \A q \in Processes : rest[q] = IF q = p THEN Tail(queue[q]) ELSE queue[q]
  BY <1>1
<1>4. "worker" \in Processes /\ queue["worker"] \in Seq(Asks("worker"))
  BY <1>1 DEF Processes
<1>5. rest["worker"] \in Seq(Asks("worker"))
  BY <1>2, <1>3, <1>4
<1>6. /\ Cardinality(ToAnnounce(queue["worker"])) \in Nat
      /\ Cardinality(ToAnnounce(rest["worker"])) \in Nat
  BY <1>4, <1>5, CountType
<1>7. CASE p = "worker"
  <2>1. rest["worker"] = Tail(queue["worker"])
    BY <1>3, <1>4, <1>7
  <2>2. Cardinality(ToAnnounce(Tail(queue["worker"])))
          + One(Head(queue["worker"]).what \in {"strike", "rerun"})
          <= Cardinality(ToAnnounce(queue["worker"]))
    BY <1>4, <1>7, TailCount
  <2>3. /\ Breaking(Tail(queue["worker"]), job)
        /\ Head(queue["worker"]).what = "break" =>
             job = "breaking" /\ \A k : Breaking(Tail(queue["worker"]), k)
    BY <1>4, <1>7, TailBreaking DEF Work
  <2> HIDE DEF rest
  <2>4. One(p = "worker" /\ Head(queue[p]).what \in {"strike", "rerun"})
          = One(Head(queue["worker"]).what \in {"strike", "rerun"})
    BY <1>7
  <2>5. /\ Cardinality(ToAnnounce(rest["worker"]))
             + One(p = "worker" /\ Head(queue[p]).what \in {"strike", "rerun"})
             <= Cardinality(ToAnnounce(queue["worker"]))
        /\ Breaking(rest["worker"], job)
        /\ Head(queue[p]).what = "break" =>
             p = "worker" /\ job = "breaking" /\ \A k : Breaking(rest["worker"], k)
    BY <1>7, <2>1, <2>2, <2>3, <2>4
  <2>6. \A q \in Processes : rest[q] \in Seq(Asks(q))
    BY <1>1, <1>2, <1>3
  <2> QED
    BY <1>2, <1>3, <1>6, <2>5, <2>6 DEF rest
<1>8. CASE p # "worker"
  <2>1. rest["worker"] = queue["worker"]
    BY <1>3, <1>4, <1>8
  <2>2. Head(queue[p]).what # "break"
    BY <1>2, <1>8 DEF Asks, Kinds
  <2>3. Breaking(queue["worker"], job)
    BY DEF Work
  <2> HIDE DEF rest
  <2>5. /\ Cardinality(ToAnnounce(rest["worker"]))
             + One(p = "worker" /\ Head(queue[p]).what \in {"strike", "rerun"})
             <= Cardinality(ToAnnounce(queue["worker"]))
        /\ Breaking(rest["worker"], job)
    BY <1>6, <1>8, <2>1, <2>3 DEF One
  <2>6. \A q \in Processes : rest[q] \in Seq(Asks(q))
    BY <1>1, <1>2, <1>3
  <2> QED
    BY <1>2, <1>3, <1>6, <2>2, <2>5, <2>6 DEF rest
<1> QED
  BY <1>7, <1>8

\* A caller whose write has settled, or threw, goes on: an evaluator is spawned,
\* a dispatch fails or strikes, an event is emitted, each on its own budget.
LEMMA SettledWork ==
    ASSUME Work, NEW p \in Processes, queue[p] # <<>>,
           NEW done \in BOOLEAN, NEW made \in BOOLEAN, Settled(p, done, made),
           acts' = acts
    PROVE  /\ Work'
           /\ \A q \in Processes \ {p} : queue[q] # <<>> => queue'[q] # <<>>
<1> DEFINE w == Head(queue[p])
           rest == [queue EXCEPT ![p] = Tail(@)]
           n == Cardinality(ToAnnounce(queue["worker"]))
           m == Cardinality(ToAnnounce(rest["worker"]))
<1>1. /\ w \in Asks(p)
      /\ DOMAIN rest = Processes
      /\ \A q \in Processes : rest[q] \in Seq(Asks(q))
      /\ \A q \in Processes \ {p} : rest[q] = queue[q]
      /\ m \in Nat /\ n \in Nat
      /\ m + One(p = "worker" /\ w.what \in {"strike", "rerun"}) <= n
      /\ Breaking(rest["worker"], job)
      /\ w.what = "break" =>
           p = "worker" /\ job = "breaking" /\ \A k : Breaking(rest["worker"], k)
  BY RestFacts
<1>2. UNCHANGED <<repairs, spawned, dispatches>>
  BY DEF Settled
<1>3. w.what \in Kinds(p) /\ w.id \in Evaluators \cup {0}
      /\ (w.what = "run" => w.id # 0)
      /\ w.who \in {"nobody", "snapshot", "sync", "prep"}
  BY <1>1 DEF Asks
<1>4. "worker" \in Processes
  BY DEF Processes
<1> HIDE DEF w, rest, m, n
\* the queue with one more write of the worker, that is not a break
<1>5. ASSUME NEW v \in Asks("worker"), v.what # "break", NEW k,
             Breaking(rest["worker"], k),
             queue' = [rest EXCEPT !["worker"] = Append(@, v)]
      PROVE  /\ DOMAIN queue' = Processes
             /\ \A q \in Processes : queue'[q] \in Seq(Asks(q))
             /\ \A q \in Processes \ {p} : queue[q] # <<>> => queue'[q] # <<>>
             /\ Breaking(queue'["worker"], k)
             /\ Cardinality(ToAnnounce(queue'["worker"]))
                  = m + One(v.what \in {"strike", "rerun"})
  <2>1. rest["worker"] \in Seq(Asks("worker"))
    BY <1>1, <1>4
  <2>2. /\ Append(rest["worker"], v) \in Seq(Asks("worker"))
        /\ Append(rest["worker"], v) # <<>>
    BY <2>1
  <2>3. Breaking(Append(rest["worker"], v), k)
    BY <2>1, <1>5, AppendBreaking
  <2>4. Cardinality(ToAnnounce(Append(rest["worker"], v)))
          = m + One(v.what \in {"strike", "rerun"})
    BY <2>1, AppendCount DEF m
  <2>5. queue'["worker"] = Append(rest["worker"], v)
    BY <1>1, <1>4, <1>5
  <2>6. \A q \in Processes : queue'[q] \in Seq(Asks(q))
    BY <1>1, <1>5, <2>2
  <2>7. \A q \in Processes \ {p} : queue[q] # <<>> => queue'[q] # <<>>
    BY <1>1, <1>5, <2>2
  <2> QED
    BY <1>1, <1>5, <2>3, <2>4, <2>5, <2>6, <2>7
<1>b. /\ spawned + One("broken-transition" \in event) + One(job # "none") + n
           <= dispatches + acts
      /\ repairs + One("sync-repair-needed" \in event) + One(job # "none")
           <= dispatches
      /\ spawned \in Nat /\ repairs \in Nat /\ dispatches \in Nat /\ acts \in Nat
  BY Bounds DEF Work, Budget, EvaluatorsDue, RepairsDue, n
\* nobody's budget is exceeded
<1>w. ASSUME DOMAIN queue' = Processes,
             \A q \in Processes : queue'[q] \in Seq(Asks(q)),
             event' \subseteq {"broken-transition", "sync-repair-needed"},
             job' \in {"none", "preflight", "working", "breaking"},
             tended' \subseteq evaluators', evaluators' \subseteq Evaluators,
             Breaking(queue'["worker"], job'),
             One("broken-transition" \in event') + One(job' # "none")
               + Cardinality(ToAnnounce(queue'["worker"]))
               <= One("broken-transition" \in event) + One(job # "none") + n,
             One("sync-repair-needed" \in event') + One(job' # "none")
               <= One("sync-repair-needed" \in event) + One(job # "none"),
             Cardinality(ToAnnounce(queue'["worker"])) \in Nat
      PROVE  Work'
  <2>1. \A x : One(x) \in {0, 1}
    BY DEF One
  <2> DEFINE a == One("broken-transition" \in event)
             b == One("broken-transition" \in event')
             c == One("sync-repair-needed" \in event)
             d == One("sync-repair-needed" \in event')
             j == One(job # "none")
             k == One(job' # "none")
             l == Cardinality(ToAnnounce(queue'["worker"]))
  <2>2. /\ a \in {0, 1} /\ b \in {0, 1} /\ c \in {0, 1} /\ d \in {0, 1}
        /\ j \in {0, 1} /\ k \in {0, 1}
    BY DEF One
  <2>5. l \in Nat /\ n \in Nat
    BY <1>1, <1>w
  <2>6. b + k + l <= a + j + n /\ d + k <= c + j
    BY <1>w
  <2>7. spawned + a + j + n <= dispatches + acts /\ repairs + c + j <= dispatches
    BY <1>b
  <2> HIDE DEF a, b, c, d, j, k, l
  <2>3. spawned + b + k + l <= dispatches + acts /\ repairs + d + k <= dispatches
    BY <1>b, <2>2, <2>5, <2>6, <2>7
  <2>4. Budget'
    BY <1>2, <2>3 DEF Budget, EvaluatorsDue, RepairsDue, b, d, k, l
  <2> QED
    BY <1>2, <1>w, <2>4 DEF Work
<1>6. CASE queue' = rest
  <2>1. /\ DOMAIN queue' = Processes
        /\ \A q \in Processes : queue'[q] \in Seq(Asks(q))
        /\ \A q \in Processes \ {p} : queue[q] # <<>> => queue'[q] # <<>>
        /\ Cardinality(ToAnnounce(queue'["worker"])) = m
    BY <1>1, <1>6 DEF m
  <2>2. CASE w.what = "run" /\ done
    <3>1. evaluators' = evaluators \cup {w.id} /\ tended' = tended \cup {w.id}
          /\ UNCHANGED <<job, event>>
      <4>1. RunSettled(w.id, rest)
        BY <2>2 DEF Settled, w, rest
      <4>2. rest # [rest EXCEPT !["worker"] = Append(@, Write("failed", "nobody", w.id))]
        <5>1. rest["worker"] # Append(rest["worker"], Write("failed", "nobody", w.id))
          <6>1. rest["worker"] \in Seq(Asks("worker"))
            BY <1>1, <1>4
          <6>2. Len(Append(rest["worker"], Write("failed", "nobody", w.id)))
                  # Len(rest["worker"])
            BY <6>1
          <6> QED
            BY <6>2
        <5> QED
          BY <1>1, <1>4, <5>1
      <4> QED
        BY <1>6, <4>1, <4>2 DEF RunSettled
    <3> QED
      BY <1>1, <1>3, <1>6, <1>w, <2>1, <2>2, <3>1 DEF Work, One
  <2>3. CASE w.what = "break"
    <3>1. BreakSettled(w.who, done, rest)
      BY <2>3 DEF Settled, w, rest
    <3>2. /\ job' \in {"none", "working"} /\ UNCHANGED <<evaluators, tended>>
          /\ event' \in {event, event \cup {"sync-repair-needed"}}
          /\ event' # event => job' = "none"
      BY <3>1 DEF BreakSettled
    <3>3. job = "breaking" /\ Breaking(rest["worker"], job')
      BY <1>1, <2>3
    <3> QED
      BY <1>1, <1>6, <1>w, <2>1, <3>2, <3>3 DEF Work, One
  <2>4. CASE w.what \in {"strike", "rerun"} /\ made
    <3>1. event' = event \cup {"broken-transition"} /\ UNCHANGED <<job, evaluators, tended>>
      BY <2>4 DEF Settled, w, rest
    <3>2. p = "worker"
      BY <1>3, <2>4 DEF Kinds
    <3> QED
      BY <1>1, <1>6, <1>w, <2>1, <2>4, <3>1, <3>2 DEF Work, One
  <2>5. CASE ~(w.what = "run" /\ done) /\ w.what # "break"
              /\ ~(w.what \in {"strike", "rerun"} /\ made)
    <3>1. UNCHANGED <<job, evaluators, tended, event>>
      BY <2>5 DEF Settled, w, rest
    <3> QED
      BY <1>1, <1>6, <1>w, <2>1, <3>1 DEF Work, One
  <2> QED
    BY <2>2, <2>3, <2>4, <2>5
<1>7. CASE w.what = "run" /\ UNCHANGED <<evaluators, tended, job, event>>
           /\ queue' = [rest EXCEPT !["worker"] = Append(@, Write("failed", "nobody", w.id))]
  <2> DEFINE v == Write("failed", "nobody", w.id)
  <2>1. v \in Asks("worker") /\ v.what # "break" /\ One(v.what \in {"strike", "rerun"}) = 0
    BY <1>3 DEF Write, Asks, Kinds, One
  <2>2. queue' = [rest EXCEPT !["worker"] = Append(@, v)]
    BY <1>7
  <2>3. Breaking(rest["worker"], job) /\ m \in Nat
    BY <1>1, <1>7
  <2> HIDE DEF v
  <2>4. /\ DOMAIN queue' = Processes
        /\ \A q \in Processes : queue'[q] \in Seq(Asks(q))
        /\ \A q \in Processes \ {p} : queue[q] # <<>> => queue'[q] # <<>>
        /\ Breaking(queue'["worker"], job)
        /\ Cardinality(ToAnnounce(queue'["worker"])) = m + 0
    BY <1>5, <2>1, <2>2, <2>3
  <2> QED
    BY <1>1, <1>7, <1>w, <2>4 DEF Work, One
<1>8. CASE /\ w.what = "break" /\ job' = "none"
           /\ event' = event /\ UNCHANGED <<evaluators, tended>>
           /\ queue' = [rest EXCEPT !["worker"] = Append(@, Write("strike", "nobody", 0))]
  <2> DEFINE v == Write("strike", "nobody", 0)
  <2>1. v \in Asks("worker") /\ v.what # "break" /\ One(v.what \in {"strike", "rerun"}) = 1
    BY <1>3 DEF Write, Asks, Kinds, One
  <2>2. queue' = [rest EXCEPT !["worker"] = Append(@, v)]
    BY <1>8
  <2>3. Breaking(rest["worker"], "none") /\ m \in Nat
    BY <1>1, <1>8
  <2> HIDE DEF v
  <2>4. /\ DOMAIN queue' = Processes
        /\ \A q \in Processes : queue'[q] \in Seq(Asks(q))
        /\ \A q \in Processes \ {p} : queue[q] # <<>> => queue'[q] # <<>>
        /\ Breaking(queue'["worker"], "none")
        /\ Cardinality(ToAnnounce(queue'["worker"])) = m + 1
    BY <1>5, <2>1, <2>2, <2>3
  <2> QED
    BY <1>1, <1>8, <1>w, <2>4 DEF Work, One
<1>9. \/ queue' = rest
      \/ /\ w.what = "run" /\ UNCHANGED <<evaluators, tended, job, event>>
         /\ queue' = [rest EXCEPT !["worker"] = Append(@, Write("failed", "nobody", w.id))]
      \/ /\ w.what = "break" /\ job' = "none"
         /\ event' = event /\ UNCHANGED <<evaluators, tended>>
         /\ queue' = [rest EXCEPT !["worker"] = Append(@, Write("strike", "nobody", 0))]
  BY DEF Settled, RunSettled, BreakSettled, w, rest
<1> QED
  BY <1>6, <1>7, <1>8, <1>9
-----------------------------------------------------------------------------
(* Steps at the lock file. *)

\* Work that nobody touches stays as it is.
LEMMA SameWork ==
    ASSUME Work, UNCHANGED <<queue, event, job, evaluators, tended, repairs,
                             spawned, dispatches, acts>>
    PROVE  Work'
BY DEF Work, Budget, EvaluatorsDue, RepairsDue

LEMMA OpenInv ==
    ASSUME StrikesInv, NEW p \in Processes, Open(p)
    PROVE  StrikesInv'
<1>1. Work'
  BY SameWork DEF StrikesInv, Open, agents
<1>2. Asking' /\ faults' \in 0..MaxFaults
  BY DEF StrikesInv, Asking, Locks, Open, Turn
<1>3. LockHeld'
  BY DEF StrikesInv, Locks, LockHeld, Open, Turn, Processes
<1>4. NoLostUpdate'
  BY DEF StrikesInv, Locks, NoLostUpdate, Open
<1> QED
  BY <1>1, <1>2, <1>3, <1>4 DEF StrikesInv, Locks, Open

LEMMA SeesStaleInv ==
    ASSUME StrikesInv, NEW p \in Processes, SeesStale(p)
    PROVE  StrikesInv'
<1>1. Work'
  BY SameWork DEF StrikesInv, SeesStale, agents
<1>2. Asking' /\ faults' \in 0..MaxFaults
  BY DEF StrikesInv, Asking, Locks, SeesStale, Turn
<1>3. LockHeld' /\ NoLostUpdate'
  BY DEF StrikesInv, Locks, LockHeld, NoLostUpdate, SeesStale
<1> QED
  BY <1>1, <1>2, <1>3 DEF StrikesInv, Locks, SeesStale

\* A leftover is taken, or somebody is robbed.
LEMMA StealInv ==
    ASSUME StrikesInv, NEW p \in Processes, Steal(p)
    PROVE  StrikesInv'
<1>1. Work'
  BY SameWork DEF StrikesInv, Steal, agents
<1>2. Asking' /\ faults' \in 0..MaxFaults
  BY DEF StrikesInv, Asking, Locks, Steal
<1>3. LockHeld' /\ NoLostUpdate'
  BY DEF StrikesInv, Locks, LockHeld, NoLostUpdate, Steal
<1>4. robbed' \in BOOLEAN
  BY DEF StrikesInv, Locks, Steal
<1> QED
  BY <1>1, <1>2, <1>3, <1>4 DEF StrikesInv, Locks, Steal

LEMMA ReadInv ==
    ASSUME StrikesInv, NEW p \in Processes, Read(p)
    PROVE  StrikesInv'
<1>1. Work'
  BY SameWork DEF StrikesInv, Read, agents
<1>2. Asking' /\ faults' \in 0..MaxFaults
  BY DEF StrikesInv, Asking, Locks, Read
<1>3. LockHeld' /\ NoLostUpdate' /\ \A q \in Processes : Good(copy'[q])
  BY DEF StrikesInv, Locks, LockHeld, NoLostUpdate, Read
<1>4. file' = file /\ Good(file)'
  BY DEF StrikesInv, Locks, Read
<1> QED
  BY <1>1, <1>2, <1>3, <1>4 DEF StrikesInv, Locks, Read

\* Nobody else is about to write when a write is done, unless it was robbed.
LEMMA WriteAndReleaseInv ==
    ASSUME StrikesInv, NEW p \in Processes, WriteAndRelease(p)
    PROVE  /\ StrikesInv'
           /\ Broken(file) /\ ~Broken(file') =>
                \/ robbed
                \/ Head(queue[p]).what \in {"clear", "resolve", "delete", "repaired"}
<1> DEFINE w == Head(queue[p])
           throws == ~copy[p].here /\ w.what \in {"strike", "reset", "break"}
<1>1. queue[p] # <<>> /\ at[p] = "read"
  BY DEF StrikesInv, Asking, WriteAndRelease
<1>2. w \in Asks(p)
  BY <1>1, RestFacts DEF StrikesInv
<1>3. Good(copy[p]) /\ (copy[p] = file \/ robbed)
  BY <1>1 DEF StrikesInv, Locks, NoLostUpdate
<1>4. file' = IF throws THEN file ELSE Mutate(w, copy[p])
  BY DEF WriteAndRelease
<1>5. throws <=> Throws(w, copy[p])
  BY DEF Throws
<1> HIDE DEF w
<1>6. ~throws =>
        /\ Good(Mutate(w, copy[p]))
        /\ Broken(copy[p]) /\ ~Broken(Mutate(w, copy[p])) =>
             w.what \in {"clear", "resolve", "delete", "repaired"}
  BY <1>2, <1>3, <1>5, MutateGood
<1>7. Good(file')
  BY <1>4, <1>6 DEF StrikesInv, Locks
<1>8. Work' /\ \A q \in Processes \ {p} : queue[q] # <<>> => queue'[q] # <<>>
  <2>1. Settled(p, ~throws, Announces(w, copy[p])) /\ acts' = acts
    BY DEF WriteAndRelease, w
  <2>2. (~throws) \in BOOLEAN /\ Announces(w, copy[p]) \in BOOLEAN
    BY <1>3 DEF Announces, Good, Records
  <2> HIDE DEF throws
  <2>3. Work
    BY DEF StrikesInv
  <2> QED
    BY <1>1, <2>1, <2>2, <2>3, SettledWork
<1>9. /\ lock' = "free" /\ at' = [at EXCEPT ![p] = "idle"]
      /\ copy' = [copy EXCEPT ![p] = Absent] /\ UNCHANGED <<robbed, faults>>
  BY DEF WriteAndRelease
<1>10. Asking' /\ faults' \in 0..MaxFaults
  BY <1>8, <1>9 DEF StrikesInv, Asking, Locks
<1>11. LockHeld' /\ NoLostUpdate'
  BY <1>1, <1>9 DEF StrikesInv, Locks, LockHeld, NoLostUpdate
<1>12. Good(Absent)
  BY Bounds DEF Good, Records, Authored, Absent, Whole, Breaks
<1>13. \A q \in Processes : Good(copy'[q])
  BY <1>9, <1>12 DEF StrikesInv, Locks
<1>14. StrikesInv'
  BY <1>7, <1>8, <1>9, <1>10, <1>11, <1>13 DEF StrikesInv, Locks
<1>15. Broken(file) /\ ~Broken(file') =>
         robbed \/ w.what \in {"clear", "resolve", "delete", "repaired"}
  BY <1>3, <1>4, <1>6
<1> QED
  BY <1>14, <1>15 DEF w

LEMMA GivesUpInv ==
    ASSUME StrikesInv, NEW p \in Processes, GivesUp(p)
    PROVE  StrikesInv'
<1>1. Work' /\ \A q \in Processes \ {p} : queue[q] # <<>> => queue'[q] # <<>>
  BY SettledWork DEF StrikesInv, GivesUp, Turn
<1>2. at[p] = "idle" /\ UNCHANGED settings
  BY DEF GivesUp, Turn
<1>3. Asking'
  BY <1>1, <1>2 DEF StrikesInv, Asking, settings
<1>4. Locks'
  BY <1>2 DEF StrikesInv, Locks, LockHeld, NoLostUpdate, settings
<1>5. faults' \in 0..MaxFaults
  BY Bounds DEF StrikesInv, GivesUp
<1> QED
  BY <1>1, <1>3, <1>4, <1>5 DEF StrikesInv

\* What a crash leaves behind is nobody's lock, and no evaluator is called for
\* by the writes that are gone.
LEMMA CrashInv ==
    ASSUME StrikesInv, NEW p \in Processes, Crash(p)
    PROVE  StrikesInv'
<1>1. /\ lock' = IF lock = p THEN "left" ELSE lock
      /\ at' = [at EXCEPT ![p] = "idle"] /\ copy' = [copy EXCEPT ![p] = Absent]
      /\ UNCHANGED <<file, robbed, evaluators, spawned, dispatches, acts>>
      /\ queue' = [queue EXCEPT ![p] = <<>>]
      /\ faults' \in 0..MaxFaults
  BY Bounds DEF StrikesInv, Crash
<1>2. Good(Absent)
  BY Bounds DEF Good, Records, Authored, Absent, Whole, Breaks
<1>3. \A q \in Processes : Good(copy'[q])
  BY <1>1, <1>2 DEF StrikesInv, Locks
<1>4. LockHeld' /\ NoLostUpdate'
  BY <1>1 DEF StrikesInv, Locks, LockHeld, NoLostUpdate
<1>5. lock' \in Processes \cup {"free", "left"}
  BY <1>1 DEF StrikesInv, Locks
<1>6. Locks'
  BY <1>1, <1>3, <1>4, <1>5 DEF StrikesInv, Locks
<1>7. Asking'
  BY <1>1 DEF StrikesInv, Asking, Locks, Work
<1>8. /\ DOMAIN queue' = Processes
      /\ \A q \in Processes : queue'[q] = IF q = p THEN <<>> ELSE queue[q]
      /\ \A q \in Processes : queue'[q] \in Seq(Asks(q))
  BY <1>1 DEF StrikesInv, Work
<1>9. CASE p = "worker"
  <2>1. /\ event' = {} /\ tended' = {} /\ repairs' = 0
        /\ job' = IF job \in {"preflight", "breaking"} THEN "none" ELSE job
    BY <1>9 DEF Crash
  <2>2. queue'["worker"] = <<>>
    BY <1>8, <1>9
  <2>3. ToAnnounce(<<>>) = {} /\ Breaking(<<>>, job')
    BY DEF ToAnnounce, Breaking
  <2>4. Cardinality(ToAnnounce(queue'["worker"])) = 0
    BY <2>2, <2>3, FS_EmptySet
  <2>5. /\ spawned + One("broken-transition" \in event) + One(job # "none")
             + Cardinality(ToAnnounce(queue["worker"])) <= dispatches + acts
        /\ repairs + One("sync-repair-needed" \in event) + One(job # "none")
             <= dispatches
        /\ Cardinality(ToAnnounce(queue["worker"])) \in Nat
        /\ spawned \in Nat /\ repairs \in Nat /\ dispatches \in Nat /\ acts \in Nat
    BY Bounds, CountType DEF StrikesInv, Work, Budget, EvaluatorsDue,
         RepairsDue, Processes
  <2> DEFINE a == One("broken-transition" \in event)
             c == One("sync-repair-needed" \in event)
             j == One(job # "none")
             k == One(job' # "none")
             n == Cardinality(ToAnnounce(queue["worker"]))
  <2>6. /\ a \in {0, 1} /\ c \in {0, 1} /\ j \in {0, 1} /\ k \in {0, 1} /\ k <= j
    BY <2>1 DEF One
  <2>7. One("broken-transition" \in event') = 0 /\ One("sync-repair-needed" \in event') = 0
    BY <2>1 DEF One
  <2> HIDE DEF a, c, j, k, n
  <2>8. spawned + 0 + k + 0 <= dispatches + acts /\ 0 + 0 + k <= dispatches
    BY <2>5, <2>6 DEF a, c, j, n
  <2>9. Budget'
    BY <1>1, <2>1, <2>4, <2>7, <2>8 DEF Budget, EvaluatorsDue, RepairsDue, k
  <2>10. Work'
    BY <1>1, <1>8, <2>1, <2>2, <2>3, <2>9 DEF StrikesInv, Work
  <2> QED
    BY <1>1, <1>6, <1>7, <2>10 DEF StrikesInv
<1>10. CASE p # "worker"
  <2>1. UNCHANGED <<event, tended, repairs, job>> /\ queue'["worker"] = queue["worker"]
    BY <1>8, <1>10 DEF Crash, Processes
  <2>2. Work'
    BY <1>1, <1>8, <2>1 DEF StrikesInv, Work, Budget, EvaluatorsDue, RepairsDue
  <2> QED
    BY <1>1, <1>6, <1>7, <2>2 DEF StrikesInv
<1> QED
  BY <1>9, <1>10

-----------------------------------------------------------------------------
(* Steps of the worker and of the operator, which ask for writes. *)

\* Nothing at the file changes but who has asked.
LEMMA SameLocks ==
    ASSUME StrikesInv, UNCHANGED settings, faults' = faults,
           \A p \in Processes : queue[p] # <<>> => queue'[p] # <<>>,
           Work'
    PROVE  StrikesInv'
BY DEF StrikesInv, Locks, LockHeld, NoLostUpdate, Asking, settings

LEMMA DueTypes ==
    ASSUME Work
    PROVE  EvaluatorsDue \in Nat /\ RepairsDue \in Nat
<1>1. Cardinality(ToAnnounce(queue["worker"])) \in Nat
  BY CountType DEF Work, Processes
<1>2. One("broken-transition" \in event) \in Nat /\ One(job # "none") \in Nat
      /\ One("sync-repair-needed" \in event) \in Nat
  BY DEF One
<1> QED
  BY <1>1, <1>2 DEF Work, EvaluatorsDue, RepairsDue

\* A step of the worker or of the operator that asks for i evaluators: it is
\* not at the file, and the dispatches and the acts still pay for them and for
\* the repairs.
Pays(i) ==
    /\ UNCHANGED settings /\ faults' = faults
    /\ event' \subseteq {"broken-transition", "sync-repair-needed"}
    /\ job' \in {"none", "preflight", "working", "breaking"}
    /\ tended' \subseteq evaluators' /\ evaluators' \subseteq Evaluators
    /\ repairs' \in Nat /\ spawned' \in Nat
    /\ dispatches' \in 0..MaxDispatches /\ acts' \in 0..MaxActs
    /\ spawned' + One("broken-transition" \in event') + One(job' # "none") + i
         + dispatches + acts
         <= spawned + One("broken-transition" \in event) + One(job # "none")
              + dispatches' + acts'
    /\ repairs' + One("sync-repair-needed" \in event') + One(job' # "none")
         + dispatches
         <= repairs + One("sync-repair-needed" \in event) + One(job # "none")
              + dispatches'

LEMMA PaysBudget ==
    ASSUME Work, NEW i \in Nat, Pays(i),
           Cardinality(ToAnnounce(queue'["worker"]))
             = Cardinality(ToAnnounce(queue["worker"])) + i
    PROVE  Budget'
<1>1. \A x : One(x) \in Nat
  BY DEF One
<1>2. PICK e \in Nat : e = One("broken-transition" \in event)
  BY <1>1
<1>3. PICK f \in Nat : f = One("broken-transition" \in event')
  BY <1>1
<1>4. PICK c \in Nat : c = One("sync-repair-needed" \in event)
  BY <1>1
<1>5. PICK d \in Nat : d = One("sync-repair-needed" \in event')
  BY <1>1
<1>6. PICK j \in Nat : j = One(job # "none")
  BY <1>1
<1>7. PICK k \in Nat : k = One(job' # "none")
  BY <1>1
<1>8. PICK n \in Nat : n = Cardinality(ToAnnounce(queue["worker"]))
  BY CountType DEF Work, Processes
<1>9. /\ spawned \in Nat /\ repairs \in Nat /\ dispatches \in Nat /\ acts \in Nat
      /\ spawned' \in Nat /\ repairs' \in Nat /\ dispatches' \in Nat /\ acts' \in Nat
  BY Bounds DEF Work, Pays
<1>10. PICK s \in Nat, t \in Nat : s = spawned /\ t = spawned'
  BY <1>9
<1>11. PICK r \in Nat, u \in Nat : r = repairs /\ u = repairs'
  BY <1>9
<1>12. PICK x \in Nat, y \in Nat : x = dispatches /\ y = dispatches'
  BY <1>9
<1>13. PICK a \in Nat, b \in Nat : a = acts /\ b = acts'
  BY <1>9
<1>14. s + e + j + n <= x + a /\ r + c + j <= x
  BY <1>2, <1>4, <1>6, <1>8, <1>10, <1>11, <1>12, <1>13
     DEF Work, Budget, EvaluatorsDue, RepairsDue
<1>15. t + f + k + i + x + a <= s + e + j + y + b /\ u + d + k + x <= r + c + j + y
  BY <1>2, <1>3, <1>4, <1>5, <1>6, <1>7, <1>10, <1>11, <1>12, <1>13 DEF Pays
<1>16. t + f + k + (n + i) <= y + b /\ u + d + k <= y
  BY <1>14, <1>15
<1> QED
  BY <1>3, <1>5, <1>7, <1>8, <1>10, <1>11, <1>12, <1>13, <1>16
     DEF Budget, EvaluatorsDue, RepairsDue

\* Without a break on its way a dispatch may go on.
LEMMA NotBreaking ==
    ASSUME NEW q, NEW j, Breaking(q, j), j # "breaking", NEW k
    PROVE  Breaking(q, k)
BY DEF Breaking

\* A step that asks for one write.
LEMMA AskedInv ==
    ASSUME StrikesInv, NEW p \in Processes, NEW w \in Asks(p), queue' = Asked(p, w),
           NEW i, i = One(p = "worker" /\ w.what \in {"strike", "rerun"}), Pays(i),
           job' = job \/ (p = "worker" /\ job # "breaking"),
           w.what = "break" => job # "breaking" /\ job' = "breaking"
    PROVE  StrikesInv'
<1>0. Work
  BY DEF StrikesInv
<1>1. /\ DOMAIN queue' = Processes
      /\ \A q \in Processes : queue'[q] \in Seq(Asks(q))
      /\ \A q \in Processes : queue[q] # <<>> => queue'[q] # <<>>
      /\ queue'["worker"] = IF p = "worker" THEN Append(queue["worker"], w)
                                            ELSE queue["worker"]
      /\ Cardinality(ToAnnounce(queue'["worker"]))
           = Cardinality(ToAnnounce(queue["worker"])) + i
      /\ p = "worker" => Breaking(queue'["worker"], job')
  BY <1>0, AskedFacts
<1>2. i \in Nat
  BY DEF One
<1>3. Budget'
  BY <1>0, <1>1, <1>2, PaysBudget
<1>4. Breaking(queue'["worker"], job')
  BY <1>0, <1>1 DEF Work
<1>5. Work'
  BY <1>1, <1>3, <1>4 DEF Work, Pays
<1> QED
  BY <1>1, <1>5, SameLocks DEF Pays

\* A step that asks for none.
LEMMA QuietInv ==
    ASSUME StrikesInv, UNCHANGED queue, Pays(0), job' = job \/ job # "breaking"
    PROVE  StrikesInv'
<1>0. Work
  BY DEF StrikesInv
<1>1. Cardinality(ToAnnounce(queue["worker"])) \in Nat
  BY <1>0, CountType DEF Work, Processes
<1>2. Budget'
  BY <1>0, <1>1, PaysBudget
<1>3. Breaking(queue'["worker"], job')
  BY <1>0, NotBreaking DEF Work
<1>4. Work'
  BY <1>0, <1>2, <1>3 DEF Work, Pays
<1> QED
  BY <1>4, SameLocks DEF Pays

LEMMA PickInv ==
    ASSUME StrikesInv, Pick
    PROVE  StrikesInv'
<1>1. Pays(0) /\ UNCHANGED queue /\ job # "breaking"
  BY Bounds DEF StrikesInv, Work, Pick, Pays, One
<1> QED
  BY <1>1, QuietInv

LEMMA LaunchedInv ==
    ASSUME StrikesInv, Launched
    PROVE  StrikesInv'
<1>1. Pays(0) /\ UNCHANGED queue /\ job # "breaking"
  BY Bounds DEF StrikesInv, Work, Launched, Pays, One
<1> QED
  BY <1>1, QuietInv

\* A pre-flight or a prep that breaks its agent.
LEMMA AbortsInv ==
    ASSUME StrikesInv, (\E who \in {"snapshot", "sync"} : WorktreeAborts(who)) \/ PrepAborts
    PROVE  StrikesInv'
<1>1. PICK who \in {"snapshot", "sync", "prep"} :
        /\ job \in {"preflight", "working"} /\ job' = "breaking"
        /\ queue' = Asked("worker", Write("break", who, 0))
        /\ UNCHANGED <<settings, event, evaluators, tended, repairs, spawned,
                       dispatches, acts, faults>>
  BY DEF WorktreeAborts, PrepAborts
<1> DEFINE w == Write("break", who, 0)
<1>2. w \in Asks("worker") /\ w.what = "break"
  BY DEF Write, Asks, Kinds
<1>3. One("worker" = "worker" /\ w.what \in {"strike", "rerun"}) = 0
  BY DEF One, Write
<1>4. Pays(0)
  BY <1>1, Bounds DEF StrikesInv, Work, Pays, One
<1>5. "worker" \in Processes
  BY DEF Processes
<1>6. queue' = Asked("worker", w) /\ job # "breaking" /\ job' = "breaking"
  BY <1>1
<1> HIDE DEF w
<1> QED
  BY <1>2, <1>3, <1>4, <1>5, <1>6, AskedInv

\* A dispatch that is over may strike once.
LEMMA JobEndsInv ==
    ASSUME StrikesInv, JobEnds
    PROVE  StrikesInv'
<1>1. CASE UNCHANGED queue
  <2>1. Pays(0) /\ job # "breaking"
    BY Bounds DEF StrikesInv, Work, JobEnds, Pays, One
  <2> QED
    BY <1>1, <2>1, QuietInv
<1>2. CASE \E what \in {"strike", "reset"} :
              queue' = Asked("worker", Write(what, "nobody", 0))
  <2>1. PICK what \in {"strike", "reset"} :
          queue' = Asked("worker", Write(what, "nobody", 0))
    BY <1>2
  <2> DEFINE w == Write(what, "nobody", 0)
             i == One("worker" = "worker" /\ w.what \in {"strike", "rerun"})
  <2>2. w \in Asks("worker") /\ w.what # "break" /\ i \in {0, 1}
    BY DEF Write, Asks, Kinds, One
  <2>3. "worker" \in Processes /\ queue' = Asked("worker", w)
    BY <2>1 DEF Processes
  <2>5. job # "breaking"
    BY DEF JobEnds
  <2> HIDE DEF w, i
  <2>4. Pays(i)
    BY <2>2, Bounds DEF StrikesInv, Work, JobEnds, Pays, One
  <2> QED
    BY <2>2, <2>3, <2>4, <2>5, AskedInv DEF i
<1> QED
  BY <1>1, <1>2 DEF JobEnds

\* The evaluator that is called for is one the budget has.
LEMMA OnBrokenInv ==
    ASSUME StrikesInv, OnBroken
    PROVE  StrikesInv'
<1>1. /\ "broken-transition" \in event /\ event' = event \ {"broken-transition"}
      /\ UNCHANGED <<settings, job, evaluators, tended, repairs, dispatches, acts,
                     faults>>
  BY DEF OnBroken
<1>2. CASE Broken(file)
  <2>1. spawned' = spawned + 1 /\ queue' = Asked("worker", Write("run", "nobody", spawned'))
    BY <1>2 DEF OnBroken
  <2>2. spawned + 1 \in Evaluators
    BY <1>1, WorkTypes DEF StrikesInv
  <2> DEFINE w == Write("run", "nobody", spawned')
  <2>3. w \in Asks("worker") /\ w.what # "break"
    BY <2>1, <2>2, Bounds DEF Write, Asks, Kinds
  <2>4. One("worker" = "worker" /\ w.what \in {"strike", "rerun"}) = 0
    BY DEF One, Write
  <2>5. Pays(0)
    BY <1>1, <2>1, Bounds DEF StrikesInv, Work, Pays, One
  <2>6. "worker" \in Processes /\ queue' = Asked("worker", w)
    BY <2>1 DEF Processes
  <2> HIDE DEF w
  <2> QED
    BY <1>1, <2>3, <2>4, <2>5, <2>6, AskedInv
<1>3. CASE ~Broken(file)
  <2>1. Pays(0) /\ UNCHANGED <<queue, job>>
    BY <1>1, <1>3, Bounds DEF StrikesInv, Work, Pays, One, OnBroken
  <2> QED
    BY <2>1, QuietInv
<1> QED
  BY <1>2, <1>3

LEMMA OnSyncRepairNeededInv ==
    ASSUME StrikesInv, OnSyncRepairNeeded
    PROVE  StrikesInv'
<1>1. Pays(0) /\ UNCHANGED <<queue, job>>
  BY Bounds DEF StrikesInv, Work, Pays, One, OnSyncRepairNeeded
<1> QED
  BY <1>1, QuietInv

LEMMA SummarisesInv ==
    ASSUME StrikesInv, NEW id \in Evaluators, Summarises(id)
    PROVE  StrikesInv'
<1> DEFINE w == Write("summary", "nobody", id)
<1>1. w \in Asks("worker") /\ w.what # "break"
  BY DEF Write, Asks, Kinds
<1>2. One("worker" = "worker" /\ w.what \in {"strike", "rerun"}) = 0
  BY DEF One, Write
<1>3. Pays(0) /\ job' = job
  BY Bounds DEF StrikesInv, Work, Pays, One, Summarises, agents
<1>4. "worker" \in Processes /\ queue' = Asked("worker", w)
  BY DEF Processes, Summarises
<1> HIDE DEF w
<1> QED
  BY <1>1, <1>2, <1>3, <1>4, AskedInv

LEMMA EvaluatorEndsInv ==
    ASSUME StrikesInv, NEW id \in Evaluators, EvaluatorEnds(id)
    PROVE  StrikesInv'
<1>1. Pays(0) /\ job' = job
  BY Bounds DEF StrikesInv, Work, Pays, One, EvaluatorEnds
<1>2. CASE id \notin tended
  BY <1>1, <1>2, QuietInv DEF EvaluatorEnds
<1>3. CASE id \in tended
  <2> DEFINE w == Write("failed", "nobody", id)
  <2>1. w \in Asks("worker") /\ w.what # "break"
    BY DEF Write, Asks, Kinds
  <2>2. One("worker" = "worker" /\ w.what \in {"strike", "rerun"}) = 0
    BY DEF One, Write
  <2>3. "worker" \in Processes /\ queue' = Asked("worker", w)
    BY <1>3 DEF Processes, EvaluatorEnds
  <2> HIDE DEF w
  <2> QED
    BY <1>1, <2>1, <2>2, <2>3, AskedInv
<1> QED
  BY <1>2, <1>3

LEMMA RepairEndsInv ==
    ASSUME StrikesInv, RepairEnds
    PROVE  StrikesInv'
<1>1. Pays(0) /\ job' = job
  BY Bounds DEF StrikesInv, Work, Pays, One, RepairEnds
<1>2. CASE UNCHANGED queue
  BY <1>1, <1>2, QuietInv
<1>3. CASE queue' = Asked("worker", Write("repaired", "nobody", 0))
  <2> DEFINE w == Write("repaired", "nobody", 0)
  <2>1. w \in Asks("worker") /\ w.what # "break"
    BY DEF Write, Asks, Kinds
  <2>2. One("worker" = "worker" /\ w.what \in {"strike", "rerun"}) = 0
    BY DEF One, Write
  <2>3. "worker" \in Processes /\ queue' = Asked("worker", w)
    BY <1>3 DEF Processes
  <2> HIDE DEF w
  <2> QED
    BY <1>1, <2>1, <2>2, <2>3, AskedInv
<1> QED
  BY <1>2, <1>3 DEF RepairEnds

\* A re-run is paid for by its own act.
LEMMA OperatorActsInv ==
    ASSUME StrikesInv, NEW p \in Processes,
           NEW what \in {"clear", "rerun", "resolve", "delete", "create"},
           OperatorActs(p, what)
    PROVE  StrikesInv'
<1> DEFINE w == Write(what, "nobody", 0)
           i == One(p = "worker" /\ w.what \in {"strike", "rerun"})
<1>1. w \in Asks(p) /\ w.what # "break" /\ i \in {0, 1}
  BY DEF Write, Asks, Kinds, One, OperatorActs
<1>2. queue' = Asked(p, w) /\ job' = job
  BY DEF OperatorActs, agents
<1> HIDE DEF w, i
<1>3. Pays(i)
  BY <1>1, Bounds DEF StrikesInv, Work, Pays, One, OperatorActs, agents
<1> QED
  BY <1>1, <1>2, <1>3, AskedInv DEF i

-----------------------------------------------------------------------------
LEMMA InitInv == Init => StrikesInv
<1> SUFFICES ASSUME Init PROVE StrikesInv
  OBVIOUS
<1>1. /\ Whole \in Breaks /\ Good(Absent)
      /\ Good([count |-> 0, broken |-> Whole, here |-> TRUE])
  BY Bounds DEF Good, Records, Authored, Absent, Whole, Breaks
<1>2. Locks
  BY <1>1 DEF Init, Locks, LockHeld, NoLostUpdate
<1>3. ToAnnounce(<<>>) = {} /\ Breaking(<<>>, "none")
  BY DEF ToAnnounce, Breaking
<1>4. Cardinality(ToAnnounce(queue["worker"])) = 0
  BY <1>3, FS_EmptySet DEF Init, Processes
<1>5. Budget
  BY <1>4 DEF Init, Budget, EvaluatorsDue, RepairsDue, One
<1>6. Work
  BY <1>3, <1>5, Bounds DEF Init, Work, Processes
<1> QED
  BY <1>2, <1>6, Bounds DEF Init, StrikesInv, Asking

LEMMA StutterInv == StrikesInv /\ UNCHANGED vars => StrikesInv'
<1> SUFFICES ASSUME StrikesInv, UNCHANGED vars PROVE StrikesInv'
  OBVIOUS
<1>1. Work'
  BY SameWork DEF StrikesInv, vars, agents
<1> QED
  BY <1>1, SameLocks DEF vars

LEMMA NextInv == StrikesInv /\ [Next]_vars => StrikesInv'
<1> SUFFICES ASSUME StrikesInv, [Next]_vars PROVE StrikesInv'
  OBVIOUS
<1>1. ASSUME NEW p \in Processes, Writes(p) \/ GivesUp(p) \/ Crash(p) PROVE StrikesInv'
  BY <1>1, OpenInv, SeesStaleInv, StealInv, ReadInv, WriteAndReleaseInv, GivesUpInv,
     CrashInv DEF Writes
<1>2. ASSUME Pick \/ Dispatched \/ RepairEnds \/ OnBroken \/ OnSyncRepairNeeded
      PROVE  StrikesInv'
  BY <1>2, PickInv, LaunchedInv, AbortsInv, JobEndsInv, RepairEndsInv, OnBrokenInv,
     OnSyncRepairNeededInv DEF Dispatched
<1>3. ASSUME NEW id \in Evaluators, Summarises(id) \/ EvaluatorEnds(id) PROVE StrikesInv'
  BY <1>3, SummarisesInv, EvaluatorEndsInv
<1>4. ASSUME UNCHANGED vars PROVE StrikesInv'
  BY <1>4, StutterInv
<1> QED
  BY <1>1, <1>2, <1>3, <1>4, OperatorActsInv DEF Next

THEOREM StrikesInvariance == Spec => []StrikesInv
BY InitInv, NextInv, PTL DEF Spec

\* A record's strikes never pass STRIKES_MAX, only one of a process's writes is
\* under way, and no more evaluators and repairs are called for than dispatches
\* and acts of the operator account for.
THEOREM StrikesTypeCorrect == Spec => []TypeOK
BY StrikesInvariance, StrikesTypes, PTL

\* No write is lost: a process that is about to write has read the record that
\* is on disk, unless two processes found the same lock file of a dead one.
THEOREM NoLostUpdateSafe == Spec => []NoLostUpdate
<1>1. StrikesInv => NoLostUpdate
  BY DEF StrikesInv, Locks
<1> QED
  BY <1>1, StrikesInvariance, PTL

\* A break stands until the operator lifts it or the repair it asked for does.
THEOREM BreakStandsSafe == Spec => BreakStands
<1> DEFINE Stands ==
      Broken(file) /\ ~Broken(file') =>
         \/ robbed
         \/ \E p \in Processes :
              /\ at[p] = "read"
              /\ Head(queue[p]).what \in {"clear", "resolve", "delete", "repaired"}
<1>1. ASSUME StrikesInv, Next PROVE Stands
  <2>1. ASSUME NEW p \in Processes, WriteAndRelease(p) PROVE Stands
    BY <1>1, <2>1, WriteAndReleaseInv DEF WriteAndRelease
  <2>2. ASSUME NEW p \in Processes,
               Open(p) \/ SeesStale(p) \/ Steal(p) \/ Read(p) \/ GivesUp(p) \/ Crash(p)
        PROVE  Stands
    BY <2>2 DEF Open, SeesStale, Steal, Read, GivesUp, Crash, settings
  <2>3. ASSUME \/ Pick \/ Dispatched \/ RepairEnds \/ OnBroken \/ OnSyncRepairNeeded
               \/ \E id \in Evaluators : Summarises(id) \/ EvaluatorEnds(id)
               \/ \E p \in Processes,
                     what \in {"clear", "rerun", "resolve", "delete", "create"} :
                    OperatorActs(p, what)
        PROVE  Stands
    BY <2>3 DEF Pick, Dispatched, Launched, PrepAborts, JobEnds, WorktreeAborts,
       RepairEnds, OnBroken, OnSyncRepairNeeded, Summarises, EvaluatorEnds,
       OperatorActs, settings
  <2> QED
    BY <1>1, <2>1, <2>2, <2>3 DEF Next, Writes
<1>2. UNCHANGED vars => Stands
  BY DEF vars, settings
<1> QED
  BY <1>1, <1>2, StrikesInvariance, PTL DEF Spec, BreakStands
=============================================================================
