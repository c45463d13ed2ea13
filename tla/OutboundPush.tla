----------------------------- MODULE OutboundPush -----------------------------
(***************************************************************************)
(* The outbound mirror of one issue: the YAML on disk, step 7 of reconcile  *)
(* (src/src/issue/reconcile.ts), the per-card push slot                     *)
(* (src/src/issue/reconcile/trello.ts), the retry queue and its timers      *)
(* (src/src/issue-tracker/retry-queue.ts), the per-card order inside        *)
(* syncIssue (sync.ts) and the process-wide circuit breaker, over a tracker *)
(* that may refuse a call, rate-limit it, or apply it and lose the reply.   *)
(*                                                                         *)
(* A document is what one version of the YAML says: rev is its content      *)
(* (title, labels, list), ext the tracker card it is bound to (0: none      *)
(* yet), done that it is terminal with a retro.  Equal documents have equal *)
(* hashes.  Deadlines are left out: an armed timer may fire at any time and *)
(* an open breaker may reach the end of its cooldown at any time.           *)
(***************************************************************************)
EXTENDS Naturals, Sequences, FiniteSets

CONSTANTS
    Entries,      \* files of the retry queue (bound)
    FaultKinds,   \* answers other than success: see Fails
    MaxRev, MaxFaults, MaxEvents,  \* bounds
    MaxAttempts   \* MAX_ATTEMPTS

ASSUME BoundsAssumption ==
    /\ MaxRev \in Nat \ {0} /\ MaxFaults \in Nat /\ MaxAttempts \in Nat \ {0}
    /\ IsFiniteSet(Entries)
    /\ "push" \notin Entries
    /\ FaultKinds \subseteq {"limited", "refused", "lost"}

Callers == Entries \cup {"push"}
\* Cards the tracker may come to hold: one create per lost answer and one per
\* caller that found the issue unbound.
MaxCards == MaxFaults + Cardinality(Callers)
Doc == [rev: 1..MaxRev, ext: 0..MaxCards, done: BOOLEAN]
NoDoc == [rev |-> 0, ext |-> 0, done |-> FALSE]
Requests == {"create", "read", "update", "move", "retro"}
Card == [rev: 1..MaxRev, list: 0..MaxRev, retros: Nat]
Idle == [local |-> NoDoc, todo |-> <<>>]

VARIABLES
    \* on disk: the YAML, the bucket it is in, the queue files' attempts (0: no file)
    disk, closed, file,
    edits,     \* edits made so far
    \* in the worker process
    watch,     \* a file event waits for its reconcile
    skip,      \* the reconcile skip-cache: the document last reconciled
    cache,     \* lastPushedHash
    slot,      \* the push slot: the documents reconcile scheduled, oldest first
    call,      \* each caller of syncIssue: its snapshot and the requests it still has to make
    queue,     \* syncIssueSlots: callers in order, per key
    armed,     \* entries with a timer
    breaker,
    \* elsewhere
    remote,    \* the cards on the tracker
    enabled,   \* overrides.trelloSync
    private,   \* lists without a Trello mapping (revision r is on list r)
    real,      \* requests of an entry that the tracker really failed
    excuse,    \* why a push may have been given up
    faults, events   \* failed requests; restarts and toggles of the sync

stored == <<disk, closed, file, edits>>
process == <<watch, skip, cache, slot, call, queue, armed, breaker>>
bounds == <<faults, events>>
vars == <<stored, process, remote, enabled, private, real, excuse, bounds>>

Init ==
    /\ disk \in [rev: {1}, ext: {0, 1}, done: {FALSE}]
    /\ remote = IF disk.ext = 0 THEN <<>>
                                ELSE <<[rev |-> 1, list |-> 1, retros |-> 0]>>
    /\ closed = FALSE /\ edits = 1 /\ watch = TRUE
    /\ skip = NoDoc /\ cache = NoDoc /\ slot = <<>>
    /\ call = [c \in Callers |-> Idle]
    /\ queue = [k \in 0..MaxCards |-> <<>>]
    /\ file = [e \in Entries |-> 0] /\ real = [e \in Entries |-> 0]
    /\ armed = {} /\ breaker = "closed" /\ excuse = {}
    /\ enabled = TRUE /\ private \in SUBSET (1..MaxRev)
    /\ faults = 0 /\ events = 0

-----------------------------------------------------------------------------
(* The YAML and its reconcile. *)

\* An agent or the operator saves the card.
Edit ==
    /\ edits < MaxRev
    /\ ~disk.done
    /\ \E d \in BOOLEAN :
         disk' = [disk EXCEPT !.rev = edits + 1, !.done = d]
    /\ edits' = edits + 1
    /\ watch' = TRUE
    /\ UNCHANGED <<closed, file, skip, cache, slot, call, queue, armed, breaker,
                   remote, enabled, private, real, excuse, bounds>>

\* A file event, or the periodic audit of the open bucket.
Triggered == watch \/ ~closed

\* Step 2b: the document is the one reconciled last; nothing after it runs.
SkipReconcile ==
    /\ watch
    /\ skip = disk
    /\ watch' = FALSE
    /\ UNCHANGED <<stored, skip, cache, slot, call, queue, armed, breaker,
                   remote, enabled, private, real, excuse, bounds>>

\* The bucket move, step 7 and the stamp of the skip-cache.  Two scheduled
\* pushes are the bound.
Reconcile ==
    /\ Triggered
    /\ skip # disk
    /\ Len(slot) < 2
    /\ closed' = disk.done
    /\ watch' = (closed # disk.done)
    /\ skip' = disk
    /\ slot' = IF cache # disk /\ enabled THEN Append(slot, disk) ELSE slot
    /\ excuse' = excuse \cup (IF cache # disk /\ ~enabled THEN {"disabled"} ELSE {})
    /\ UNCHANGED <<disk, file, edits, cache, call, queue, armed, breaker,
                   remote, enabled, private, real, bounds>>

-----------------------------------------------------------------------------
(* syncIssue, called by the push slot and by the retry timer. *)

\* The snapshot is read from disk and the caller takes its place in the chain
\* of the key in one synchronous step.
Begin(c) ==
    /\ call' = [call EXCEPT ![c] =
                  [local |-> disk,
                   todo |-> IF disk.ext = 0 THEN <<"create">> ELSE <<"read">>]]
    /\ queue' = [queue EXCEPT ![disk.ext] = Append(@, c)]

\* doPush of the oldest schedule of the slot.  A card without a list, or with
\* an unreadable configuration, is pushed like a mapped one, but for the move.
PushBegins ==
    /\ slot # <<>>
    /\ call["push"] = Idle
    /\ disk.rev \notin private
    /\ Begin("push")
    /\ UNCHANGED <<stored, watch, skip, cache, slot, armed, breaker, remote,
                   enabled, private, real, excuse, bounds>>

\* doPush of a card whose list has no mapping: resolveTrelloListMapping says
\* skip, nothing is pushed, and as there was no error reconcile stamps
\* lastPushedHash all the same.
PushSkipped ==
    /\ slot # <<>>
    /\ call["push"] = Idle
    /\ disk.rev \in private
    /\ cache' = Head(slot) /\ slot' = Tail(slot)
    /\ excuse' = excuse \cup {"unmapped"}
    /\ UNCHANGED <<stored, watch, skip, call, queue, armed, breaker, remote,
                   enabled, private, real, bounds>>

\* fireRetry, which asks for no mapping.  With the breaker open or the sync disabled it only re-arms.
FireRetry(e) ==
    /\ e \in armed
    /\ breaker # "open"
    /\ enabled
    /\ armed' = armed \ {e}
    /\ Begin(e)
    /\ UNCHANGED <<stored, watch, skip, cache, slot, breaker, remote,
                   enabled, private, real, excuse, bounds>>

\* Mutant of Turn: syncIssue without its per-card chain.
AnyTurn(c) == call[c].todo # <<>>

Turn(c) == call[c].todo # <<>> /\ Head(queue[call[c].local.ext]) = c

\* What the request at the head of todo does to the tracker.
Applied(c) ==
    LET l == call[c].local
        step == Head(call[c].todo)
    IN CASE step = "create" ->
              Append(remote, [rev |-> l.rev, list |-> 0, retros |-> 0])
         [] step = "read"   -> remote
         [] step = "update" -> [remote EXCEPT ![l.ext].rev = l.rev]
         [] step = "move"   -> [remote EXCEPT ![l.ext].list = l.rev]
         [] step = "retro"  -> [remote EXCEPT ![l.ext].retros = @ + 1]

\* The writes the diff against the card calls for.  Only the push slot
\* resolves the list the card belongs in.
Writes(c, card) ==
    LET l == call[c].local
    IN (IF card.rev # l.rev THEN <<"update">> ELSE <<>>) \o
       (IF c = "push" /\ card.list # l.rev THEN <<"move">> ELSE <<>>) \o
       (IF l.done /\ card.retros = 0 THEN <<"retro">> ELSE <<>>)

Rest(c) ==
    IF Head(call[c].todo) = "read" THEN Writes(c, remote[call[c].local.ext])
                                   ELSE Tail(call[c].todo)

Leave(c) ==
    /\ call' = [call EXCEPT ![c] = Idle]
    /\ queue' = [queue EXCEPT ![call[c].local.ext] = Tail(@)]

\* persistIfDifferent, and the two writers of lastPushedHash: the push slot
\* stamps the document reconcile saw, the retry the one it pushed.
Succeeds(c) ==
    LET doc == [call[c].local EXCEPT !.ext = IF @ = 0 THEN Len(remote') ELSE @]
    IN /\ disk' = doc
       /\ watch' = (watch \/ doc # disk)
       /\ excuse' = {}
       /\ IF c = "push"
            THEN /\ cache' = Head(slot) /\ slot' = Tail(slot)
                 /\ UNCHANGED file
            ELSE /\ cache' = doc /\ file' = [file EXCEPT ![c] = 0]
                 /\ UNCHANGED slot

\* A 2xx answer: the breaker closes, the caller goes on or is through.
Answered(c) ==
    /\ Turn(c)
    /\ breaker # "open"
    /\ remote' = Applied(c)
    /\ breaker' = "closed"
    /\ IF Rest(c) # <<>>
         THEN /\ call' = [call EXCEPT ![c].todo = Rest(c)]
              /\ UNCHANGED <<disk, file, watch, cache, slot, queue, excuse>>
         ELSE Leave(c) /\ Succeeds(c)
    /\ UNCHANGED <<closed, edits, skip, armed, enabled, private, real, bounds>>

-----------------------------------------------------------------------------
(* Failure. *)

\* Mutant of PushFailed: the failure is logged, no retry is enqueued.
PushFailedQuietly ==
    /\ slot' = Tail(slot)
    /\ UNCHANGED <<excuse, file, real, armed>>

\* doPush enqueues a retry, unless the sync is disabled.
PushFailed ==
    /\ slot' = Tail(slot)
    /\ IF enabled
         THEN \E e \in Entries :
                /\ file[e] = 0
                /\ file' = [file EXCEPT ![e] = 1]
                /\ real' = [real EXCEPT ![e] = 0]
                /\ armed' = armed \cup {e}
                /\ UNCHANGED excuse
         ELSE /\ excuse' = excuse \cup {"disabled"}
              /\ UNCHANGED <<file, real, armed>>

\* Mutant of RetryFailed: the breaker's refusal is taken for the tracker's.
RetryFailedAlike(e, circuit) ==
    /\ IF file[e] < MaxAttempts
         THEN /\ file' = [file EXCEPT ![e] = @ + 1]
              /\ armed' = armed \cup {e}
              /\ UNCHANGED excuse
         ELSE /\ file' = [file EXCEPT ![e] = 0]
              /\ excuse' = excuse \cup {"exhausted"}
              /\ UNCHANGED armed
    /\ real' = [real EXCEPT ![e] = IF circuit THEN @ ELSE @ + 1]
    /\ UNCHANGED slot

\* Mutant of RetryFailed: one attempt too many.
RetryFailedOnceMore(e, circuit) ==
    /\ IF circuit \/ file[e] <= MaxAttempts
         THEN /\ file' = [file EXCEPT ![e] = IF circuit THEN @ ELSE @ + 1]
              /\ armed' = armed \cup {e}
              /\ UNCHANGED excuse
         ELSE /\ file' = [file EXCEPT ![e] = 0]
              /\ excuse' = excuse \cup {"exhausted"}
              /\ UNCHANGED armed
    /\ real' = [real EXCEPT ![e] = IF circuit THEN @ ELSE @ + 1]
    /\ UNCHANGED slot

\* Mutant of RetryFailed: a deferred entry gets no timer.
RetryFailedUnarmed(e, circuit) ==
    /\ IF circuit \/ file[e] < MaxAttempts
         THEN /\ file' = [file EXCEPT ![e] = IF circuit THEN @ ELSE @ + 1]
              /\ armed' = IF circuit THEN armed ELSE armed \cup {e}
              /\ UNCHANGED excuse
         ELSE /\ file' = [file EXCEPT ![e] = 0]
              /\ excuse' = excuse \cup {"exhausted"}
              /\ UNCHANGED armed
    /\ real' = [real EXCEPT ![e] = IF circuit THEN @ ELSE @ + 1]
    /\ UNCHANGED slot

\* fireRetry after a failed push: deferred, rescheduled or given up.
RetryFailed(e, circuit) ==
    /\ IF circuit \/ file[e] < MaxAttempts
         THEN /\ file' = [file EXCEPT ![e] = IF circuit THEN @ ELSE @ + 1]
              /\ armed' = armed \cup {e}
              /\ UNCHANGED excuse
         ELSE /\ file' = [file EXCEPT ![e] = 0]
              /\ excuse' = excuse \cup {"exhausted"}
              /\ UNCHANGED armed
    /\ real' = [real EXCEPT ![e] = IF circuit THEN @ ELSE @ + 1]
    /\ UNCHANGED slot

Failed(c, circuit) ==
    /\ Leave(c)
    /\ IF c = "push" THEN PushFailed ELSE RetryFailed(c, circuit)

\* The wrapper refuses while the breaker is open: no request is made.
CircuitRefuses(c) ==
    /\ Turn(c)
    /\ breaker = "open"
    /\ Failed(c, TRUE)
    /\ UNCHANGED <<disk, closed, edits, watch, skip, cache, breaker, remote,
                   enabled, private, bounds>>

\* "limited" is a 429, "refused" any other error, "lost" a request the
\* tracker carried out whose answer did not come back.
Fails(c, kind) ==
    /\ Turn(c)
    /\ breaker # "open"
    /\ faults < MaxFaults
    /\ faults' = faults + 1
    /\ remote' = IF kind = "lost" THEN Applied(c) ELSE remote
    /\ breaker' = IF kind = "limited" THEN "open" ELSE breaker
    /\ Failed(c, FALSE)
    /\ UNCHANGED <<disk, closed, edits, watch, skip, cache, enabled, private,
                   events>>

\* transitionToHalfOpenIfDue: half-open lets requests through again.
CooldownOver ==
    /\ breaker = "open"
    /\ breaker' = "half-open"
    /\ UNCHANGED <<stored, watch, skip, cache, slot, call, queue, armed, remote,
                   enabled, private, real, excuse, bounds>>

\* A request for another card is rate-limited: the breaker is process-wide.
OtherCardLimited ==
    /\ breaker # "open"
    /\ "limited" \in FaultKinds
    /\ faults < MaxFaults
    /\ faults' = faults + 1
    /\ breaker' = "open"
    /\ UNCHANGED <<stored, watch, skip, cache, slot, call, queue, armed, remote,
                   enabled, private, real, excuse, events>>

\* The operator pauses or resumes the outbound sync.
ToggleSync ==
    /\ events < MaxEvents
    /\ events' = events + 1
    /\ enabled' = ~enabled
    /\ UNCHANGED <<stored, process, remote, private, real, excuse, faults>>

\* The operator maps a list to a Trello list, or takes its mapping away.
Remap ==
    /\ events < MaxEvents
    /\ events' = events + 1
    /\ \E list \in 1..MaxRev :
         private' = IF list \in private THEN private \ {list} ELSE private \cup {list}
    /\ UNCHANGED <<stored, process, remote, enabled, real, excuse, faults>>

\* bootRescheduleRetryQueue.
Rearmed == {e \in Entries : file[e] # 0}

\* The worker dies and boots: the files stay, everything else is built anew.
\* The boot scan mirrors the YAML but reconciles nothing, and the audit walks
\* the open bucket only.
Restart ==
    /\ events < MaxEvents
    /\ events' = events + 1
    /\ watch' = FALSE /\ skip' = NoDoc /\ cache' = NoDoc /\ slot' = <<>>
    /\ call' = [c \in Callers |-> Idle]
    /\ queue' = [k \in 0..MaxCards |-> <<>>]
    /\ armed' = Rearmed
    /\ breaker' = "closed"
    /\ excuse' = excuse \cup (IF closed THEN {"closed"} ELSE {})
    /\ UNCHANGED <<stored, remote, enabled, private, real, faults>>

Next ==
    \/ Edit \/ SkipReconcile \/ Reconcile \/ PushBegins \/ PushSkipped
    \/ \E e \in Entries : FireRetry(e)
    \/ \E c \in Callers :
         \/ Answered(c) \/ CircuitRefuses(c)
         \/ \E kind \in FaultKinds : Fails(c, kind)
    \/ CooldownOver \/ OtherCardLimited \/ ToggleSync \/ Remap \/ Restart

Spec == Init /\ [][Next]_vars

\* The event loop runs what is queued, requests are answered, timers fire,
\* the audit comes round and a cooldown ends.  Nothing makes the operator
\* resume the sync, map a list, the agent edit or the worker restart.
Fairness ==
    /\ WF_vars(SkipReconcile) /\ WF_vars(Reconcile) /\ WF_vars(PushBegins)
    /\ WF_vars(PushSkipped)
    /\ WF_vars(CooldownOver)
    /\ \A e \in Entries : WF_vars(FireRetry(e))
    /\ \A c \in Callers :
         WF_vars(Answered(c) \/ CircuitRefuses(c))

FairSpec == Spec /\ Fairness

-----------------------------------------------------------------------------
\* Type invariant of the mirror.
TypeOK ==
    /\ disk \in Doc /\ closed \in BOOLEAN /\ edits \in 1..MaxRev
    /\ file \in [Entries -> 0..MaxAttempts]
    /\ watch \in BOOLEAN
    /\ skip \in Doc \cup {NoDoc} /\ cache \in Doc \cup {NoDoc}
    /\ slot \in Seq(Doc)
    /\ call \in [Callers -> [local: Doc \cup {NoDoc}, todo: Seq(Requests)]]
    /\ queue \in [0..MaxCards -> Seq(Callers)]
    /\ armed \subseteq Entries
    /\ breaker \in {"closed", "open", "half-open"}
    /\ remote \in Seq(Card)
    /\ enabled \in BOOLEAN /\ private \subseteq 1..MaxRev
    /\ real \in [Entries -> Nat]
    /\ excuse \subseteq {"disabled", "exhausted", "closed", "unmapped"}

\* A card gets one retro comment in its lifetime, whatever is retried, lost
\* or running at the same time (sync.ts: "ONE retro comment per card
\* lifetime"; the chain per card and the look at the tracker's own comments).
OneRetro == \A i \in 1..Len(remote) : remote[i].retros <= 1

\* The content the tracker shows for the card the YAML is bound to.
Shown == IF disk.ext = 0 THEN 0 ELSE remote[disk.ext].rev

\* While the tracker lags behind the YAML something is left that will push
\* it: a file event, a scheduled push, a queue file, or a document the audit
\* has not seen.  Given up are only a push refused while the sync is
\* disabled, one whose attempts ran out, one from a list without a mapping,
\* and a closed card after a restart.
NoPushForgotten ==
    Shown # disk.rev /\ excuse = {} =>
        \/ watch \/ slot # <<>>
        \/ \E e \in Entries : file[e] # 0
        \/ ~closed /\ skip # disk

\* Being refused by the breaker costs a retry none of its attempts, even when
\* the breaker opens in the middle of the attempt.
BreakerCostsNoAttempt ==
    \A e \in Entries : file[e] # 0 => file[e] = 1 + real[e]

\* Once edits and faults end, the tracker shows what the YAML says, unless
\* the push was given up or the operator keeps the sync disabled.
EventuallyMirrored ==
    <>[](Shown = disk.rev \/ excuse # {} \/ ~enabled)
=============================================================================
