---------------------------- MODULE IssueReconcile ----------------------------
(***************************************************************************)
(* The reconcile of issue cards (src/src/issue/reconcile.ts): what a file   *)
(* event or the sweep of the open bucket (db/issues-mirror.ts) does to a    *)
(* card, its parent and the cards that wait for it, while agents, the       *)
(* picker and the operator write the same files.                            *)
(*                                                                         *)
(* A handler is a chain of awaits in the worker: it mirrors the file, takes *)
(* the mutex of the card, reads the file, reads the children from the       *)
(* mirror, decides, writes, and with the mutex still held reconciles the    *)
(* parent and the dependents in turn.  Its calls are a stack of frames.     *)
(* The graph of the cards does not change; the push to the tracker is       *)
(* OutboundPush.                                                            *)
(***************************************************************************)
EXTENDS CardState, FiniteSets, Sequences

CONSTANTS
    Cards,
    Epics,        \* cards of type Epic
    Kids,         \* children[], by card
    Dependents,   \* the cards that wait on a card
    FirstDocs,    \* what the YAMLs may say at the start
    Destinations, \* columns the operator moves cards to
    Handlers,     \* file events handled at a time (bound)
    MAX_RECURSION_DEPTH,
    MaxEdits      \* edits, restarts and failed unlinks (bound)

ASSUME GraphAssumption ==
    /\ Epics \subseteq Cards /\ Destinations \subseteq Columns
    /\ Kids \in [Cards -> SUBSET Cards]
    /\ Dependents \in [Cards -> SUBSET Cards]
    /\ \A c, d \in Cards : c # d => Kids[c] \cap Kids[d] = {}

ASSUME BoundsAssumption ==
    /\ FirstDocs \subseteq [Cards -> Doc]
    /\ \A docs \in FirstDocs, c \in Cards : docs[c].finished = 0
    /\ IsFiniteSet(Handlers) /\ MAX_RECURSION_DEPTH \in Nat /\ MaxEdits \in Nat

Threads == Handlers \cup {"audit"}
Parents(c) == {p \in Cards : c \in Kids[p]}
Waits(c) == \E d \in Cards : c \in Dependents[d]

VARIABLES
    file,      \* the YAMLs, of two copies the open one: readers take that
    closed,    \* the cards with no file in the open bucket
    hidden,    \* the copy in the closed bucket beneath an open one, or NoDoc
    alive,     \* the cards whose agent's process runs
    db,        \* the mirror
    watch,     \* cards with a file event to come
    due,       \* parents that a terminal stamp asked to reconcile
    skip,      \* skipCacheByCardId: the document and the children last seen
    lock,      \* the per-card mutex: threads in the order of their calls
    stack,     \* by thread: the reconciles it is in, the outermost first
    edits

disk == <<file, closed, hidden, alive>>
process == <<db, watch, due, skip, lock, stack>>
vars == <<disk, process, edits>>

\* No document.
NoDoc == [status |-> "none", stamps |-> {}, dispatch |-> "none",
          blocked |-> FALSE, owned |-> FALSE, finished |-> 0]
NotSeen == [doc |-> NoDoc, kids |-> <<>>]

\* What the digest of a child covers.
Digest(d) == [d EXCEPT !.owned = FALSE]
Children(c) == [k \in Kids[c] |-> Digest(db[k])]
StatusesOf(kids) == {DeriveStatus(kids[k]) : k \in DOMAIN kids}

Init ==
    /\ file \in FirstDocs
    /\ closed = {c \in Cards : Closes(file[c])}
    /\ hidden = [c \in Cards |-> NoDoc]
    /\ alive = {c \in Cards : file[c].dispatch = "agent"}
    /\ db = file
    /\ watch = {} /\ due = {}
    /\ skip = [c \in Cards |-> NotSeen]
    /\ lock = [c \in Cards |-> <<>>]
    /\ stack = [t \in Threads |-> <<>>]
    /\ edits = 0

-----------------------------------------------------------------------------
(* Calls. *)

Top(t) == stack[t][Len(stack[t])]
At(t, step) == stack[t] # <<>> /\ Top(t).at = step
WithTop(t, f) == [stack EXCEPT ![t][Len(stack[t])] = f]

Frame(c, step, seen) ==
    [card |-> c, at |-> step, doc |-> NoDoc, hash |-> NoDoc, shut |-> FALSE,
     kids |-> <<>>, rest |-> {}, seen |-> seen]

\* reconcileWithContext: the call takes its place at the card's mutex.
Call(t, c, frames, seen) ==
    /\ stack' = [stack EXCEPT ![t] = Append(frames, Frame(c, "mutex", seen))]
    /\ lock' = [lock EXCEPT ![c] = Append(@, t)]

\* Mutant of Return: nobody is let in.
ReturnHolding(t) ==
    /\ stack' = [stack EXCEPT ![t] = SubSeq(@, 1, Len(@) - 1)]
    /\ UNCHANGED lock

\* The innermost call returns and the mutex passes on.
Return(t) ==
    /\ stack' = [stack EXCEPT ![t] = SubSeq(@, 1, Len(@) - 1)]
    /\ lock' = [lock EXCEPT ![Top(t).card] = Tail(@)]

\* mirrorOne: a copy is read, and written to the mirror when it differs.
MirrorOne(t, c, d) ==
    /\ stack[t] = <<>>
    /\ IF db[c] = d THEN Call(t, c, <<>>, {})
       ELSE /\ stack' = [stack EXCEPT ![t] =
                 <<[Frame(c, "mirror", {}) EXCEPT !.doc = d]>>]
            /\ UNCHANGED lock

\* The event is of a path, and so of either copy.
FileEvent(t, c) ==
    /\ t \in Handlers
    /\ c \in watch
    /\ watch' = watch \ {c}
    /\ \E d \in {file[c], hidden[c]} \ {NoDoc} : MirrorOne(t, c, d)
    /\ UNCHANGED <<disk, db, due, skip, edits>>

\* periodicReconcile comes to a file of the open bucket.  Visits that have
\* nothing to mirror and hit the skip-cache are left out.
AuditVisits(c) ==
    /\ c \notin closed
    /\ db[c] = file[c] => skip[c] # [doc |-> file[c], kids |-> Children(c)]
    /\ MirrorOne("audit", c, file[c])
    /\ UNCHANGED <<disk, db, watch, due, skip, edits>>

Mirrored(t) ==
    /\ At(t, "mirror")
    /\ db' = [db EXCEPT ![Top(t).card] = Top(t).doc]
    /\ Call(t, Top(t).card, <<>>, {})
    /\ UNCHANGED <<disk, watch, due, skip, edits>>

\* triggerReconcileForId.
ParentCalled(t, c) ==
    /\ t \in Handlers
    /\ c \in due
    /\ stack[t] = <<>>
    /\ due' = due \ {c}
    /\ Call(t, c, <<>>, {})
    /\ UNCHANGED <<disk, db, watch, skip, edits>>

-----------------------------------------------------------------------------
(* reconcileBody. *)

\* Mutant of SkipHit: the key without the children (before DX-703).
SkipHitOnOwnHash(f) == skip[f.card].doc = f.doc

\* Step 2b: nothing that the projection looks at has changed.
SkipHit(f) == skip[f.card] = [doc |-> f.doc, kids |-> f.kids]

\* Steps 3 to 5, up to the mirror's row of the write.
Decide(t, f) ==
    \E next \in {Projected(f.doc, f.card \in Epics, Waits(f.card),
                           StatusesOf(f.kids), f.card \in alive)} :
    LET mutated == next # ParseIssue(f.doc) \/ (f.shut /\ ~Closes(next))
        moves == Closes(next) # f.shut
        hash == IF mutated THEN next ELSE f.doc
    IN IF Len(stack[t]) = 1 /\ SkipHit(f)
       THEN Return(t) /\ UNCHANGED <<db, skip>>
       ELSE IF mutated \/ moves
       THEN /\ db' = [db EXCEPT ![f.card] = next]
            /\ stack' = WithTop(t, [f EXCEPT !.at = "write", !.doc = next,
                                             !.hash = hash])
            /\ UNCHANGED <<skip, lock>>
       ELSE /\ skip' = [skip EXCEPT ![f.card] = [doc |-> hash, kids |-> f.kids]]
            /\ Return(t)
            /\ UNCHANGED db

\* Step 1: the mutex is ours and the file is read.  Only a card with children
\* awaits before it decides.
Load(t) ==
    /\ At(t, "mutex")
    /\ Head(lock[Top(t).card]) = t
    /\ \E f \in {[Top(t) EXCEPT !.doc = file[Top(t).card],
                             !.shut = Top(t).card \in closed]} :
         IF Kids[f.card] = {} THEN Decide(t, f)
         ELSE /\ stack' = WithTop(t, [f EXCEPT !.at = "children"])
              /\ UNCHANGED <<db, skip, lock>>
    /\ UNCHANGED <<disk, watch, due, edits>>

ReadChildren(t) ==
    /\ At(t, "children")
    /\ \E f \in {[Top(t) EXCEPT !.kids = Children(Top(t).card)]} : Decide(t, f)
    /\ UNCHANGED <<disk, watch, due, edits>>

\* Mutant of Spread: the children are reconciled too.
SpreadBothWays(t) ==
    LET f == Top(t) IN
    IF Len(stack[t]) > MAX_RECURSION_DEPTH THEN {}
    ELSE (Parents(f.card) \cup Kids[f.card] \cup Dependents[f.card])
           \ (f.seen \cup {f.card})

\* Steps 9 and 10: the parent, then the dependents, nobody twice.
Spread(t) ==
    LET f == Top(t) IN
    IF Len(stack[t]) > MAX_RECURSION_DEPTH THEN {}
    ELSE (Parents(f.card) \cup Dependents[f.card]) \ (f.seen \cup {f.card})

\* Mutant of Finish: the children are read again.
FinishFresh(t, f) ==
    /\ skip' = [skip EXCEPT ![f.card] = [doc |-> f.hash, kids |-> Children(f.card)]]
    /\ Return(t)

\* Step 8b, and the return: what was reconciled is what the next call may skip.
Finish(t, f) ==
    /\ skip' = [skip EXCEPT ![f.card] = [doc |-> f.hash, kids |-> f.kids]]
    /\ Return(t)

\* A file in the open bucket hides what the closed one has of the card.
Hides(c) == hidden' = [hidden EXCEPT ![c] = IF c \in closed THEN file[c] ELSE @]
Alone(c) == hidden' = [hidden EXCEPT ![c] = NoDoc]

Edited == edits < MaxEdits /\ edits' = edits + 1

\* Mutant of Write: a card that reopens stays in the closed bucket.
WriteInPlace(t) ==
    LET f == Top(t) IN
    /\ At(t, "write")
    /\ file' = [file EXCEPT ![f.card] = f.doc]
    /\ closed' = IF Closes(f.doc) THEN closed \cup {f.card} ELSE closed
    /\ Alone(f.card)
    /\ watch' = watch \cup {f.card}
    /\ IF Spread(t) = {} THEN Finish(t, f)
       ELSE /\ stack' = WithTop(t, [f EXCEPT !.at = "spread", !.rest = Spread(t),
                                             !.doc = NoDoc,
                                             !.seen = @ \cup {f.card}])
            /\ UNCHANGED <<skip, lock>>
    /\ UNCHANGED <<alive, db, due, edits>>

\* Step 5: the file is written to the open bucket and, when it closes, moved.
\* Of a card that was read from the closed one the copy there is unlinked,
\* unless that fails; one that came there in the meantime stays.
Write(t) ==
    LET f == Top(t) IN
    /\ At(t, "write")
    /\ file' = [file EXCEPT ![f.card] = f.doc]
    /\ closed' = IF Closes(f.doc) THEN closed \cup {f.card}
                                  ELSE closed \ {f.card}
    /\ \/ /\ Closes(f.doc) \/ f.shut
          /\ Alone(f.card)
          /\ UNCHANGED edits
       \/ /\ ~Closes(f.doc)
          /\ Hides(f.card)
          /\ IF f.shut THEN Edited ELSE UNCHANGED edits
    /\ watch' = watch \cup {f.card}
    /\ IF Spread(t) = {} THEN Finish(t, f)
       ELSE /\ stack' = WithTop(t, [f EXCEPT !.at = "spread", !.rest = Spread(t),
                                             !.doc = NoDoc,
                                             !.seen = @ \cup {f.card}])
            /\ UNCHANGED <<skip, lock>>
    /\ UNCHANGED <<alive, db, due>>

\* The parent goes first.
Recurse(t) ==
    LET f == Top(t)
        parent == Parents(f.card) \cap f.rest IN
    /\ At(t, "spread")
    /\ \E r \in (IF parent # {} THEN parent ELSE f.rest) :
         LET gone == [f EXCEPT !.rest = @ \ {r},
                               !.seen = @ \cup Parents(f.card) \cup {r}]
         IN Call(t, r, WithTop(t, gone)[t], f.seen)
    /\ UNCHANGED <<disk, db, watch, due, skip, edits>>

SpreadDone(t) ==
    /\ At(t, "spread")
    /\ Top(t).rest = {}
    /\ Finish(t, Top(t))
    /\ UNCHANGED <<disk, db, watch, due, edits>>

-----------------------------------------------------------------------------
(* The other writers of a card. *)

\* writeIssue: the mirror, then the file in the open bucket.
WriteIssue(c, d) ==
    /\ file' = [file EXCEPT ![c] = d]
    /\ db' = [db EXCEPT ![c] = d]
    /\ watch' = watch \cup {c}

\* persistMutatedIssue: the file alone, in the bucket of its raw status, and the
\* copy it was read from unlinked; or not, and an open one still hides the other.
Saved(c, d) ==
    \/ /\ file' = [file EXCEPT ![c] = d]
       /\ closed' = IF d.status \in Terminal THEN closed \cup {c}
                                              ELSE closed \ {c}
       /\ IF (d.status \in Terminal) = (c \in closed) THEN UNCHANGED hidden
                                                        ELSE Alone(c)
    \/ /\ d.status \in Terminal /\ c \notin closed
       /\ hidden' = [hidden EXCEPT ![c] = d]
       /\ UNCHANGED <<file, closed>>
    \/ /\ d.status \notin Terminal /\ c \in closed
       /\ file' = [file EXCEPT ![c] = d]
       /\ closed' = closed \ {c}
       /\ Hides(c)

\* A PATCH of the dashboard, another process.
OperatorMoves(c, dest) ==
    /\ Edited
    /\ \E d \in {ApplyListMove(ParseIssue(file[c]), dest)} :
         d # file[c] /\ Saved(c, d)
    /\ watch' = watch \cup {c}
    /\ UNCHANGED <<alive, db, due, skip, lock, stack>>

\* The picker dispatches a card (MultiAgentPick has the steps in between).
PickedUp(c) ==
    /\ Edited
    /\ c \notin Epics \cup closed /\ ~Waits(c)
    /\ \E d \in {ParseIssue(file[c])} :
         /\ ~d.blocked /\ d.dispatch = "none" /\ d.status = "ToDo"
         /\ WriteIssue(c, [d EXCEPT !.dispatch = "agent", !.owned = TRUE,
                                    !.stamps = @ \cup {"ToDo"}])
    /\ alive' = alive \cup {c}
    /\ UNCHANGED <<closed, hidden, due, skip, lock, stack>>

\* stampTerminal when the agent reports; the parent is reconciled at once.
AgentFinishes(c, col) ==
    /\ Edited
    /\ c \in alive
    /\ c \notin Epics
    /\ WriteIssue(c, StampTerminal(ParseIssue(file[c]), col, edits'))
    /\ alive' = alive \ {c}
    /\ due' = due \cup Parents(c)
    /\ UNCHANGED <<closed, hidden, skip, lock, stack>>

\* stampIssueBlocked: the agent gives the card up.
AgentBlocks(c) ==
    /\ Edited
    /\ c \in alive /\ c \notin closed
    /\ WriteIssue(c, [ParseIssue(file[c]) EXCEPT !.blocked = TRUE])
    /\ alive' = alive \ {c}
    /\ UNCHANGED <<closed, hidden, due, skip, lock, stack>>

\* The process ends with nothing said.
AgentDies(c) ==
    /\ Edited
    /\ c \in alive
    /\ alive' = alive \ {c}
    /\ UNCHANGED <<file, closed, hidden, process>>

\* onComplete: the dispatch block of an ended process is cleared.
DispatchCleared(c) ==
    /\ c \notin alive /\ c \notin closed
    /\ file[c].dispatch = "agent"
    /\ WriteIssue(c, [ParseIssue(file[c]) EXCEPT !.dispatch = "none"])
    /\ UNCHANGED <<closed, hidden, alive, due, skip, lock, stack, edits>>

\* The worker dies, maybe between a write and the move or the unlink that goes
\* with it.
Interrupted(t) ==
    LET f == Top(t) IN
    /\ At(t, "write")
    /\ file' = [file EXCEPT ![f.card] = f.doc]
    /\ closed' = closed \ {f.card}
    /\ Hides(f.card)

\* At boot every file is mirrored, the closed bucket last, and none reconciled.
Restart ==
    /\ Edited
    /\ \/ UNCHANGED <<file, closed, hidden>>
       \/ \E t \in Threads : Interrupted(t)
    /\ db' = [c \in Cards |-> IF hidden'[c] = NoDoc THEN file'[c] ELSE hidden'[c]]
    /\ watch' = {} /\ due' = {}
    /\ skip' = [c \in Cards |-> NotSeen]
    /\ lock' = [c \in Cards |-> <<>>]
    /\ stack' = [t \in Threads |-> <<>>]
    /\ UNCHANGED alive

Step(t) ==
    \/ Mirrored(t) \/ Load(t) \/ ReadChildren(t) \/ Write(t) \/ Recurse(t)
    \/ SpreadDone(t)

Edit(c) ==
    \/ \E dest \in Destinations : OperatorMoves(c, dest)
    \/ PickedUp(c) \/ AgentBlocks(c) \/ AgentDies(c) \/ DispatchCleared(c)
    \/ \E col \in Terminal : AgentFinishes(c, col)

Next ==
    \/ \E t \in Threads : Step(t)
    \/ \E t \in Handlers, c \in Cards : FileEvent(t, c) \/ ParentCalled(t, c)
    \/ \E c \in Cards : AuditVisits(c) \/ Edit(c)
    \/ Restart

Spec == Init /\ [][Next]_vars

\* Awaits settle, file events arrive, and the sweep comes to every open card.
Fairness ==
    /\ \A t \in Threads : WF_vars(Step(t))
    /\ WF_vars(\E t \in Handlers, c \in Cards : FileEvent(t, c))
    /\ WF_vars(\E t \in Handlers, c \in Cards : ParentCalled(t, c))
    /\ WF_vars(\E c \in Cards : AuditVisits(c))

FairSpec == Spec /\ Fairness

-----------------------------------------------------------------------------
\* A reconcile has its card from the mutex it awaited to its return.
Holds(f) == f.at \in {"children", "write", "spread"}
InHand(t, c) == \E i \in 1..Len(stack[t]) : stack[t][i].card = c /\ Holds(stack[t][i])
WaitsFor(t, u) == At(t, "mutex") /\ InHand(u, Top(t).card)

\* Type invariant: documents in the files, the mirror and the frames, and a
\* thread waits for a mutex once.
TypeOK ==
    /\ file \in [Cards -> Doc] /\ db \in [Cards -> Doc]
    /\ hidden \in [Cards -> Doc \cup {NoDoc}]
    /\ closed \subseteq Cards /\ alive \subseteq Cards
    /\ watch \subseteq Cards /\ due \subseteq Cards
    /\ \A c \in Cards : /\ skip[c].doc \in Doc \cup {NoDoc}
                        /\ lock[c] \in Seq(Threads)
                        /\ Len(lock[c]) <= Cardinality(Threads)
    /\ \A t \in Threads : \A i \in 1..Len(stack[t]) :
         /\ stack[t][i].card \in Cards
         /\ stack[t][i].at \in {"mirror", "mutex", "children", "write", "spread"}
         /\ stack[t][i].doc \in Doc \cup {NoDoc} /\ stack[t][i].hash \in Doc \cup {NoDoc}
         /\ stack[t][i].rest \subseteq Cards /\ stack[t][i].seen \subseteq Cards
    /\ edits \in 0..MaxEdits

\* No chains of calls wait for each other's cards, nor a chain for its own: the
\* mutex of a card stays taken while its parent and its dependents are
\* reconciled (reconcile.ts: "Cycles are bounded by an explicit visited set
\* threaded through the internal context").
NoWaitCycle ==
    \A T \in (SUBSET Threads) \ {{}} : \E t \in T : \A u \in T : ~WaitsFor(t, u)

\* Calls wait for each other in a circle only where the cards do: a set of calls
\* none of which can go on takes a set of cards each of which has its parent, or
\* a card that waits for it, in the set (reconcile.ts, steps 9 and 10).
WaitsFollowCards ==
    \A T \in (SUBSET Threads) \ {{}} :
        (\A t \in T : \E u \in T : WaitsFor(t, u))
          => \E C \in (SUBSET Cards) \ {{}} :
                \A c \in C : C \cap (Parents(c) \cup Dependents[c]) # {}

\* A parent that keeps its own column against the column of its children: by
\* an earlier readying or archiving, by a dispatch, or because it was cancelled
\* and its children are done (the rollup leaves the stamp, and it outranks).
Pinned(c, col) ==
    /\ Kids[c] # {}
    /\ \/ file[c].stamps \cap {"ToDo", "Backlog"} # {}
       \/ file[c].dispatch # "none"
       \/ "Cancelled" \in file[c].stamps /\ col = "Done"

\* When the skip-cache would let a reconcile return early, the reconcile had
\* nothing to do: the card is its own projection and in its bucket
\* (reconcile.ts, step 2b).  Only the death of an agent is not in the key.
SkipSound ==
    \A c \in Cards :
        LET S == StatusesOf(Children(c)) IN
        skip[c] = [doc |-> file[c], kids |-> Children(c)]
          /\ ~Pinned(c, DeriveParentStatus(S)) =>
            /\ Projected(file[c], c \in Epics, Waits(c), S, TRUE)
                 = ParseIssue(file[c])
            /\ Closes(file[c]) = (c \in closed)

\* Reconcile comes to rest: its own writes, the sweep and the recursion do not
\* keep each other going (the flapping of DX-641), and no call that holds one
\* card's mutex waits for another's for ever.
EventuallyAtRest == <>[](\A t \in Threads : stack[t] = <<>>)

\* A closed card whose row a late upsert took back: the sweep does not come to
\* it again (mirrorOne compares before it awaits).
LeftStale(c) == c \in closed /\ db[c] # file[c]

\* In the end an open parent that waits for nothing shows what its children
\* are, whatever order their reports, events and reconciles came in, unless
\* the mirror lost a closed child's last write.
EventuallyRolledUp ==
    \A p \in Cards :
        LET col == DeriveParentStatus({DeriveStatus(file[k]) : k \in Kids[p]})
        IN <>[](\/ Kids[p] = {} \/ Waits(p) \/ p \in closed \/ Pinned(p, col)
                \/ \E k \in Kids[p] : LeftStale(k)
                \/ col \in {"mixed", DeriveStatus(file[p])})

\* In the end the file of a card that readers take is in the bucket its column
\* calls for and, where a race, a failed unlink or a crash left two of them, the
\* mirror does not show the other one ("open wins", reconcile.ts, loadYaml).
EventuallyFiled ==
    <>[](\A c \in Cards : /\ Closes(file[c]) = (c \in closed)
                          /\ hidden[c] # NoDoc => db[c] = file[c])

\* A card an operator moved to In Progress stays with the operator until
\* somebody moves or finishes it (list-move.ts: the record "cleanly locks the
\* card from agent pickup while the human works on it").
HoldKept ==
    [][\A c \in Cards \ Epics :
         file[c].dispatch = "human" /\ file'[c].dispatch # "human"
             => edits' # edits]_vars
=============================================================================
