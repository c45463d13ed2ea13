--------------------------- MODULE MultiAgentPick ---------------------------
(***************************************************************************)
(* The picker tick of one repo (src/src/poller/multi-agent-pick.ts): it     *)
(* reads the open cards, the roster and the busy agents, lets every agent   *)
(* resume what it owns (pass A), then offers each free card (pass B).       *)
(* Every read and write is awaited, so agents, operators and completions    *)
(* run between any two steps.  PickerMutex keeps two ticks of a repo apart, *)
(* DispatchLock has the inside of the tracker lock, DispatchRun that of a   *)
(* dispatch.                                                                *)
(*                                                                          *)
(* Agents are numbered in the order of their names and cards in pick order; *)
(* 0 stands for nobody and nothing.                                         *)
(***************************************************************************)
EXTENDS Naturals, Functions

CONSTANTS NAgents,     \* the roster is 1..NAgents
          NCards,
          Ids,         \* dispatch ids in use at once
          ConflictOn,  \* conflict_on of each card
          Tracked,     \* cards with an external_id
          Fragile,     \* agents whose worktree may break
          Blockable,   \* cards that may be blocked
          SeparatePrep,\* prep mode "separate"
          FirstIssues  \* what a card may be when the worker starts

Agents == 1..NAgents
Cards == 1..NCards
Gone == NAgents + 1    \* an agent deleted from the roster

\* A card is finished, has ready_at stamped (the status on disk is then never
\* looked at), or is as its status on disk says.
Issue == [column : {"Done", "ready", "ToDo", "In Progress"},
          dispatch : BOOLEAN,   \* it carries a dispatch block
          owner : 0..Gone, blocked : BOOLEAN]
ASSUME PickAssumption ==
    /\ NAgents \in Nat \ {0} /\ NCards \in Nat \ {0}
    /\ ConflictOn \in [Cards -> SUBSET Cards]
    /\ Tracked \subseteq Cards /\ Fragile \subseteq Agents
    /\ Blockable \subseteq Cards
    /\ SeparatePrep \in BOOLEAN
    /\ FirstIssues \subseteq Issue

Run == [agent : Agents, card : Cards, kind : {"work", "prep", "reconcile"},
        alive : BOOLEAN,   \* the process
        open : BOOLEAN,    \* the dispatches row is not terminal
        told : BOOLEAN]    \* onComplete has run
NoRun == [agent |-> 0]

Fresh == [column |-> "ToDo", dispatch |-> FALSE, owner |-> 0, blocked |-> FALSE]
NoAttempt == [agent |-> 0, card |-> 0, kind |-> "work", readied |-> FALSE]

\* deriveStatus.
Derived(i) == IF i.column = "Done" THEN "Done"
              ELSE IF i.dispatch THEN "In Progress"
              ELSE IF i.column = "ready" THEN "ToDo" ELSE i.column

\* parseIssue puts the derived status in the place of the one on disk; the
\* mirror's rows keep it.
Parsed(i) == IF i.column = "ready" THEN i ELSE [i EXCEPT !.column = Derived(i)]

VARIABLES
    issue,      \* the card's file and its mirror
    run,        \* by dispatch id: its row and its process
    broken,     \* agents.<name>.broken in settings.json
    \* the tick
    pc, pass, at,
    cards,      \* remainingCards, as they were read
    openIssues, \* the open cards as they were read
    brokenSeen, \* the roster snapshot
    assigned,   \* the mirror's owner of each remaining card
    busy, skipAgents, handled,
    attempt     \* what attemptDispatch is working on

system == <<issue, run, broken>>
snapshot == <<openIssues, brokenSeen, assigned>>
progress == <<busy, skipAgents, handled>>
tick == <<pc, pass, at, cards, snapshot, progress, attempt>>
vars == <<system, tick>>

None == [c \in {} |-> 0]

Init ==
    /\ issue \in [Cards -> FirstIssues]
    /\ run = [i \in Ids |-> NoRun]
    /\ broken = {}
    /\ pc = "idle" /\ pass = "A" /\ at = 1
    /\ cards = None /\ openIssues = None /\ assigned = None
    /\ brokenSeen = {} /\ busy = {} /\ skipAgents = {} /\ handled = {}
    /\ attempt = NoAttempt

-----------------------------------------------------------------------------
Runs == {i \in Ids : run[i] # NoRun}
OpenRows == {i \in Runs : run[i].open}
FreeIds == Ids \ Runs

\* isEffectivelyConflicted: a partner, named by either side, is in progress.
Conflicted(c, all) == \E d \in DOMAIN all \ {c} :
    /\ d \in ConflictOn[c] \/ c \in ConflictOn[d]
    /\ Derived(all[d]) = "In Progress"

Dispatchable(c) ==
    /\ Derived(issue[c]) = "ToDo"
    /\ ~issue[c].blocked
    /\ ~issue[c].dispatch
    /\ ~Conflicted(c, issue)

\* pickFreeAgentCandidates (mutant: dispatched agents stay in the pool).
EligibleThoughBusy == Agents \ (brokenSeen \cup skipAgents)
Eligible == Agents \ (brokenSeen \cup busy \cup skipAgents)

Owned(a) == {c \in DOMAIN openIssues : openIssues[c].owner = a}

First(x, S) == x \in S /\ \A y \in S : x <= y

\* What else a finished card carries is read by nothing, and dropped here.
Finished == [Fresh EXCEPT !.column = "Done"]
WriteIssue(c, i) ==
    issue' = [issue EXCEPT ![c] = IF i.column = "Done" THEN Finished ELSE i]

-----------------------------------------------------------------------------
\* runPicker reads both lists at once; either may come first.
ReadDispatchable ==
    /\ pc \in {"idle", "second cards"}
    /\ cards' = Restrict(issue, {c \in Cards : Dispatchable(c)})
    /\ pc' = IF pc = "idle" THEN "second open" ELSE "roster"
    /\ UNCHANGED <<system, pass, at, snapshot, progress, attempt>>

ReadOpenIssues ==
    /\ pc \in {"idle", "second open"}
    /\ openIssues' = Restrict(issue, {c \in Cards : issue[c].column # "Done"})
    /\ pc' = IF pc = "idle" THEN "second cards" ELSE "roster"
    /\ UNCHANGED <<system, pass, at, cards, brokenSeen, assigned, progress,
                   attempt>>

ReadRoster ==
    /\ pc = "roster"
    /\ pc' = "busy"
    /\ brokenSeen' = broken
    /\ UNCHANGED <<system, pass, at, cards, openIssues, assigned, progress,
                   attempt>>

\* busyAgents: the agents with a row that is not terminal.
InFlightAgents == {run[i].agent : i \in OpenRows}

BusyAgents ==
    /\ pc = "busy"
    /\ pc' = "assigned"
    /\ busy' = InFlightAgents
    /\ UNCHANGED <<system, pass, at, cards, snapshot, skipAgents, handled,
                   attempt>>

AssignedCards ==
    /\ pc = "assigned"
    /\ pc' = "heal"
    /\ assigned' = [c \in DOMAIN cards |-> issue[c].owner]
    /\ UNCHANGED <<system, pass, at, cards, openIssues, brokenSeen, progress,
                   attempt>>

\* Clears the stamp of an agent that is not in the roster, from the card as it
\* was read.
HealOrphan(c) ==
    LET healed == [cards[c] EXCEPT !.owner = 0, !.dispatch = FALSE] IN
    /\ pc = "heal"
    /\ c \in DOMAIN cards /\ cards[c].owner = Gone
    /\ WriteIssue(c, healed)
    /\ cards' = [cards EXCEPT ![c] = healed]
    /\ UNCHANGED <<run, broken, pc, pass, at, snapshot, progress, attempt>>

BeginPassA ==
    /\ pc = "heal"
    /\ \A c \in DOMAIN cards : cards[c].owner # Gone
    /\ pc' = "pick"
    /\ UNCHANGED <<system, pass, at, cards, snapshot, progress, attempt>>

-----------------------------------------------------------------------------
\* attemptDispatch(agent, card): i is the card as the tick read it.
BeginAttempt(a, c, i, reconcile) ==
    /\ attempt' = [agent |-> a, card |-> c,
                   kind |-> IF reconcile THEN "reconcile"
                            ELSE IF SeparatePrep /\ i.owner # a THEN "prep"
                            ELSE "work",
                   readied |-> FALSE]
    /\ pc' = IF c \in Tracked THEN "guard" ELSE "claim"
    /\ UNCHANGED <<system, cards, snapshot, busy, skipAgents>>

Remaining(left) == Restrict(cards, left)

\* removeFromRemaining: a card that pass A took from openIssues is not an
\* element of remainingCards, so nothing is removed (mutant: never removed).
StaysRemaining == cards
LeavesRemaining ==
    IF pass = "B" THEN Remaining(DOMAIN cards \ {attempt.card}) ELSE cards

EndAttempt ==
    /\ pc' = "pick"
    /\ cards' = LeavesRemaining
    /\ attempt' = NoAttempt
    /\ UNCHANGED <<pass, at, snapshot, handled>>

\* The next agent of the roster that is eligible and owns a card.
PassA(a) ==
    /\ pc = "pick" /\ pass = "A"
    /\ First(a, {b \in Eligible : b >= at /\ Owned(b) # {}})
    /\ at' = a + 1

Gated(c) == Conflicted(c, openIssues) \/ openIssues[c].blocked

\* The one card the agent owns cannot go on: the claim is released.
ReleaseOnGate(a) ==
    /\ PassA(a)
    /\ \E c \in Cards :
          /\ Owned(a) = {c} /\ Gated(c)
          /\ WriteIssue(c, [openIssues[c] EXCEPT
                                !.owner = 0, !.dispatch = FALSE,
                                !.column = IF openIssues[c].blocked \/ @ = "ready"
                                           THEN @ ELSE "ToDo"])
    /\ UNCHANGED <<run, broken, pc, pass, cards, snapshot, progress, attempt>>

\* The agent resumes the card it owns, or sorts out that it owns several.
ResumeOwned(a) ==
    /\ PassA(a)
    /\ \E c \in Cards :
          /\ First(c, Owned(a))
          /\ Owned(a) = {c} => ~Gated(c)
          /\ BeginAttempt(a, c, openIssues[c], Owned(a) # {c})
    /\ handled' = handled \cup Owned(a)
    /\ UNCHANGED pass

\* openIssues is not read again.
BeginPassB ==
    /\ pc = "pick" /\ pass = "A"
    /\ \A a \in Eligible : a >= at => Owned(a) = {}
    /\ pass' = "B" /\ at' = 1
    /\ openIssues' = None
    /\ UNCHANGED <<system, pc, cards, brokenSeen, assigned, progress, attempt>>

\* The owner a card is routed to: its own stamp, else that of the mirror
\* (mutant: every card is anybody's).
NobodyOwns(c) == 0
Owner(c) == IF cards[c].owner # 0 THEN cards[c].owner ELSE assigned[c]

Deferred(c) ==
    \/ c \in handled
    \/ cards[c].owner # 0 /\ assigned[c] # 0 /\ cards[c].owner # assigned[c]
    \/ Owner(c) # 0 /\ Owner(c) \notin Eligible

\* What is left of the list pass B walks.
Ahead == {c \in DOMAIN cards : c >= at}
PassB(c) ==
    /\ pc = "pick" /\ pass = "B"
    /\ First(c, Ahead)
    /\ at' = c + 1

DeferCard(c) ==
    /\ PassB(c) /\ Deferred(c)
    /\ cards' = Remaining(DOMAIN cards \ {c})
    /\ UNCHANGED <<system, pc, pass, snapshot, progress, attempt>>

\* The agents a card may go to: its owner alone, or any that is free.
Takers(c) == IF Owner(c) # 0 THEN {Owner(c)} ELSE Eligible

OfferCard(c) ==
    /\ PassB(c) /\ ~Deferred(c)
    /\ \E a \in Agents : First(a, Takers(c)) /\ BeginAttempt(a, c, cards[c], FALSE)
    /\ UNCHANGED <<pass, handled>>

\* The list is walked, or the next card finds no free agent.
TickDone ==
    /\ pc = "pick" /\ pass = "B"
    /\ \A c \in Ahead : First(c, Ahead) => ~Deferred(c) /\ Takers(c) = {}

EndTick ==
    /\ TickDone
    /\ pc' = "idle" /\ pass' = "A" /\ at' = 1
    /\ cards' = None /\ openIssues' = None /\ assigned' = None
    /\ brokenSeen' = {} /\ busy' = {} /\ skipAgents' = {} /\ handled' = {}
    /\ UNCHANGED <<system, attempt>>

-----------------------------------------------------------------------------
\* The phases of attemptDispatch.
\* guardLiveDispatchForCard: a row of the card is not terminal, and its process
\* lives.  It finds nothing when the database fails: left out here (mutant: it
\* never finds anything).
NoLiveDispatch(c) == FALSE
LiveDispatch(c) == \E i \in OpenRows : run[i].card = c /\ run[i].alive

Guard ==
    /\ pc = "guard"
    /\ UNCHANGED <<system, busy, skipAgents>>
    /\ IF LiveDispatch(attempt.card)
       THEN EndAttempt
       ELSE /\ pc' = "claim"
            /\ UNCHANGED <<pass, at, cards, snapshot, handled, attempt>>

LockHeld ==
    /\ pc = "claim" /\ attempt.card \in Tracked
    /\ EndAttempt
    /\ UNCHANGED <<system, busy, skipAgents>>

\* A tracker error: the agent sits out the rest of the tick.
LockThrows ==
    /\ pc = "claim" /\ attempt.card \in Tracked
    /\ EndAttempt
    /\ skipAgents' = skipAgents \cup {attempt.agent}
    /\ UNCHANGED <<system, busy>>

\* Both stamps write the card as the tick read it.
AsRead == (IF pass = "A" THEN openIssues ELSE cards)[attempt.card]
Claimed == [AsRead EXCEPT !.owner = attempt.agent]

Stamp ==
    /\ pc = "claim" /\ pc' = "sync"
    /\ WriteIssue(attempt.card, [Claimed EXCEPT !.dispatch = TRUE])
    /\ UNCHANGED <<run, broken, pass, at, cards, snapshot, progress, attempt>>

\* Either write fails; the owner, when it is new, may already be stamped.
StampFails ==
    /\ pc = "claim"
    /\ EndAttempt
    /\ \/ UNCHANGED issue
       \/ AsRead # Claimed /\ WriteIssue(attempt.card, Claimed)
    /\ UNCHANGED <<run, broken, busy, skipAgents>>

\* dispatchWithRecovery: the agent's worktree cannot be synced.
WorktreeAborts ==
    /\ pc = "sync" /\ pc' = "failed"
    /\ attempt.agent \in Fragile
    /\ broken' = broken \cup {attempt.agent}
    /\ UNCHANGED <<issue, run, pass, at, cards, snapshot, progress, attempt>>

\* It can; before a working agent is spawned dispatch() moves a card that is
\* ToDo on disk to In Progress, with a ready_at.
FlipToInProgress ==
    LET c == attempt.card
        readies == attempt.kind # "prep" /\ issue[c].column = "ToDo" IN
    /\ pc = "sync" /\ pc' = "spawn"
    /\ attempt' = [attempt EXCEPT !.readied = readies]
    /\ IF readies THEN WriteIssue(c, [issue[c] EXCEPT !.column = "ready"])
                  ELSE UNCHANGED issue
    /\ UNCHANGED <<run, broken, pass, at, cards, snapshot, progress>>

\* The row is inserted and the process runs; the pid is stamped on the card.
Spawned ==
    /\ pc = "spawn" /\ pc' = "pick"
    /\ \E i \in FreeIds :
          run' = [run EXCEPT ![i] =
                     [agent |-> attempt.agent, card |-> attempt.card,
                      kind |-> attempt.kind, alive |-> TRUE, open |-> TRUE,
                      told |-> FALSE]]
    /\ WriteIssue(attempt.card,
                  [issue[attempt.card] EXCEPT !.dispatch = TRUE])
    /\ busy' = busy \cup {attempt.agent}
    /\ assigned' = [c \in DOMAIN assigned |->
                       IF c = attempt.card THEN attempt.agent ELSE assigned[c]]
    /\ cards' = LeavesRemaining
    /\ attempt' = NoAttempt
    /\ UNCHANGED <<broken, pass, at, openIssues, brokenSeen, skipAgents,
                   handled>>

\* dispatch() throws after it put the card back, unless it was blocked or
\* finished meanwhile.
SpawnFails ==
    LET c == attempt.card IN
    /\ pc = "spawn" /\ pc' = "failed"
    /\ IF attempt.readied /\ ~issue[c].blocked /\ issue[c].column # "Done"
       THEN WriteIssue(c, [issue[c] EXCEPT !.column = "ToDo"])
       ELSE UNCHANGED issue
    /\ UNCHANGED <<run, broken, pass, at, cards, snapshot, progress, attempt>>

ClearAfterFailure ==
    /\ pc = "failed"
    /\ WriteIssue(attempt.card, [issue[attempt.card] EXCEPT !.dispatch = FALSE])
    /\ EndAttempt
    /\ UNCHANGED <<run, broken, busy, skipAgents>>

-----------------------------------------------------------------------------
\* The agents, their completions, the operator and the card reconcile.
Alive == {i \in Runs : run[i].alive}

\* What the agent completes is stamped on its card: done, or blocked.
AgentSaves(i) ==
    LET c == run[i].card IN
    /\ i \in Alive
    /\ \/ /\ run[i].kind # "prep"
          /\ WriteIssue(c, Finished)
       \/ /\ c \in Blockable
          /\ WriteIssue(c, [Parsed(issue[c]) EXCEPT !.blocked = TRUE])
    /\ UNCHANGED <<run, broken, tick>>

\* An agent told to sort out its cards releases all but the one it is on.
AgentReleases(i, c) ==
    /\ i \in Alive /\ run[i].kind = "reconcile"
    /\ c # run[i].card /\ issue[c].owner = run[i].agent
    /\ WriteIssue(c, [issue[c] EXCEPT !.owner = 0, !.dispatch = FALSE])
    /\ UNCHANGED <<run, broken, tick>>

\* The process ends; a prep verdict "abort" marks the agent broken.
AgentExits(i) ==
    /\ i \in Alive
    /\ run' = [run EXCEPT ![i].alive = FALSE]
    /\ \/ UNCHANGED broken
       \/ run[i].agent \in Fragile /\ broken' = broken \cup {run[i].agent}
    /\ UNCHANGED <<issue, tick>>

Settled(r) == IF r.open \/ ~r.told THEN r ELSE NoRun

\* The row and the callback follow the exit in either order.
RowFinalized(i) ==
    /\ i \in OpenRows \ Alive
    /\ run' = [run EXCEPT ![i] = Settled([@ EXCEPT !.open = FALSE])]
    /\ UNCHANGED <<issue, broken, tick>>

\* onComplete clears whatever dispatch the card's file carries.
OnComplete(i) ==
    LET c == run[i].card IN
    /\ i \in Runs \ Alive /\ ~run[i].told
    /\ run' = [run EXCEPT ![i] = Settled([@ EXCEPT !.told = TRUE])]
    /\ IF issue[c].dispatch
       THEN WriteIssue(c, [Parsed(issue[c]) EXCEPT !.dispatch = FALSE])
       ELSE UNCHANGED issue
    /\ UNCHANGED <<broken, tick>>

\* Reconcile takes a blocked card from its owner.
ReconcileBlocked(c) ==
    /\ issue[c].blocked /\ issue[c].owner # 0
    /\ WriteIssue(c, [Parsed(issue[c]) EXCEPT !.owner = 0])
    /\ UNCHANGED <<run, broken, tick>>

OperatorFinishes(c) ==
    /\ issue[c].column # "Done"
    /\ WriteIssue(c, Finished)
    /\ UNCHANGED <<run, broken, tick>>

OperatorUnblocks(c) ==
    /\ issue[c].blocked
    /\ WriteIssue(c, [Parsed(issue[c]) EXCEPT !.blocked = FALSE])
    /\ UNCHANGED <<run, broken, tick>>

OperatorClearsBroken(a) ==
    /\ a \in broken
    /\ broken' = broken \ {a}
    /\ UNCHANGED <<issue, run, tick>>

-----------------------------------------------------------------------------
Read == \/ ReadDispatchable \/ ReadOpenIssues \/ ReadRoster
        \/ BusyAgents \/ AssignedCards
Pick == \/ BeginPassA \/ BeginPassB \/ EndTick
        \/ \E a \in Agents : ReleaseOnGate(a) \/ ResumeOwned(a)
        \/ \E c \in Cards : HealOrphan(c) \/ DeferCard(c) \/ OfferCard(c)
Attempt == \/ Guard \/ LockHeld \/ LockThrows \/ Stamp \/ StampFails
           \/ WorktreeAborts \/ FlipToInProgress
           \/ Spawned \/ SpawnFails \/ ClearAfterFailure
Agent == \E i \in Ids :
    \/ AgentSaves(i) \/ AgentExits(i) \/ RowFinalized(i) \/ OnComplete(i)
    \/ \E c \in Cards : AgentReleases(i, c)
Operator == \/ \E c \in Cards : \/ ReconcileBlocked(c) \/ OperatorUnblocks(c)
                                \/ OperatorFinishes(c)
            \/ \E a \in Agents : OperatorClearsBroken(a)

Next == Read \/ Pick \/ Attempt \/ Agent \/ Operator

Spec == Init /\ [][Next]_vars

-----------------------------------------------------------------------------
\* The state keeps its shape: snapshots hold cards, the tick its phases.
TypeOK ==
    /\ issue \in [Cards -> Issue]
    /\ run \in [Ids -> Run \cup {NoRun}]
    /\ broken \subseteq Fragile
    /\ pc \in {"idle", "second cards", "second open", "roster", "busy",
               "assigned", "heal", "pick", "guard", "claim", "sync", "spawn",
               "failed"}
    /\ pass \in {"A", "B"}
    /\ at \in Nat
    /\ DOMAIN cards \subseteq Cards /\ Range(cards) \subseteq Issue
    /\ DOMAIN openIssues \subseteq Cards /\ Range(openIssues) \subseteq Issue
    /\ DOMAIN assigned \subseteq Cards /\ Range(assigned) \subseteq 0..Gone
    /\ handled \subseteq Cards
    /\ {brokenSeen, busy, skipAgents} \subseteq SUBSET Agents
    /\ attempt \in [agent : Agents \cup {0}, card : Cards \cup {0},
                    kind : {"work", "prep", "reconcile"}, readied : BOOLEAN]

\* An agent never has two dispatches at once, whatever the picker's snapshots
\* missed: its worktree holds one.
OneDispatchPerAgent ==
    \A i, j \in OpenRows : run[i].agent = run[j].agent => i = j

\* A tracked card never has two agents at work, whatever became of its stamps
\* in between, as long as the database answers the guard.
OneAgentPerCard ==
    \A i, j \in Alive : run[i].card = run[j].card /\ run[i].card \in Tracked
                            => i = j

\* A card that is stamped with an agent of the roster is not given to another
\* one before it was released.
OwnerKept ==
    [][\A c \in Cards : issue[c].owner \in Agents
                            => issue'[c].owner \in {issue[c].owner, 0}]_vars

\* When a tick ends, no agent that is still free could take a card that is
\* still waiting.
TickConverges ==
    TickDone => \A a \in Eligible, c \in DOMAIN cards :
        assigned[c] \notin {0, a} \/ cards[c].owner \notin {0, a}

-----------------------------------------------------------------------------
Job(i) == [id |-> i, agent |-> run[i].agent, card |-> run[i].card]

\* A dispatch keeps its agent while its row is open.
Work == INSTANCE Assignment WITH
            Guarded <- Tracked,
            held <- {Job(i) : i \in OpenRows},
            working <- {Job(i) : i \in Alive}

\* Every step of the tick, the agents and the operator is one of Assignment, or
\* gives out and ends nothing: work begins only with a free agent on a card
\* nobody is at, though the tick looked at both several steps before, and no
\* late row update or callback gives it back or takes it twice.
ImplementsAssignment == Work!Spec
=============================================================================
