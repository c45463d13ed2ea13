------------------------ MODULE MultiAgentPickProofs ------------------------
(***************************************************************************)
(* Proofs about MultiAgentPick, for any roster, cards and dispatch ids.     *)
(***************************************************************************)
EXTENDS MultiAgentPick, WellFoundedInduction, TLAPS

\* The phases in which attemptDispatch holds an agent and a card.
Trying == pc \in {"guard", "claim", "sync", "spawn", "failed"}

RunsTyped == run \in [Ids -> Run \cup {NoRun}]

TickTyped ==
    /\ pc \in {"idle", "second cards", "second open", "roster", "busy",
               "assigned", "heal", "pick", "guard", "claim", "sync", "spawn",
               "failed"}
    /\ busy \subseteq Agents
    /\ DOMAIN cards \subseteq Cards

\* A row stays open as long as its process lives.
AliveHasRow == \A i \in Alive : run[i].open

\* Once the tick has read the busy agents it knows every agent with an open
\* row: rows are opened by the tick itself and otherwise only closed.
BusyKnown ==
    pc \notin {"idle", "second cards", "second open", "roster", "busy"}
        => \A i \in OpenRows : run[i].agent \in busy

\* The agent of an attempt was eligible and has got no row since.
AttemptFree ==
    Trying => attempt \in [agent : Agents \ busy, card : Cards,
                           kind : {"work", "prep", "reconcile"},
                           readied : BOOLEAN]

\* What the guard found stays true: nobody but this tick starts an agent.
CardClear ==
    pc \in {"claim", "sync", "spawn"} /\ attempt.card \in Tracked
        => \A i \in Alive : run[i].card # attempt.card

IInv == /\ RunsTyped /\ TickTyped /\ AliveHasRow /\ BusyKnown /\ AttemptFree
        /\ CardClear /\ OneDispatchPerAgent /\ OneAgentPerCard

-----------------------------------------------------------------------------
LEMMA RunIsNotNoRun == NoRun \notin Run
<1>1. ASSUME NoRun \in Run PROVE FALSE
  <2>1. NoRun.agent \in Agents
    BY <1>1 DEF Run
  <2> QED BY <2>1 DEF NoRun, Agents
<1> QED BY <1>1

LEMMA RunsAreRuns == RunsTyped => \A i \in Runs : run[i] \in Run
BY DEF RunsTyped, Runs

LEMMA InitIInv == Init => IInv
BY DEF Init, IInv, RunsTyped, TickTyped, AliveHasRow, BusyKnown, AttemptFree,
       CardClear, OneDispatchPerAgent, OneAgentPerCard, Trying, Alive,
       OpenRows, Runs, NoRun, None

\* The agents', the operator's and the reconcile's steps that start and end
\* nothing keep the invariant.
LEMMA NoRunNoTick == ASSUME IInv, UNCHANGED <<run, tick>> PROVE IInv'
BY DEF IInv, RunsTyped, TickTyped, AliveHasRow, BusyKnown, AttemptFree,
       CardClear, OneDispatchPerAgent, OneAgentPerCard, Trying, Alive,
       OpenRows, Runs, tick, progress

\* A step of the tick that starts no agent and is in no attempt afterwards.
LEMMA NoAttemptAfter ==
    ASSUME IInv, run' = run, TickTyped', BusyKnown', ~Trying'
    PROVE  IInv'
BY DEF IInv, RunsTyped, TickTyped, AliveHasRow, BusyKnown, AttemptFree,
       CardClear, OneDispatchPerAgent, OneAgentPerCard, Trying, Alive,
       OpenRows, Runs

LEMMA ReadSteps == ASSUME IInv, Read PROVE IInv'
<1>1. CASE ReadDispatchable
  <2>1. run' = run /\ busy' = busy /\ pc' \in {"second open", "roster"}
        /\ DOMAIN cards' \subseteq Cards
    BY <1>1, Zenon DEF ReadDispatchable, Restrict, Dispatchable, system, progress
  <2> QED BY <2>1, NoAttemptAfter DEF IInv, TickTyped, BusyKnown, Trying
<1>2. CASE ReadOpenIssues
  BY <1>2, NoAttemptAfter
     DEF ReadOpenIssues, IInv, TickTyped, BusyKnown, Trying, system, progress
<1>3. CASE ReadRoster
  BY <1>3, NoAttemptAfter
     DEF ReadRoster, IInv, TickTyped, BusyKnown, Trying, system, progress
<1>4. CASE BusyAgents
  <2>1. run' = run /\ cards' = cards /\ pc' = "assigned"
        /\ busy' = InFlightAgents
    BY <1>4 DEF BusyAgents, system
  <2>2. InFlightAgents \subseteq Agents
    BY RunsAreRuns DEF IInv, InFlightAgents, OpenRows, Run
  <2>3. BusyKnown'
    BY <2>1 DEF BusyKnown, InFlightAgents, OpenRows, Runs
  <2> QED BY <2>1, <2>2, <2>3, NoAttemptAfter DEF IInv, TickTyped, Trying
<1>5. CASE AssignedCards
  BY <1>5, NoAttemptAfter
     DEF AssignedCards, IInv, TickTyped, BusyKnown, Trying, system, progress,
         OpenRows, Runs
<1> QED BY <1>1, <1>2, <1>3, <1>4, <1>5 DEF Read

\* A new attempt takes an eligible agent, which has no open row, and begins
\* before or without the guard of a tracked card.
LEMMA AttemptBegins ==
    ASSUME IInv, pc = "pick", NEW a \in Eligible, NEW c \in Cards, NEW i,
           NEW reconcile \in BOOLEAN, BeginAttempt(a, c, i, reconcile)
    PROVE  IInv'
<1>1. /\ run' = run /\ busy' = busy /\ cards' = cards
      /\ pc' = IF c \in Tracked THEN "guard" ELSE "claim"
  BY DEF BeginAttempt, system
<1>2. TickTyped' /\ BusyKnown'
  BY <1>1 DEF IInv, TickTyped, BusyKnown, OpenRows, Runs
<1>3. a \in Agents \ busy
  BY DEF Eligible
<1>4. AttemptFree'
  BY <1>1, <1>3 DEF BeginAttempt, AttemptFree
<1>5. CardClear'
  BY <1>1 DEF BeginAttempt, CardClear
<1> QED
  BY <1>1, <1>2, <1>4, <1>5 DEF IInv, RunsTyped, AliveHasRow,
     OneDispatchPerAgent, OneAgentPerCard, Alive, OpenRows, Runs

LEMMA PickSteps == ASSUME IInv, Pick PROVE IInv'
<1>1. CASE BeginPassA
  BY <1>1, NoAttemptAfter
     DEF BeginPassA, IInv, TickTyped, BusyKnown, Trying, system, progress,
         OpenRows, Runs
<1>2. CASE BeginPassB
  BY <1>2, NoAttemptAfter
     DEF BeginPassB, IInv, TickTyped, BusyKnown, Trying, system, progress,
         OpenRows, Runs
<1>3. CASE EndTick
  BY <1>3, NoAttemptAfter
     DEF EndTick, IInv, TickTyped, BusyKnown, Trying, system, None
<1>4. ASSUME NEW a \in Agents, ReleaseOnGate(a) PROVE IInv'
  <2>1. pc = "pick" /\ pc' = pc /\ run' = run /\ busy' = busy /\ cards' = cards
    BY <1>4 DEF ReleaseOnGate, PassA, progress
  <2> QED
    BY <2>1, NoAttemptAfter
       DEF IInv, TickTyped, BusyKnown, Trying, OpenRows, Runs
<1>5. ASSUME NEW a \in Agents, ResumeOwned(a) PROVE IInv'
  <2>1. pc = "pick" /\ a \in Eligible
    BY <1>5 DEF ResumeOwned, PassA, First
  <2>2. PICK c \in Cards : BeginAttempt(a, c, openIssues[c], Owned(a) # {c})
    BY <1>5 DEF ResumeOwned
  <2> QED BY <2>1, <2>2, AttemptBegins
<1>6. ASSUME NEW c \in Cards, HealOrphan(c) PROVE IInv'
  <2>1. /\ pc = "heal" /\ pc' = pc /\ run' = run /\ busy' = busy
        /\ DOMAIN cards' = DOMAIN cards
    BY <1>6 DEF HealOrphan, progress
  <2> QED
    BY <2>1, NoAttemptAfter
       DEF IInv, TickTyped, BusyKnown, Trying, OpenRows, Runs
<1>7. ASSUME NEW c \in Cards, DeferCard(c) PROVE IInv'
  <2>1. /\ pc = "pick" /\ pc' = pc /\ run' = run /\ busy' = busy
        /\ DOMAIN cards' = DOMAIN cards \ {c}
    BY <1>7, Zenon DEF DeferCard, PassB, Remaining, Restrict, system, progress
  <2> QED
    BY <2>1, NoAttemptAfter
       DEF IInv, TickTyped, BusyKnown, Trying, OpenRows, Runs
<1>8. ASSUME NEW c \in Cards, OfferCard(c) PROVE IInv'
  <2>1. pc = "pick" /\ ~Deferred(c)
    BY <1>8 DEF OfferCard, PassB
  <2>2. PICK a \in Agents : a \in Takers(c) /\ BeginAttempt(a, c, cards[c], FALSE)
    BY <1>8 DEF OfferCard, First
  <2>3. a \in Eligible
    BY <2>1, <2>2 DEF Takers, Deferred
  <2> QED BY <2>1, <2>2, <2>3, AttemptBegins
<1> QED
  BY <1>1, <1>2, <1>3, <1>4, <1>5, <1>6, <1>7, <1>8 DEF Pick

LEMMA AttemptEnds ==
    ASSUME IInv, pc \notin {"idle", "second cards", "second open", "roster", "busy"},
           run' = run, busy' = busy, EndAttempt
    PROVE  IInv'
<1>1. DOMAIN cards' \subseteq Cards
  BY DEF IInv, TickTyped, EndAttempt, LeavesRemaining, Remaining, Restrict
<1> QED
  BY <1>1, NoAttemptAfter
     DEF EndAttempt, IInv, TickTyped, BusyKnown, Trying, OpenRows, Runs

LEMMA GuardStep == ASSUME IInv, Guard PROVE IInv'
<1>1. pc = "guard" /\ run' = run /\ busy' = busy
  BY DEF Guard, system
<1>2. CASE LiveDispatch(attempt.card)
  BY <1>1, <1>2, AttemptEnds DEF Guard
<1>3. CASE ~LiveDispatch(attempt.card)
  <2>1. pc' = "claim" /\ attempt' = attempt /\ cards' = cards
    BY <1>3 DEF Guard
  <2>2. \A i \in Alive : run[i].card # attempt.card
    BY <1>3 DEF LiveDispatch, IInv, AliveHasRow, Alive, OpenRows
  <2>3. CardClear'
    BY <1>1, <2>1, <2>2 DEF CardClear, Alive, Runs
  <2> QED
    BY <1>1, <2>1, <2>3
       DEF IInv, RunsTyped, TickTyped, AliveHasRow, BusyKnown, AttemptFree,
           OneDispatchPerAgent, OneAgentPerCard, Trying, Alive, OpenRows, Runs
<1> QED BY <1>2, <1>3

\* A step from one phase of an attempt to a later one, the lock taken.
LEMMA AttemptGoesOn ==
    ASSUME IInv, pc \in {"claim", "sync", "spawn"},
           pc' \in {"sync", "spawn", "failed"},
           run' = run, busy' = busy, cards' = cards,
           \E b \in BOOLEAN : attempt' = [attempt EXCEPT !.readied = b]
    PROVE  IInv'
<1>1. PICK b \in BOOLEAN : attempt' = [attempt EXCEPT !.readied = b]
  OBVIOUS
<1>2. attempt' \in [agent : Agents \ busy, card : Cards,
                    kind : {"work", "prep", "reconcile"}, readied : BOOLEAN]
      /\ attempt'.card = attempt.card
  BY <1>1 DEF IInv, AttemptFree, Trying
<1> QED
  BY <1>2 DEF IInv, RunsTyped, TickTyped, AliveHasRow, BusyKnown, AttemptFree,
     CardClear, OneDispatchPerAgent, OneAgentPerCard, Trying, Alive, OpenRows,
     Runs

LEMMA AttemptStays ==
    ASSUME IInv, pc \in {"claim", "sync", "spawn"},
           pc' \in {"sync", "spawn", "failed"},
           run' = run, busy' = busy, cards' = cards, attempt' = attempt
    PROVE  IInv'
BY DEF IInv, RunsTyped, TickTyped, AliveHasRow, BusyKnown, AttemptFree,
   CardClear, OneDispatchPerAgent, OneAgentPerCard, Trying, Alive, OpenRows,
   Runs

LEMMA SpawnedStep == ASSUME IInv, Spawned PROVE IInv'
<1> DEFINE r == [agent |-> attempt.agent, card |-> attempt.card,
                 kind |-> attempt.kind, alive |-> TRUE, open |-> TRUE,
                 told |-> FALSE]
<1>1. PICK i \in FreeIds : run' = [run EXCEPT ![i] = r]
  BY DEF Spawned
<1>2. /\ pc = "spawn" /\ pc' = "pick" /\ busy' = busy \cup {attempt.agent}
      /\ cards' = LeavesRemaining
  BY DEF Spawned
<1>3. attempt.agent \in Agents \ busy /\ attempt.card \in Cards
  BY <1>2 DEF IInv, AttemptFree, Trying
<1>4. r \in Run /\ r # NoRun /\ run[i] = NoRun
  <2>1. r \in Run
    BY <1>2 DEF IInv, AttemptFree, Trying, Run
  <2> QED BY <2>1, RunIsNotNoRun DEF FreeIds, Runs
<1>5. RunsTyped' /\ Runs' = Runs \cup {i}
  BY <1>1, <1>4 DEF IInv, RunsTyped, FreeIds, Runs
<1>6. /\ \A j \in Runs : j # i /\ run'[j] = run[j]
      /\ run'[i] = r
  BY <1>1 DEF IInv, RunsTyped, FreeIds
<1>7. OpenRows' = OpenRows \cup {i} /\ Alive' = Alive \cup {i}
  BY <1>5, <1>6 DEF OpenRows, Alive
<1>8. TickTyped'
  BY <1>2, <1>3 DEF IInv, TickTyped, LeavesRemaining, Remaining, Restrict
<1>9. AliveHasRow' /\ AttemptFree' /\ CardClear'
  BY <1>2, <1>6, <1>7
     DEF IInv, AliveHasRow, AttemptFree, CardClear, Trying, Alive
<1>10. BusyKnown' /\ OneDispatchPerAgent'
  BY <1>2, <1>3, <1>6, <1>7
     DEF IInv, BusyKnown, OneDispatchPerAgent, OpenRows
<1>11. OneAgentPerCard'
  BY <1>2, <1>6, <1>7 DEF IInv, CardClear, OneAgentPerCard, Alive
<1> QED BY <1>5, <1>8, <1>9, <1>10, <1>11 DEF IInv

LEMMA AttemptSteps == ASSUME IInv, Attempt PROVE IInv'
<1>1. CASE Guard
  BY <1>1, GuardStep
<1>2. CASE LockHeld
  BY <1>2, AttemptEnds DEF LockHeld, system
<1>3. CASE LockThrows
  BY <1>3, AttemptEnds DEF LockThrows, system
<1>4. CASE Stamp
  BY <1>4, AttemptStays DEF Stamp, progress
<1>5. CASE StampFails
  BY <1>5, AttemptEnds DEF StampFails
<1>6. CASE WorktreeAborts
  BY <1>6, AttemptStays DEF WorktreeAborts, progress
<1>7. CASE FlipToInProgress
  <2>1. \E b \in BOOLEAN : attempt' = [attempt EXCEPT !.readied = b]
    BY <1>7 DEF FlipToInProgress
  <2> QED BY <1>7, <2>1, AttemptGoesOn DEF FlipToInProgress, progress
<1>8. CASE Spawned
  BY <1>8, SpawnedStep
<1>9. CASE SpawnFails
  BY <1>9, AttemptStays DEF SpawnFails, progress
<1>10. CASE ClearAfterFailure
  BY <1>10, AttemptEnds DEF ClearAfterFailure
<1> QED
  BY <1>1, <1>2, <1>3, <1>4, <1>5, <1>6, <1>7, <1>8, <1>9, <1>10 DEF Attempt

-----------------------------------------------------------------------------
\* Exits, finalized rows and completions only take from a run.
LEMMA RunFades ==
    ASSUME IInv, UNCHANGED tick, NEW i \in Runs, NEW r \in Run \cup {NoRun},
           run' = [run EXCEPT ![i] = r],
           r # NoRun => /\ r.agent = run[i].agent /\ r.card = run[i].card
                        /\ r.alive => run[i].alive /\ r.open
                        /\ r.open => run[i].open
    PROVE  IInv'
<1>1. RunsTyped' /\ Runs' \subseteq Runs
  BY DEF IInv, RunsTyped, Runs
<1>2. \A j \in Runs' : /\ run'[j].agent = run[j].agent
                       /\ run'[j].card = run[j].card
                       /\ run'[j].alive => run[j].alive
                       /\ run'[j].open => run[j].open
                       /\ run'[j].alive => run'[j].open
  BY DEF IInv, RunsTyped, Runs, AliveHasRow, Alive
<1>3. OpenRows' \subseteq OpenRows /\ Alive' \subseteq Alive
  BY <1>1, <1>2 DEF OpenRows, Alive
<1>4. AliveHasRow' /\ TickTyped' /\ AttemptFree'
  BY <1>2 DEF IInv, AliveHasRow, Alive, TickTyped, AttemptFree, Trying, tick,
     progress
<1>5. BusyKnown' /\ OneDispatchPerAgent'
  <2>1. pc' = pc /\ busy' = busy
    BY DEF tick, progress
  <2>2. \A j \in OpenRows' : run'[j].agent = run[j].agent
    BY <1>2 DEF OpenRows
  <2>3. BusyKnown /\ OneDispatchPerAgent
    BY DEF IInv
  <2>4. BusyKnown'
    <3> SUFFICES ASSUME pc \notin {"idle", "second cards", "second open",
                                   "roster", "busy"},
                        NEW j \in OpenRows'
                 PROVE  run'[j].agent \in busy
      BY <2>1 DEF BusyKnown
    <3>1. j \in OpenRows
      BY <1>3
    <3>2. run[j].agent \in busy
      BY <2>3, <3>1 DEF BusyKnown
    <3> QED BY <2>2, <3>2
  <2>5. OneDispatchPerAgent'
    BY <1>3, <2>2, <2>3 DEF OneDispatchPerAgent
  <2> QED BY <2>4, <2>5
<1>6. CardClear' /\ OneAgentPerCard'
  BY <1>2, <1>3 DEF IInv, CardClear, OneAgentPerCard, Alive, tick
<1> QED BY <1>1, <1>4, <1>5, <1>6 DEF IInv

LEMMA AgentSteps == ASSUME IInv, Agent PROVE IInv'
<1>1. PICK i \in Ids :
        \/ AgentSaves(i) \/ AgentExits(i) \/ RowFinalized(i) \/ OnComplete(i)
        \/ \E c \in Cards : AgentReleases(i, c)
  BY DEF Agent
<1>2. CASE AgentSaves(i) \/ \E c \in Cards : AgentReleases(i, c)
  BY <1>2, NoRunNoTick DEF AgentSaves, AgentReleases
<1>3. CASE AgentExits(i)
  <2>1. i \in Runs /\ run[i] \in Run
    BY <1>3, RunsAreRuns DEF AgentExits, Alive, IInv
  <2>2. [run[i] EXCEPT !.alive = FALSE] \in Run
    BY <2>1 DEF Run
  <2>3. run' = [run EXCEPT ![i] = [run[i] EXCEPT !.alive = FALSE]]
    BY <1>3, <2>1 DEF AgentExits, IInv, RunsTyped
  <2> QED BY <1>3, <2>1, <2>2, <2>3, RunFades DEF AgentExits, Run
<1>4. CASE RowFinalized(i)
  <2> DEFINE r == [run[i] EXCEPT !.open = FALSE]
  <2>1. i \in Runs /\ run[i] \in Run /\ ~run[i].alive
    BY <1>4, RunsAreRuns DEF RowFinalized, OpenRows, Alive, IInv
  <2>2. Settled(r) \in Run \cup {NoRun} /\ (Settled(r) # NoRun => Settled(r) = r)
    BY <2>1 DEF Run, Settled
  <2>3. run' = [run EXCEPT ![i] = Settled(r)]
    BY <1>4, <2>1 DEF RowFinalized, IInv, RunsTyped
  <2>4. /\ r.agent = run[i].agent /\ r.card = run[i].card
        /\ r.alive = run[i].alive /\ r.open = FALSE
    BY <2>1 DEF Run
  <2> HIDE DEF r
  <2> QED BY <1>4, <2>1, <2>2, <2>3, <2>4, RunFades DEF RowFinalized
<1>5. CASE OnComplete(i)
  <2> DEFINE r == [run[i] EXCEPT !.told = TRUE]
  <2>1. i \in Runs /\ run[i] \in Run /\ ~run[i].alive
    BY <1>5, RunsAreRuns DEF OnComplete, Alive, IInv
  <2>2. Settled(r) \in Run \cup {NoRun} /\ (Settled(r) # NoRun => Settled(r) = r)
    BY <2>1 DEF Run, Settled
  <2>3. run' = [run EXCEPT ![i] = Settled(r)]
    BY <1>5, <2>1 DEF OnComplete, IInv, RunsTyped
  <2>4. /\ r.agent = run[i].agent /\ r.card = run[i].card
        /\ r.alive = run[i].alive /\ r.open = run[i].open
    BY <2>1 DEF Run
  <2> HIDE DEF r
  <2> QED BY <1>5, <2>1, <2>2, <2>3, <2>4, RunFades DEF OnComplete
<1> QED BY <1>1, <1>2, <1>3, <1>4, <1>5

LEMMA OperatorSteps == ASSUME IInv, Operator PROVE IInv'
BY NoRunNoTick DEF Operator, ReconcileBlocked, OperatorUnblocks,
   OperatorFinishes, OperatorClearsBroken

LEMMA NextIInv == ASSUME IInv, [Next]_vars PROVE IInv'
<1>1. CASE Next
  BY <1>1, ReadSteps, PickSteps, AttemptSteps, AgentSteps, OperatorSteps DEF Next
<1>2. CASE UNCHANGED vars
  BY <1>2, NoRunNoTick DEF vars, system
<1> QED BY <1>1, <1>2

THEOREM Inductive == Spec => []IInv
BY InitIInv, NextIInv, PTL DEF Spec

\* An agent never has two dispatches that are not over, for every roster and
\* every number of cards and dispatches.
THEOREM OneDispatchPerAgentSafe == Spec => []OneDispatchPerAgent
<1>1. IInv => OneDispatchPerAgent
  BY DEF IInv
<1> QED BY <1>1, Inductive, PTL

\* A card with an external_id never has two agents at work.
THEOREM OneAgentPerCardSafe == Spec => []OneAgentPerCard
<1>1. IInv => OneAgentPerCard
  BY DEF IInv
<1> QED BY <1>1, Inductive, PTL

-----------------------------------------------------------------------------
\* The type invariant.  Beside TypeOK, the card of an attempt is one of the
\* list the pass took it from: the stamps write what is found there.
AttemptRead ==
    Trying => /\ attempt.agent \in Agents
              /\ attempt.card \in DOMAIN (IF pass = "A" THEN openIssues ELSE cards)

IssueMap(f) == DOMAIN f \subseteq Cards /\ \A c \in DOMAIN f : f[c] \in Issue

\* TypeOK by parts: the world, the lists the tick has read, its own counters.
WorldOK == /\ issue \in [Cards -> Issue] /\ run \in [Ids -> Run \cup {NoRun}]
           /\ broken \subseteq Fragile
ListsOK == /\ IssueMap(cards) /\ IssueMap(openIssues)
           /\ DOMAIN assigned \subseteq Cards
           /\ \A c \in DOMAIN assigned : assigned[c] \in 0..Gone
           /\ brokenSeen \subseteq Agents
PlaceOK == /\ pc \in {"idle", "second cards", "second open", "roster", "busy",
                      "assigned", "heal", "pick", "guard", "claim", "sync",
                      "spawn", "failed"}
           /\ pass \in {"A", "B"} /\ at \in Nat
           /\ handled \subseteq Cards
           /\ busy \subseteq Agents /\ skipAgents \subseteq Agents
AttemptOK ==
    attempt \in [agent : Agents \cup {0}, card : Cards \cup {0},
                 kind : {"work", "prep", "reconcile"}, readied : BOOLEAN]

TInv == WorldOK /\ ListsOK /\ PlaceOK /\ AttemptOK /\ AttemptRead

LEMMA TypeParts == TInv => TypeOK
<1>1. ASSUME NEW f, NEW S
      PROVE  Range(f) \subseteq S <=> \A x \in DOMAIN f : f[x] \in S
  BY DEF Range
<1>2. {brokenSeen, busy, skipAgents} \subseteq SUBSET Agents
        <=> brokenSeen \subseteq Agents /\ busy \subseteq Agents
            /\ skipAgents \subseteq Agents
  OBVIOUS
<1>3. /\ IssueMap(cards)
           <=> DOMAIN cards \subseteq Cards /\ Range(cards) \subseteq Issue
      /\ IssueMap(openIssues)
           <=> DOMAIN openIssues \subseteq Cards /\ Range(openIssues) \subseteq Issue
      /\ Range(assigned) \subseteq 0..Gone
           <=> \A c \in DOMAIN assigned : assigned[c] \in 0..Gone
  BY <1>1 DEF IssueMap
<1> QED
  BY <1>2, <1>3, Zenon DEF TInv, TypeOK, WorldOK, ListsOK, PlaceOK, AttemptOK

LEMMA IssueEdits ==
    ASSUME NEW i \in Issue, NEW o \in 0..Gone, NEW b \in BOOLEAN,
           NEW k \in {"Done", "ready", "ToDo", "In Progress"}
    PROVE  /\ [i EXCEPT !.owner = o] \in Issue
           /\ [i EXCEPT !.dispatch = b] \in Issue
           /\ [i EXCEPT !.blocked = b] \in Issue
           /\ [i EXCEPT !.column = k] \in Issue
           /\ [i EXCEPT !.owner = o, !.dispatch = b] \in Issue
           /\ [i EXCEPT !.owner = o, !.dispatch = b, !.column = k] \in Issue
           /\ Parsed(i) \in Issue
BY DEF Issue, Parsed, Derived

LEMMA NobodyIsOwner == 0 \in 0..Gone
BY PickAssumption DEF Gone

LEMMA FinishedIsIssue == Finished \in Issue
BY NobodyIsOwner DEF Finished, Fresh, Issue

LEMMA WriteTyped ==
    ASSUME issue \in [Cards -> Issue], NEW c, NEW i \in Issue, WriteIssue(c, i)
    PROVE  issue' \in [Cards -> Issue]
BY FinishedIsIssue DEF WriteIssue

LEMMA RestrictTyped ==
    ASSUME NEW f, IssueMap(f), NEW S, S \subseteq DOMAIN f
    PROVE  IssueMap(Restrict(f, S)) /\ DOMAIN Restrict(f, S) = S
BY DEF Restrict, IssueMap

LEMMA InitTInv == Init => TInv
<1> SUFFICES ASSUME Init PROVE TInv
  OBVIOUS
<1>1. WorldOK /\ ListsOK
  BY PickAssumption DEF Init, WorldOK, ListsOK, IssueMap, None
<1>2. PlaceOK /\ AttemptOK
  BY DEF Init, PlaceOK, AttemptOK, NoAttempt
<1>3. AttemptRead
  BY DEF Init, AttemptRead, Trying
<1> QED BY <1>1, <1>2, <1>3 DEF TInv

LEMMA ReadTyped == ASSUME TInv, Read PROVE TInv'
<1>1. WorldOK /\ ListsOK /\ PlaceOK /\ AttemptOK
  BY DEF TInv
<1>2. IssueMap(issue) /\ DOMAIN issue = Cards
  BY <1>1 DEF WorldOK, IssueMap
<1>3. WorldOK' /\ AttemptOK' /\ PlaceOK' /\ ~Trying'
  <2>1. WorldOK' /\ AttemptOK'
    BY <1>1 DEF Read, ReadDispatchable, ReadOpenIssues, ReadRoster, BusyAgents,
       AssignedCards, system, WorldOK, AttemptOK
  <2>2. InFlightAgents \subseteq Agents
    BY <1>1 DEF WorldOK, InFlightAgents, OpenRows, Runs, Run
  <2>3. PlaceOK' /\ ~Trying'
    BY <1>1, <2>2 DEF Read, ReadDispatchable, ReadOpenIssues, ReadRoster,
       BusyAgents, AssignedCards, progress, PlaceOK, Trying
  <2> QED BY <2>1, <2>3
<1>4. ListsOK'
  <2>1. CASE ReadDispatchable
    <3> DEFINE S == {c \in Cards : Dispatchable(c)}
    <3>1. IssueMap(Restrict(issue, S))
      BY <1>2, RestrictTyped
    <3> QED BY <1>1, <2>1, <3>1 DEF ReadDispatchable, snapshot, ListsOK, IssueMap
  <2>2. CASE ReadOpenIssues
    <3> DEFINE S == {c \in Cards : issue[c].column # "Done"}
    <3>1. IssueMap(Restrict(issue, S))
      BY <1>2, RestrictTyped
    <3> QED BY <1>1, <2>2, <3>1 DEF ReadOpenIssues, ListsOK, IssueMap
  <2>3. CASE ReadRoster
    <3>1. broken \subseteq Agents
      BY <1>1, PickAssumption DEF WorldOK
    <3> QED BY <1>1, <2>3, <3>1 DEF ReadRoster, ListsOK, IssueMap
  <2>4. CASE BusyAgents
    BY <1>1, <2>4 DEF BusyAgents, snapshot, ListsOK, IssueMap
  <2>5. CASE AssignedCards
    <3>1. \A c \in Cards : issue[c].owner \in 0..Gone
      BY <1>1 DEF WorldOK, Issue
    <3>2. DOMAIN cards \subseteq Cards
      BY <1>1 DEF ListsOK, IssueMap
    <3> QED BY <1>1, <2>5, <3>1, <3>2 DEF AssignedCards, ListsOK, IssueMap
  <2> QED BY <2>1, <2>2, <2>3, <2>4, <2>5 DEF Read
<1> QED BY <1>3, <1>4 DEF TInv, AttemptRead

\* The list an attempt's card comes from.
LEMMA BeginTyped ==
    ASSUME TInv, NEW a \in Agents, NEW c, NEW i, NEW reconcile \in BOOLEAN,
           c \in DOMAIN (IF pass = "A" THEN openIssues ELSE cards),
           BeginAttempt(a, c, i, reconcile), pass' = pass, at' \in Nat,
           handled' \subseteq Cards
    PROVE  TInv'
<1>1. WorldOK /\ ListsOK /\ PlaceOK /\ AttemptOK
  BY DEF TInv
<1>2. c \in Cards
  BY <1>1 DEF ListsOK, IssueMap
<1>3. WorldOK' /\ ListsOK'
  BY <1>1 DEF BeginAttempt, system, snapshot, WorldOK, ListsOK, IssueMap
<1>4. PlaceOK' /\ AttemptOK'
  BY <1>1, <1>2 DEF BeginAttempt, PlaceOK, AttemptOK
<1>5. AttemptRead'
  BY DEF BeginAttempt, AttemptRead, snapshot
<1> QED BY <1>3, <1>4, <1>5 DEF TInv

LEMMA PickTyped == ASSUME TInv, Pick PROVE TInv'
<1>0. WorldOK /\ ListsOK /\ PlaceOK /\ AttemptOK
  BY DEF TInv
<1>1. CASE BeginPassA
  <2>1. WorldOK' /\ ListsOK' /\ PlaceOK' /\ AttemptOK' /\ ~Trying'
    BY <1>0, <1>1 DEF BeginPassA, system, snapshot, progress, WorldOK, ListsOK,
       IssueMap, PlaceOK, AttemptOK, Trying
  <2> QED BY <2>1 DEF TInv, AttemptRead
<1>2. CASE BeginPassB
  <2>1. WorldOK' /\ ListsOK' /\ PlaceOK' /\ AttemptOK' /\ ~Trying'
    BY <1>0, <1>2 DEF BeginPassB, system, progress, WorldOK, ListsOK, IssueMap,
       None, PlaceOK, AttemptOK, Trying
  <2> QED BY <2>1 DEF TInv, AttemptRead
<1>3. CASE EndTick
  <2>1. WorldOK' /\ ListsOK' /\ PlaceOK' /\ AttemptOK' /\ ~Trying'
    BY <1>0, <1>3 DEF EndTick, system, WorldOK, ListsOK, IssueMap, None,
       PlaceOK, AttemptOK, Trying
  <2> QED BY <2>1 DEF TInv, AttemptRead
<1>4. ASSUME NEW a \in Agents, ReleaseOnGate(a) PROVE TInv'
  <2>1. PICK c \in Cards :
           /\ Owned(a) = {c}
           /\ WriteIssue(c, [openIssues[c] EXCEPT
                               !.owner = 0, !.dispatch = FALSE,
                               !.column = IF openIssues[c].blocked \/ @ = "ready"
                                          THEN @ ELSE "ToDo"])
    BY <1>4 DEF ReleaseOnGate
  <2>2. c \in DOMAIN openIssues /\ openIssues[c] \in Issue
    BY <1>0, <2>1 DEF Owned, ListsOK, IssueMap
  <2>3. openIssues[c].column \in {"Done", "ready", "ToDo", "In Progress"}
    BY <2>2 DEF Issue
  <2>4. issue' \in [Cards -> Issue]
    BY <1>0, <2>1, <2>2, <2>3, NobodyIsOwner, IssueEdits, WriteTyped DEF WorldOK
  <2>5. WorldOK' /\ ListsOK' /\ PlaceOK' /\ AttemptOK' /\ ~Trying'
    BY <1>0, <1>4, <2>4 DEF ReleaseOnGate, PassA, snapshot, progress, WorldOK,
       ListsOK, IssueMap, PlaceOK, AttemptOK, Trying, Agents
  <2> QED BY <2>5 DEF TInv, AttemptRead
<1>5. ASSUME NEW a \in Agents, ResumeOwned(a) PROVE TInv'
  <2>1. pass = "A" /\ pass' = pass /\ at' \in Nat
    BY <1>5 DEF ResumeOwned, PassA, Agents
  <2>2. PICK c \in Cards : /\ c \in Owned(a)
                           /\ BeginAttempt(a, c, openIssues[c], Owned(a) # {c})
    BY <1>5 DEF ResumeOwned, First
  <2>3. Owned(a) \subseteq DOMAIN openIssues /\ Owned(a) \subseteq Cards
    BY <1>0 DEF Owned, ListsOK, IssueMap
  <2>4. handled' \subseteq Cards
    BY <1>0, <1>5, <2>3 DEF ResumeOwned, PlaceOK
  <2> QED BY <2>1, <2>2, <2>3, <2>4, BeginTyped
<1>6. ASSUME NEW c \in Cards, HealOrphan(c) PROVE TInv'
  <2> DEFINE healed == [cards[c] EXCEPT !.owner = 0, !.dispatch = FALSE]
  <2>1. c \in DOMAIN cards /\ cards[c] \in Issue
    BY <1>0, <1>6 DEF HealOrphan, ListsOK, IssueMap
  <2>2. healed \in Issue
    BY <2>1, NobodyIsOwner, IssueEdits
  <2>3. WriteIssue(c, healed) /\ cards' = [cards EXCEPT ![c] = healed]
    BY <1>6 DEF HealOrphan
  <2> HIDE DEF healed
  <2>4. issue' \in [Cards -> Issue]
    BY <1>0, <2>2, <2>3, WriteTyped DEF WorldOK
  <2>5. IssueMap(cards)'
    BY <1>0, <2>2, <2>3 DEF ListsOK, IssueMap
  <2>6. WorldOK' /\ ListsOK' /\ PlaceOK' /\ AttemptOK' /\ ~Trying'
    BY <1>0, <1>6, <2>4, <2>5 DEF HealOrphan, snapshot, progress, WorldOK,
       ListsOK, IssueMap, PlaceOK, AttemptOK, Trying
  <2> QED BY <2>6 DEF TInv, AttemptRead
<1>7. ASSUME NEW c \in Cards, DeferCard(c) PROVE TInv'
  <2>1. IssueMap(cards)'
    BY <1>0, <1>7, RestrictTyped DEF DeferCard, Remaining, ListsOK
  <2>2. pc' = "pick" /\ at' \in Nat
    BY <1>7 DEF DeferCard, PassB, Cards
  <2>3. PlaceOK' /\ ~Trying'
    BY <1>0, <1>7, <2>2 DEF DeferCard, progress, PlaceOK, Trying
  <2>4. WorldOK' /\ ListsOK' /\ AttemptOK'
    BY <1>0, <1>7, <2>1 DEF DeferCard, system, snapshot, WorldOK, ListsOK,
       IssueMap, AttemptOK
  <2> QED BY <2>3, <2>4 DEF TInv, AttemptRead
<1>8. ASSUME NEW c \in Cards, OfferCard(c) PROVE TInv'
  <2>1. /\ pass = "B" /\ pass' = pass /\ at' \in Nat /\ handled' \subseteq Cards
        /\ c \in DOMAIN cards
    BY <1>0, <1>8 DEF OfferCard, PassB, First, Ahead, Cards, PlaceOK
  <2>2. PICK a \in Agents : BeginAttempt(a, c, cards[c], FALSE)
    BY <1>8 DEF OfferCard
  <2> QED BY <2>1, <2>2, BeginTyped
<1> QED
  BY <1>1, <1>2, <1>3, <1>4, <1>5, <1>6, <1>7, <1>8 DEF Pick

\* The card of an attempt as the tick has read it.
LEMMA AsReadTyped ==
    ASSUME TInv, Trying
    PROVE  /\ AsRead \in Issue /\ Claimed \in Issue
           /\ attempt.agent \in Agents /\ attempt.card \in Cards
<1>1. /\ attempt.agent \in Agents
      /\ attempt.card \in DOMAIN (IF pass = "A" THEN openIssues ELSE cards)
  BY DEF TInv, AttemptRead
<1>2. AsRead \in Issue /\ attempt.card \in Cards
  BY <1>1 DEF TInv, ListsOK, IssueMap, AsRead
<1>3. attempt.agent \in 0..Gone
  BY <1>1, PickAssumption DEF Agents, Gone
<1> QED BY <1>1, <1>2, <1>3, IssueEdits DEF Claimed

LEMMA EndTyped ==
    ASSUME TInv, EndAttempt, WorldOK', busy' \subseteq Agents,
           skipAgents' \subseteq Agents
    PROVE  TInv'
<1>1. IssueMap(cards)'
  BY RestrictTyped DEF TInv, ListsOK, EndAttempt, LeavesRemaining, Remaining
<1>2. ListsOK'
  BY <1>1 DEF TInv, ListsOK, EndAttempt, snapshot, IssueMap
<1>3. PlaceOK' /\ AttemptOK' /\ ~Trying'
  BY DEF TInv, PlaceOK, AttemptOK, EndAttempt, NoAttempt, Trying
<1> QED BY <1>2, <1>3 DEF TInv, AttemptRead

LEMMA OnTyped ==
    ASSUME TInv, Trying, WorldOK', UNCHANGED <<pass, at, cards, snapshot, progress>>,
           Trying',
           \E b \in BOOLEAN : attempt' = [attempt EXCEPT !.readied = b]
    PROVE  TInv'
<1>1. PICK b \in BOOLEAN : attempt' = [attempt EXCEPT !.readied = b]
  OBVIOUS
<1>2. AttemptOK' /\ attempt'.agent = attempt.agent /\ attempt'.card = attempt.card
  BY <1>1 DEF TInv, AttemptOK
<1>3. ListsOK'
  BY DEF TInv, ListsOK, snapshot, IssueMap
<1>4. PlaceOK'
  BY DEF TInv, PlaceOK, progress, Trying
<1>5. AttemptRead'
  BY <1>2 DEF TInv, AttemptRead, snapshot
<1> QED BY <1>2, <1>3, <1>4, <1>5 DEF TInv

LEMMA SameReadied ==
    ASSUME AttemptOK, attempt' = attempt
    PROVE  \E b \in BOOLEAN : attempt' = [attempt EXCEPT !.readied = b]
<1>1. attempt.readied \in BOOLEAN /\ attempt' = [attempt EXCEPT !.readied = attempt.readied]
  BY DEF AttemptOK
<1> QED BY <1>1

LEMMA SpawnedTyped == ASSUME TInv, Spawned PROVE TInv'
<1> DEFINE r == [agent |-> attempt.agent, card |-> attempt.card,
                 kind |-> attempt.kind, alive |-> TRUE, open |-> TRUE,
                 told |-> FALSE]
<1>1. Trying /\ ~Trying'
  BY DEF Spawned, Trying
<1>2. /\ attempt.agent \in Agents /\ attempt.card \in Cards
      /\ issue[attempt.card] \in Issue
  BY <1>1, AsReadTyped DEF TInv, WorldOK
<1>3. r \in Run
  BY <1>2 DEF TInv, AttemptOK, Run
<1>4. PICK i \in FreeIds : run' = [run EXCEPT ![i] = r]
  BY DEF Spawned
<1>5. run' \in [Ids -> Run \cup {NoRun}]
  BY <1>3, <1>4 DEF TInv, WorldOK, FreeIds
<1>6. issue' \in [Cards -> Issue]
  <2>1. [issue[attempt.card] EXCEPT !.dispatch = TRUE] \in Issue
    BY <1>2, IssueEdits, NobodyIsOwner
  <2> QED BY <2>1, WriteTyped DEF Spawned, TInv, WorldOK
<1>7. WorldOK'
  BY <1>5, <1>6 DEF Spawned, TInv, WorldOK
<1>8. IssueMap(cards)'
  BY RestrictTyped DEF Spawned, TInv, ListsOK, LeavesRemaining, Remaining
<1>9. attempt.agent \in 0..Gone
  BY <1>2, PickAssumption DEF Agents, Gone
<1>10. ListsOK'
  BY <1>8, <1>9 DEF Spawned, TInv, ListsOK, IssueMap
<1>11. PlaceOK' /\ AttemptOK'
  BY <1>2 DEF Spawned, TInv, PlaceOK, AttemptOK, NoAttempt
<1> QED BY <1>1, <1>7, <1>10, <1>11 DEF TInv, AttemptRead

LEMMA AttemptTyped == ASSUME TInv, Attempt PROVE TInv'
<1>0. /\ WorldOK /\ busy \subseteq Agents /\ skipAgents \subseteq Agents
      /\ AttemptOK
  BY DEF TInv, PlaceOK
<1>1. CASE Guard
  <2>1. WorldOK' /\ Trying
    BY <1>0, <1>1 DEF Guard, system, WorldOK, Trying
  <2>2. CASE LiveDispatch(attempt.card)
    BY <1>0, <1>1, <2>1, <2>2, EndTyped DEF Guard
  <2>3. CASE ~LiveDispatch(attempt.card)
    <3>1. Trying' /\ UNCHANGED <<pass, at, cards, snapshot, progress, attempt>>
      BY <1>1, <2>3 DEF Guard, Trying, progress
    <3> QED BY <1>0, <2>1, <3>1, SameReadied, OnTyped
  <2> QED BY <2>2, <2>3
<1>2. CASE LockHeld
  BY <1>0, <1>2, EndTyped DEF LockHeld, system, WorldOK
<1>3. CASE LockThrows
  <2>1. attempt.agent \in Agents
    BY <1>3, AsReadTyped DEF LockThrows, Trying
  <2> QED BY <1>0, <1>3, <2>1, EndTyped DEF LockThrows, system, WorldOK
<1>4. CASE Stamp
  <2>1. Trying /\ Trying'
    BY <1>4 DEF Stamp, Trying
  <2>2. [Claimed EXCEPT !.dispatch = TRUE] \in Issue
    BY <2>1, AsReadTyped, IssueEdits, NobodyIsOwner
  <2>3. WorldOK'
    BY <1>0, <1>4, <2>2, WriteTyped DEF Stamp, WorldOK
  <2> QED BY <1>0, <1>4, <2>1, <2>3, SameReadied, OnTyped DEF Stamp
<1>5. CASE StampFails
  <2>1. Trying
    BY <1>5 DEF StampFails, Trying
  <2>2. WorldOK'
    BY <1>0, <1>5, <2>1, AsReadTyped, WriteTyped DEF StampFails, WorldOK
  <2> QED BY <1>0, <1>5, <2>2, EndTyped DEF StampFails
<1>6. CASE WorktreeAborts
  <2>1. Trying /\ Trying' /\ WorldOK'
    BY <1>0, <1>6 DEF WorktreeAborts, Trying, WorldOK
  <2> QED BY <1>0, <1>6, <2>1, SameReadied, OnTyped DEF WorktreeAborts
<1>7. CASE FlipToInProgress
  <2>1. Trying /\ Trying' /\ attempt.card \in Cards
    BY <1>7, AsReadTyped DEF FlipToInProgress, Trying
  <2>2. [issue[attempt.card] EXCEPT !.column = "ready"] \in Issue
    BY <1>0, <2>1, IssueEdits, NobodyIsOwner DEF WorldOK
  <2>3. WorldOK'
    BY <1>0, <1>7, <2>2, WriteTyped DEF FlipToInProgress, WorldOK
  <2>4. \E b \in BOOLEAN : attempt' = [attempt EXCEPT !.readied = b]
    BY <1>7 DEF FlipToInProgress
  <2> QED BY <1>7, <2>1, <2>3, <2>4, OnTyped DEF FlipToInProgress
<1>8. CASE Spawned
  BY <1>8, SpawnedTyped
<1>9. CASE SpawnFails
  <2>1. Trying /\ Trying' /\ attempt.card \in Cards
    BY <1>9, AsReadTyped DEF SpawnFails, Trying
  <2>2. [issue[attempt.card] EXCEPT !.column = "ToDo"] \in Issue
    BY <1>0, <2>1, IssueEdits, NobodyIsOwner DEF WorldOK
  <2>3. WorldOK'
    BY <1>0, <1>9, <2>2, WriteTyped DEF SpawnFails, WorldOK
  <2> QED BY <1>0, <1>9, <2>1, <2>3, SameReadied, OnTyped DEF SpawnFails
<1>10. CASE ClearAfterFailure
  <2>1. attempt.card \in Cards
    BY <1>10, AsReadTyped DEF ClearAfterFailure, Trying
  <2>2. [issue[attempt.card] EXCEPT !.dispatch = FALSE] \in Issue
    BY <1>0, <2>1, IssueEdits, NobodyIsOwner DEF WorldOK
  <2>3. WorldOK'
    BY <1>0, <1>10, <2>2, WriteTyped DEF ClearAfterFailure, WorldOK
  <2> QED BY <1>0, <1>10, <2>3, EndTyped DEF ClearAfterFailure
<1> QED
  BY <1>1, <1>2, <1>3, <1>4, <1>5, <1>6, <1>7, <1>8, <1>9, <1>10 DEF Attempt

\* The world moves, the tick waits.
LEMMA OthersTyped == ASSUME TInv, UNCHANGED tick, WorldOK' PROVE TInv'
<1>1. ListsOK' /\ PlaceOK' /\ AttemptOK'
  BY DEF TInv, tick, snapshot, progress, ListsOK, IssueMap, PlaceOK, AttemptOK
<1>2. AttemptRead'
  BY DEF TInv, tick, snapshot, AttemptRead, Trying
<1> QED BY <1>1, <1>2 DEF TInv

LEMMA WorldSteps == ASSUME TInv, Agent \/ Operator PROVE WorldOK'
<1>0. WorldOK /\ \A c \in Cards : issue[c] \in Issue
  BY DEF TInv, WorldOK
<1>1. \A i \in Runs : /\ run[i] \in Run /\ run[i].card \in Cards
                      /\ [run[i] EXCEPT !.alive = FALSE] \in Run
                      /\ [run[i] EXCEPT !.open = FALSE] \in Run
                      /\ [run[i] EXCEPT !.told = TRUE] \in Run
  BY <1>0 DEF WorldOK, Runs, Run
<1>2. \A c \in Cards, b \in BOOLEAN :
         /\ [Parsed(issue[c]) EXCEPT !.dispatch = b] \in Issue
         /\ [Parsed(issue[c]) EXCEPT !.blocked = b] \in Issue
         /\ [Parsed(issue[c]) EXCEPT !.owner = 0] \in Issue
         /\ [issue[c] EXCEPT !.owner = 0, !.dispatch = FALSE] \in Issue
  <2> TAKE c \in Cards, b \in BOOLEAN
  <2>1. Parsed(issue[c]) \in Issue /\ issue[c] \in Issue
    BY <1>0, IssueEdits, NobodyIsOwner
  <2> QED BY <2>1, IssueEdits, NobodyIsOwner
<1>3. ASSUME NEW i \in Ids, AgentSaves(i) PROVE WorldOK'
  BY <1>0, <1>1, <1>2, <1>3, FinishedIsIssue, WriteTyped
     DEF AgentSaves, Alive, WorldOK
<1>4. ASSUME NEW i \in Ids, NEW c \in Cards, AgentReleases(i, c) PROVE WorldOK'
  BY <1>0, <1>2, <1>4, WriteTyped DEF AgentReleases, WorldOK
<1>5. ASSUME NEW i \in Ids, AgentExits(i) PROVE WorldOK'
  <2>1. [run[i] EXCEPT !.alive = FALSE] \in Run
    BY <1>1, <1>5 DEF AgentExits, Alive
  <2>2. run' = [run EXCEPT ![i] = [run[i] EXCEPT !.alive = FALSE]]
    BY <1>0, <1>5 DEF AgentExits, WorldOK
  <2>3. run' \in [Ids -> Run \cup {NoRun}]
    BY <1>0, <2>1, <2>2 DEF WorldOK
  <2> QED BY <1>0, <1>5, <2>3 DEF AgentExits, WorldOK
<1>6. ASSUME NEW i \in Ids, RowFinalized(i) PROVE WorldOK'
  <2>1. Settled([run[i] EXCEPT !.open = FALSE]) \in Run \cup {NoRun}
    BY <1>1, <1>6 DEF RowFinalized, OpenRows, Settled
  <2>2. run' = [run EXCEPT ![i] = Settled([run[i] EXCEPT !.open = FALSE])]
    BY <1>0, <1>6 DEF RowFinalized, WorldOK
  <2>3. run' \in [Ids -> Run \cup {NoRun}]
    BY <1>0, <2>1, <2>2 DEF WorldOK
  <2> QED BY <1>0, <1>6, <2>3 DEF RowFinalized, WorldOK
<1>7. ASSUME NEW i \in Ids, OnComplete(i) PROVE WorldOK'
  <2>1. Settled([run[i] EXCEPT !.told = TRUE]) \in Run \cup {NoRun}
    BY <1>1, <1>7 DEF OnComplete, Settled
  <2>2. run' = [run EXCEPT ![i] = Settled([run[i] EXCEPT !.told = TRUE])]
    BY <1>0, <1>7 DEF OnComplete, WorldOK
  <2>3. run' \in [Ids -> Run \cup {NoRun}]
    BY <1>0, <2>1, <2>2 DEF WorldOK
  <2>4. issue' \in [Cards -> Issue]
    BY <1>0, <1>1, <1>2, <1>7, WriteTyped DEF OnComplete, WorldOK
  <2> QED BY <1>0, <1>7, <2>3, <2>4 DEF OnComplete, WorldOK
<1>8. ASSUME NEW c \in Cards,
             ReconcileBlocked(c) \/ OperatorUnblocks(c) \/ OperatorFinishes(c)
      PROVE  WorldOK'
  BY <1>0, <1>2, <1>8, FinishedIsIssue, WriteTyped
     DEF ReconcileBlocked, OperatorUnblocks, OperatorFinishes, WorldOK
<1>9. ASSUME NEW a \in Agents, OperatorClearsBroken(a) PROVE WorldOK'
  BY <1>0, <1>9 DEF OperatorClearsBroken, WorldOK
<1> QED
  BY <1>3, <1>4, <1>5, <1>6, <1>7, <1>8, <1>9 DEF Agent, Operator

LEMMA NextTInv == ASSUME TInv, [Next]_vars PROVE TInv'
<1>1. CASE Read \/ Pick \/ Attempt
  BY <1>1, ReadTyped, PickTyped, AttemptTyped
<1>2. CASE Agent \/ Operator
  <2>1. UNCHANGED tick
    BY <1>2 DEF Agent, AgentSaves, AgentExits, RowFinalized, OnComplete,
       AgentReleases, Operator, ReconcileBlocked, OperatorUnblocks,
       OperatorFinishes, OperatorClearsBroken
  <2> QED BY <1>2, <2>1, WorldSteps, OthersTyped
<1>3. CASE UNCHANGED vars
  BY <1>3, OthersTyped DEF vars, system, TInv, WorldOK
<1> QED BY <1>1, <1>2, <1>3 DEF Next

\* The type invariant of the tick, for every roster, cards and dispatch ids.
THEOREM TypeCorrect == Spec => []TypeOK
<1>1. Spec => []TInv
  BY InitTInv, NextTInv, PTL DEF Spec
<1> QED BY <1>1, TypeParts, PTL

-----------------------------------------------------------------------------
\* The end of a tick.  In pass B a card that the walk is past is no longer in
\* the list, unless it is the one an attempt is about.
WalkedAway ==
    pass = "B" => /\ pc = "pick" \/ Trying
                  /\ \A c \in DOMAIN cards :
                        c >= at \/ (Trying /\ c = attempt.card)

CInv == TInv /\ WalkedAway

LEMMA FirstExists ==
    ASSUME NEW S, S \subseteq Nat, S # {}
    PROVE  \E x \in S : First(x, S)
<1>1. PICK x \in S : \A y \in S : <<y, x>> \notin OpToRel(<, Nat)
  BY NatLessThanWellFounded, WFMin
<1>2. \A y \in S : ~(y < x)
  BY <1>1 DEF OpToRel
<1> QED BY <1>2 DEF First

LEMMA ConvergedAtEnd == ASSUME CInv PROVE TickConverges
<1> SUFFICES ASSUME TickDone, Eligible # {}
             PROVE  DOMAIN cards = {}
  BY DEF TickConverges
<1>1. DOMAIN cards \subseteq Cards
  BY DEF CInv, TInv, ListsOK, IssueMap
<1>2. Ahead = DOMAIN cards
  BY <1>1 DEF CInv, WalkedAway, TickDone, Ahead, Trying
<1>3. SUFFICES ASSUME DOMAIN cards # {} PROVE FALSE
  OBVIOUS
<1>4. PICK c \in Ahead : First(c, Ahead)
  BY <1>1, <1>2, <1>3, FirstExists DEF Cards
<1>5. ~Deferred(c) /\ Takers(c) = {}
  BY <1>4 DEF TickDone
<1> QED BY <1>5 DEF Takers

LEMMA NextCInv == ASSUME CInv, [Next]_vars PROVE CInv'
<1>0. TInv' /\ DOMAIN cards \subseteq Cards /\ DOMAIN cards' \subseteq Cards
  BY NextTInv DEF CInv, TInv, ListsOK, IssueMap
<1>1. CASE Read
  BY <1>0, <1>1 DEF CInv, WalkedAway, Trying, Read, ReadDispatchable,
     ReadOpenIssues, ReadRoster, BusyAgents, AssignedCards
<1>2. CASE Pick
  <2>1. CASE BeginPassA \/ EndTick
    BY <1>0, <2>1 DEF CInv, WalkedAway, Trying, BeginPassA, EndTick
  <2>2. CASE BeginPassB
    BY <1>0, <2>2 DEF CInv, WalkedAway, BeginPassB, Cards
  <2>3. ASSUME NEW a \in Agents, ReleaseOnGate(a) \/ ResumeOwned(a) PROVE CInv'
    BY <1>0, <2>3 DEF CInv, WalkedAway, ReleaseOnGate, ResumeOwned, PassA
  <2>4. ASSUME NEW c \in Cards, HealOrphan(c) PROVE CInv'
    BY <1>0, <2>4 DEF CInv, WalkedAway, HealOrphan, Trying
  <2>5. ASSUME NEW c \in Cards, DeferCard(c) PROVE CInv'
    <3>1. \A d \in DOMAIN cards : d >= at
      BY <2>5 DEF CInv, WalkedAway, DeferCard, PassB, Trying
    <3>2. \A d \in DOMAIN cards : c <= d
      BY <2>5, <3>1 DEF DeferCard, PassB, First, Ahead
    <3>3. DOMAIN cards' = DOMAIN cards \ {c} /\ at' = c + 1 /\ pc' = "pick"
      BY <2>5 DEF DeferCard, PassB, Remaining, Restrict
    <3> QED BY <1>0, <3>2, <3>3 DEF CInv, WalkedAway, Cards
  <2>6. ASSUME NEW c \in Cards, OfferCard(c) PROVE CInv'
    <3>1. \A d \in DOMAIN cards : d >= at
      BY <2>6 DEF CInv, WalkedAway, OfferCard, PassB, Trying
    <3>2. \A d \in DOMAIN cards : c <= d
      BY <2>6, <3>1 DEF OfferCard, PassB, First, Ahead
    <3>3. cards' = cards /\ at' = c + 1 /\ attempt'.card = c /\ Trying'
      BY <2>6 DEF OfferCard, PassB, BeginAttempt, Trying
    <3> QED BY <1>0, <3>2, <3>3 DEF CInv, WalkedAway, Cards
  <2> QED BY <1>2, <2>1, <2>2, <2>3, <2>4, <2>5, <2>6 DEF Pick
<1>3. CASE Attempt
  <2>1. ASSUME pass' = pass, at' = at, cards' = LeavesRemaining, pc' = "pick",
               Trying
        PROVE  WalkedAway'
    BY <2>1 DEF CInv, WalkedAway, LeavesRemaining, Remaining, Restrict
  <2>2. ASSUME pass' = pass, at' = at, cards' = cards, Trying, Trying',
               attempt'.card = attempt.card
        PROVE  WalkedAway'
    BY <2>2 DEF CInv, WalkedAway
  <2>3. CASE LockHeld \/ LockThrows \/ StampFails \/ ClearAfterFailure
    BY <1>0, <2>1, <2>3 DEF CInv, LockHeld, LockThrows, StampFails,
       ClearAfterFailure, EndAttempt, Trying
  <2>4. CASE Guard
    BY <1>0, <2>1, <2>2, <2>4 DEF CInv, Guard, EndAttempt, Trying
  <2>5. CASE Stamp \/ WorktreeAborts \/ SpawnFails
    BY <1>0, <2>2, <2>5 DEF CInv, Stamp, WorktreeAborts, SpawnFails, Trying
  <2>6. CASE FlipToInProgress
    <3>1. attempt'.card = attempt.card
      BY <2>6 DEF FlipToInProgress, CInv, TInv, AttemptOK
    <3> QED BY <1>0, <2>2, <2>6, <3>1 DEF CInv, FlipToInProgress, Trying
  <2>7. CASE Spawned
    BY <1>0, <2>1, <2>7 DEF CInv, Spawned, Trying
  <2> QED BY <1>3, <2>3, <2>4, <2>5, <2>6, <2>7 DEF Attempt
<1>4. CASE UNCHANGED tick
  BY <1>0, <1>4 DEF CInv, WalkedAway, Trying, tick
<1> QED
  <2>1. Agent \/ Operator => UNCHANGED tick
    BY DEF Agent, AgentSaves, AgentExits, RowFinalized, OnComplete,
       AgentReleases, Operator, ReconcileBlocked, OperatorUnblocks,
       OperatorFinishes, OperatorClearsBroken
  <2> QED BY <1>1, <1>2, <1>3, <1>4, <2>1 DEF Next, vars

\* When a tick ends no agent that is still free could take a card that is still
\* waiting: the picker's own run-time check never fires.
THEOREM TickConvergesSafe == Spec => []TickConverges
<1>1. Init => CInv
  BY InitTInv DEF Init, CInv, WalkedAway
<1>2. CInv /\ [Next]_vars => CInv'
  BY NextCInv
<1> QED BY <1>1, <1>2, ConvergedAtEnd, PTL DEF Spec

-----------------------------------------------------------------------------
\* Ownership.  A card's owner, while it is an agent of the roster, is the one
\* the tick has read: nobody else stamps cards.
OpenRead == \A c \in DOMAIN openIssues :
    issue[c].owner \in Agents => issue[c].owner = openIssues[c].owner

Stamped(c) == /\ pass = "B" /\ pc \in {"sync", "spawn", "failed"}
              /\ c = attempt.card
AssignedRead ==
    pc \in {"heal", "pick"} \/ Trying =>
        /\ DOMAIN cards \subseteq DOMAIN assigned
        /\ \A c \in DOMAIN cards :
              issue[c].owner \in Agents =>
                  issue[c].owner = assigned[c] \/ c \in handled \/ Stamped(c)

\* So a stamp overwrites no other agent's.
AttemptOwns ==
    /\ pc \in {"guard", "claim"} /\ issue[attempt.card].owner \in Agents
          => issue[attempt.card].owner = attempt.agent
    /\ Trying /\ pass = "A" =>
          /\ openIssues[attempt.card].owner = attempt.agent
          /\ attempt.card \in handled
    /\ pass = "B" => DOMAIN openIssues = {}

KInv == CInv /\ OpenRead /\ AssignedRead /\ AttemptOwns

\* What every step but a stamp does to owners.
Fades == \A c \in Cards : issue'[c].owner \in {issue[c].owner, 0}

LEMMA WriteFades ==
    ASSUME issue \in [Cards -> Issue], NEW c \in Cards, NEW i \in Issue,
           WriteIssue(c, i), i.owner \in {issue[c].owner, 0}
    PROVE  Fades
<1>1. Finished.owner = 0
  BY DEF Finished, Fresh
<1> QED BY <1>1 DEF WriteIssue, Fades

LEMMA NobodyIsNoAgent == 0 \notin Agents
BY DEF Agents

LEMMA OthersFade == ASSUME TInv, Agent \/ Operator PROVE Fades /\ UNCHANGED tick
<1>0. issue \in [Cards -> Issue] /\ \A c \in Cards : issue[c] \in Issue
  BY DEF TInv, WorldOK
<1>1. \A i \in Runs : run[i].card \in Cards
  BY DEF TInv, WorldOK, Runs, Run
<1>2. \A c \in Cards, b \in BOOLEAN :
         LET parsed == Parsed(issue[c]) IN
         /\ [parsed EXCEPT !.dispatch = b] \in Issue
         /\ [parsed EXCEPT !.dispatch = b].owner = issue[c].owner
         /\ [parsed EXCEPT !.blocked = b] \in Issue
         /\ [parsed EXCEPT !.blocked = b].owner = issue[c].owner
         /\ [parsed EXCEPT !.owner = 0] \in Issue
         /\ [parsed EXCEPT !.owner = 0].owner = 0
         /\ [issue[c] EXCEPT !.owner = 0, !.dispatch = FALSE] \in Issue
         /\ [issue[c] EXCEPT !.owner = 0, !.dispatch = FALSE].owner = 0
  <2> TAKE c \in Cards, b \in BOOLEAN
  <2>1. issue[c] \in Issue
    BY <1>0
  <2>2. Parsed(issue[c]) \in Issue
    BY <2>1, IssueEdits, NobodyIsOwner
  <2>3. Parsed(issue[c]).owner = issue[c].owner
    BY <2>1 DEF Parsed, Issue
  <2> DEFINE parsed == Parsed(issue[c])
  <2>4. parsed \in Issue /\ parsed.owner = issue[c].owner
    BY <2>2, <2>3
  <2> HIDE DEF parsed
  <2>5. /\ [parsed EXCEPT !.dispatch = b] \in Issue
        /\ [parsed EXCEPT !.blocked = b] \in Issue
        /\ [parsed EXCEPT !.owner = 0] \in Issue
    BY <2>4, IssueEdits, NobodyIsOwner
  <2>6. [issue[c] EXCEPT !.owner = 0, !.dispatch = FALSE] \in Issue
    BY <2>1, IssueEdits, NobodyIsOwner
  <2>7. /\ [parsed EXCEPT !.dispatch = b].owner = issue[c].owner
        /\ [parsed EXCEPT !.blocked = b].owner = issue[c].owner
        /\ [parsed EXCEPT !.owner = 0].owner = 0
    BY <2>4 DEF Issue
  <2>8. [issue[c] EXCEPT !.owner = 0, !.dispatch = FALSE].owner = 0
    BY <2>1 DEF Issue
  <2> QED BY <2>5, <2>6, <2>7, <2>8 DEF parsed
<1>3. Finished \in Issue /\ Finished.owner = 0
  BY FinishedIsIssue DEF Finished, Fresh
<1>4. ASSUME NEW i \in Ids, AgentSaves(i) PROVE Fades
  BY <1>0, <1>1, <1>2, <1>3, <1>4, WriteFades DEF AgentSaves, Alive
<1>5. ASSUME NEW i \in Ids, NEW c \in Cards, AgentReleases(i, c) PROVE Fades
  BY <1>0, <1>2, <1>5, WriteFades DEF AgentReleases
<1>6. ASSUME NEW i \in Ids, AgentExits(i) \/ RowFinalized(i) PROVE Fades
  BY <1>6 DEF AgentExits, RowFinalized, Fades
<1>7. ASSUME NEW i \in Ids, OnComplete(i) PROVE Fades
  <2>1. CASE issue' = issue
    BY <2>1 DEF Fades
  <2>2. CASE WriteIssue(run[i].card,
               [Parsed(issue[run[i].card]) EXCEPT !.dispatch = FALSE])
    BY <1>0, <1>1, <1>2, <1>7, <2>2, WriteFades DEF OnComplete
  <2> QED BY <1>7, <2>1, <2>2 DEF OnComplete
<1>8. ASSUME NEW c \in Cards,
             ReconcileBlocked(c) \/ OperatorUnblocks(c) \/ OperatorFinishes(c)
      PROVE  Fades
  BY <1>0, <1>2, <1>3, <1>8, WriteFades
     DEF ReconcileBlocked, OperatorUnblocks, OperatorFinishes
<1>9. ASSUME NEW a \in Agents, OperatorClearsBroken(a) PROVE Fades
  BY <1>9 DEF OperatorClearsBroken, Fades
<1>10. UNCHANGED tick
  BY DEF Agent, AgentSaves, AgentExits, RowFinalized, OnComplete,
     AgentReleases, Operator, ReconcileBlocked, OperatorUnblocks,
     OperatorFinishes, OperatorClearsBroken
<1> QED
  BY <1>4, <1>5, <1>6, <1>7, <1>8, <1>9, <1>10 DEF Agent, Operator

\* Fading owners falsify nothing.
LEMMA FadingKeeps ==
    ASSUME KInv, Fades, UNCHANGED tick, CInv'
    PROVE  KInv'
<1>0. /\ DOMAIN cards \subseteq Cards /\ DOMAIN openIssues \subseteq Cards
      /\ Trying => attempt.card \in Cards
  BY AsReadTyped DEF KInv, CInv, TInv, ListsOK, IssueMap
<1>1. \A c \in Cards : issue'[c].owner \in Agents
                          => issue'[c].owner = issue[c].owner
  BY NobodyIsNoAgent DEF Fades
<1>2. /\ cards' = cards /\ openIssues' = openIssues /\ assigned' = assigned
      /\ pc' = pc /\ pass' = pass /\ attempt' = attempt /\ handled' = handled
  BY DEF tick, snapshot, progress
<1>3. OpenRead'
  BY <1>0, <1>1, <1>2 DEF KInv, OpenRead
<1>4. AssignedRead'
  BY <1>0, <1>1, <1>2 DEF KInv, AssignedRead, Stamped, Trying
<1>5. AttemptOwns'
  BY <1>0, <1>1, <1>2 DEF KInv, AttemptOwns, Trying
<1> QED BY <1>3, <1>4, <1>5 DEF KInv

LEMMA ReadKeeps == ASSUME KInv, Read, CInv' PROVE KInv' /\ issue' = issue
<1>0. issue' = issue /\ pass = "A" /\ pass' = "A" /\ ~Trying'
      /\ pc' \in {"second open", "second cards", "roster", "busy", "assigned", "heal"}
  BY DEF KInv, CInv, TInv, PlaceOK, WalkedAway, Trying, Read, ReadDispatchable,
     ReadOpenIssues, ReadRoster, BusyAgents, AssignedCards, system
<1>1. OpenRead'
  <2>1. CASE ReadOpenIssues
    BY <1>0, <2>1 DEF ReadOpenIssues, OpenRead, Restrict
  <2>2. CASE openIssues' = openIssues
    BY <1>0, <2>2 DEF KInv, OpenRead
  <2> QED BY <2>1, <2>2 DEF Read, ReadDispatchable, ReadRoster, BusyAgents,
     AssignedCards, snapshot
<1>2. AssignedRead'
  <2>1. CASE AssignedCards
    BY <1>0, <2>1 DEF AssignedCards, AssignedRead
  <2>2. CASE pc' # "heal"
    BY <1>0, <2>2 DEF AssignedRead
  <2> QED BY <2>1, <2>2 DEF Read, ReadDispatchable, ReadOpenIssues, ReadRoster,
     BusyAgents
<1>3. AttemptOwns'
  BY <1>0 DEF AttemptOwns, Trying
<1> QED BY <1>0, <1>1, <1>2, <1>3 DEF KInv

LEMMA PickFades == ASSUME TInv, Pick PROVE Fades
<1>0. issue \in [Cards -> Issue]
  BY DEF TInv, WorldOK
<1>1. CASE issue' = issue
  BY <1>1 DEF Fades
<1>2. ASSUME NEW a \in Agents, ReleaseOnGate(a) PROVE Fades
  <2>1. PICK c \in Cards :
           /\ Owned(a) = {c}
           /\ WriteIssue(c, [openIssues[c] EXCEPT
                               !.owner = 0, !.dispatch = FALSE,
                               !.column = IF openIssues[c].blocked \/ @ = "ready"
                                          THEN @ ELSE "ToDo"])
    BY <1>2 DEF ReleaseOnGate
  <2>2. c \in DOMAIN openIssues /\ openIssues[c] \in Issue
    BY <2>1 DEF TInv, Owned, ListsOK, IssueMap
  <2> DEFINE k == IF openIssues[c].blocked \/ openIssues[c].column = "ready"
                  THEN openIssues[c].column ELSE "ToDo"
             released == [openIssues[c] EXCEPT !.owner = 0, !.dispatch = FALSE,
                                               !.column = k]
  <2>3. k \in {"Done", "ready", "ToDo", "In Progress"}
    BY <2>2 DEF Issue
  <2>4. released \in Issue
    BY <2>2, <2>3, IssueEdits, NobodyIsOwner
  <2>5. released.owner = 0
    BY <2>2 DEF Issue
  <2>6. WriteIssue(c, released)
    BY <2>1
  <2> HIDE DEF released
  <2> QED BY <1>0, <2>4, <2>5, <2>6, WriteFades
<1>3. ASSUME NEW c \in Cards, HealOrphan(c) PROVE Fades
  <2> DEFINE healed == [cards[c] EXCEPT !.owner = 0, !.dispatch = FALSE]
  <2>1. c \in DOMAIN cards /\ cards[c] \in Issue
    BY <1>3 DEF TInv, HealOrphan, ListsOK, IssueMap
  <2>2. healed \in Issue
    BY <2>1, IssueEdits, NobodyIsOwner
  <2>3. healed.owner = 0
    BY <2>1 DEF Issue
  <2>4. WriteIssue(c, healed)
    BY <1>3 DEF HealOrphan
  <2> HIDE DEF healed
  <2> QED BY <1>0, <2>2, <2>3, <2>4, WriteFades
<1>4. \/ issue' = issue
      \/ \E a \in Agents : ReleaseOnGate(a)
      \/ \E c \in Cards : HealOrphan(c)
  BY DEF Pick, BeginPassA, BeginPassB, EndTick, ResumeOwned, DeferCard,
     OfferCard, BeginAttempt, system
<1> QED BY <1>1, <1>2, <1>3, <1>4

\* A step of the walk that begins no attempt.
LEMMA WalkKeeps ==
    ASSUME KInv, CInv', Fades, ~Trying',
           pc' \in {"heal", "pick"} => /\ pc \in {"heal", "pick"}
                                     /\ DOMAIN cards' \subseteq DOMAIN cards
                                     /\ assigned' = assigned /\ handled' = handled,
           openIssues' = openIssues \/ DOMAIN openIssues' = {},
           pass' = "B" => pass = "B" \/ DOMAIN openIssues' = {}
    PROVE  KInv'
<1>0. DOMAIN cards \subseteq Cards /\ DOMAIN openIssues \subseteq Cards
  BY DEF KInv, CInv, TInv, ListsOK, IssueMap
<1>1. \A c \in Cards : issue'[c].owner \in Agents
                          => issue'[c].owner = issue[c].owner
  BY NobodyIsNoAgent DEF Fades
<1>2. OpenRead'
  BY <1>0, <1>1 DEF KInv, OpenRead
<1>3. AssignedRead'
  <2> SUFFICES ASSUME pc' \in {"heal", "pick"} PROVE AssignedRead'
    BY DEF AssignedRead
  <2>1. \A c : ~Stamped(c)
    BY DEF Stamped
  <2>2. /\ DOMAIN cards \subseteq DOMAIN assigned
        /\ \A c \in DOMAIN cards :
              issue[c].owner \in Agents =>
                  issue[c].owner = assigned[c] \/ c \in handled
    BY <2>1 DEF KInv, AssignedRead
  <2> QED BY <1>0, <1>1, <2>2 DEF AssignedRead
<1>4. AttemptOwns'
  BY DEF KInv, AttemptOwns, Trying
<1> QED BY <1>2, <1>3, <1>4 DEF KInv

LEMMA PickKeeps == ASSUME KInv, Pick, CInv' PROVE KInv' /\ Fades
<1>0. Fades
  BY PickFades DEF KInv, CInv
<1>1. CASE BeginPassA \/ BeginPassB \/ EndTick
  BY <1>0, <1>1, WalkKeeps DEF BeginPassA, BeginPassB, EndTick, Trying, None,
     snapshot, progress
<1>2. ASSUME NEW a \in Agents, ReleaseOnGate(a) PROVE KInv'
  BY <1>0, <1>2, WalkKeeps DEF ReleaseOnGate, PassA, Trying, snapshot, progress
<1>3. ASSUME NEW c \in Cards, HealOrphan(c) PROVE KInv'
  <2>1. DOMAIN cards' = DOMAIN cards
    BY <1>3 DEF HealOrphan
  <2> QED
    BY <1>0, <1>3, <2>1, WalkKeeps DEF HealOrphan, Trying, snapshot, progress
<1>4. ASSUME NEW c \in Cards, DeferCard(c) PROVE KInv'
  <2>1. DOMAIN cards' \subseteq DOMAIN cards
    BY <1>4 DEF DeferCard, Remaining, Restrict
  <2> QED
    BY <1>0, <1>4, <2>1, WalkKeeps
       DEF DeferCard, PassB, Trying, snapshot, progress
<1>5. ASSUME NEW a \in Agents, ResumeOwned(a) PROVE KInv'
  <2>1. PICK c \in Cards : c \in Owned(a) /\ First(c, Owned(a))
                           /\ BeginAttempt(a, c, openIssues[c], Owned(a) # {c})
    BY <1>5 DEF ResumeOwned, First
  <2>2. /\ pc = "pick" /\ pass = "A" /\ pass' = "A"
        /\ handled' = handled \cup Owned(a)
        /\ issue' = issue /\ cards' = cards /\ openIssues' = openIssues
        /\ assigned' = assigned /\ Trying' /\ pc' \in {"guard", "claim"}
        /\ attempt'.agent = a /\ attempt'.card = c
    BY <1>5, <2>1
       DEF ResumeOwned, PassA, BeginAttempt, system, snapshot, Trying
  <2>3. openIssues[c].owner = a /\ c \in DOMAIN openIssues
    BY <2>1 DEF Owned
  <2>4. OpenRead'
    BY <2>2 DEF KInv, OpenRead
  <2>5. AssignedRead'
    BY <2>2 DEF KInv, AssignedRead, Stamped
  <2>6. AttemptOwns'
    BY <2>1, <2>2, <2>3 DEF KInv, OpenRead, AttemptOwns
  <2> QED BY <2>4, <2>5, <2>6 DEF KInv
<1>6. ASSUME NEW c \in Cards, OfferCard(c) PROVE KInv'
  <2>1. PICK a \in Agents : a \in Takers(c) /\ BeginAttempt(a, c, cards[c], FALSE)
    BY <1>6 DEF OfferCard, First
  <2>2. /\ pc = "pick" /\ pass = "B" /\ pass' = "B" /\ handled' = handled
        /\ issue' = issue /\ cards' = cards /\ openIssues' = openIssues
        /\ assigned' = assigned /\ Trying' /\ pc' \in {"guard", "claim"}
        /\ attempt'.agent = a /\ attempt'.card = c
        /\ c \in DOMAIN cards /\ ~Deferred(c)
    BY <1>6, <2>1
       DEF OfferCard, PassB, First, Ahead, BeginAttempt, system, snapshot, Trying
  <2>3. issue[c].owner \in Agents => issue[c].owner = assigned[c]
    BY <2>2 DEF KInv, AssignedRead, Stamped, Deferred
  <2>4. assigned[c] \in Agents => a = assigned[c]
    BY <2>1, <2>2, NobodyIsNoAgent DEF Takers, Owner, Deferred
  <2>5. OpenRead'
    BY <2>2 DEF KInv, OpenRead
  <2>6. AssignedRead'
    BY <2>2 DEF KInv, AssignedRead, Stamped
  <2>7. AttemptOwns'
    BY <2>2, <2>3, <2>4 DEF KInv, AttemptOwns
  <2> QED BY <2>5, <2>6, <2>7 DEF KInv
<1> QED
  BY <1>0, <1>1, <1>2, <1>3, <1>4, <1>5, <1>6 DEF Pick

\* An attempt ends: its card, if it was one of pass B, leaves the list.
LEMMA EndKeeps ==
    ASSUME KInv, CInv', Trying, pc' = "pick",
           \A c \in Cards :
               c # attempt.card /\ issue'[c].owner \in Agents
                   => issue'[c].owner = issue[c].owner,
           OpenRead', pass' = pass, cards' = LeavesRemaining,
           handled' = handled, openIssues' = openIssues,
           DOMAIN assigned' = DOMAIN assigned,
           \A c \in DOMAIN assigned :
               c # attempt.card => assigned'[c] = assigned[c]
    PROVE  KInv'
<1>1. DOMAIN cards' \subseteq DOMAIN cards
      /\ (pass = "B" => attempt.card \notin DOMAIN cards')
  BY DEF LeavesRemaining, Remaining, Restrict
<1>2. DOMAIN cards \subseteq Cards
  BY DEF KInv, CInv, TInv, ListsOK, IssueMap
<1>3. DOMAIN cards \subseteq DOMAIN assigned
  BY DEF KInv, AssignedRead
<1>4. ASSUME NEW c \in DOMAIN cards', issue'[c].owner \in Agents
      PROVE  issue'[c].owner = assigned'[c] \/ c \in handled
  <2>1. CASE c = attempt.card
    <3>1. pass = "A"
      BY <1>1, <1>4, <2>1 DEF KInv, CInv, TInv, PlaceOK
    <3> QED BY <2>1, <3>1 DEF KInv, AttemptOwns
  <2>2. CASE c # attempt.card
    <3>1. c \in Cards /\ c \in DOMAIN cards /\ c \in DOMAIN assigned
      BY <1>1, <1>2, <1>3, <1>4
    <3>2. issue'[c].owner = issue[c].owner /\ assigned'[c] = assigned[c]
      BY <1>4, <2>2, <3>1
    <3>3. issue[c].owner = assigned[c] \/ c \in handled
      BY <1>4, <2>2, <3>1, <3>2 DEF KInv, AssignedRead, Stamped
    <3> QED BY <3>2, <3>3
  <2> QED BY <2>1, <2>2
<1>5. AssignedRead'
  BY <1>1, <1>3, <1>4 DEF AssignedRead
<1>6. AttemptOwns'
  BY DEF KInv, AttemptOwns, Trying
<1> QED BY <1>5, <1>6 DEF KInv

\* An attempt goes on without a stamp.
LEMMA OnKeeps ==
    ASSUME KInv, CInv', Trying, Trying', Fades,
           pc' \in {"guard", "claim"} => pc \in {"guard", "claim"},
           pc \in {"sync", "spawn", "failed"} => pc' \in {"sync", "spawn", "failed"},
           UNCHANGED <<pass, cards, openIssues, assigned, handled>>,
           attempt'.agent = attempt.agent, attempt'.card = attempt.card
    PROVE  KInv'
<1>0. /\ DOMAIN cards \subseteq Cards /\ DOMAIN openIssues \subseteq Cards
      /\ attempt.card \in Cards
  BY AsReadTyped DEF KInv, CInv, TInv, ListsOK, IssueMap
<1>1. \A c \in Cards : issue'[c].owner \in Agents
                          => issue'[c].owner = issue[c].owner
  BY NobodyIsNoAgent DEF Fades
<1>2. OpenRead'
  BY <1>0, <1>1 DEF KInv, OpenRead
<1>3. \A c : Stamped(c) => Stamped(c)'
  BY DEF Stamped
<1>4. AssignedRead'
  BY <1>0, <1>1, <1>3 DEF KInv, AssignedRead
<1>5. AttemptOwns'
  BY <1>0, <1>1 DEF KInv, AttemptOwns
<1> QED BY <1>2, <1>4, <1>5 DEF KInv

\* The attempt's own writes after its stamp leave the owner alone.
LEMMA EditFades ==
    ASSUME TInv, Trying, NEW b \in BOOLEAN,
           NEW k \in {"Done", "ready", "ToDo", "In Progress"},
           \/ issue' = issue
           \/ WriteIssue(attempt.card, [issue[attempt.card] EXCEPT !.dispatch = b])
           \/ WriteIssue(attempt.card, [issue[attempt.card] EXCEPT !.column = k])
    PROVE  Fades
<1>1. /\ attempt.card \in Cards /\ issue \in [Cards -> Issue]
      /\ issue[attempt.card] \in Issue
  BY AsReadTyped DEF TInv, WorldOK
<1> DEFINE moved == [issue[attempt.card] EXCEPT !.column = k]
           marked == [issue[attempt.card] EXCEPT !.dispatch = b]
<1>2. moved \in Issue /\ marked \in Issue
  BY <1>1, IssueEdits, NobodyIsOwner
<1>3. /\ moved.owner = issue[attempt.card].owner
      /\ marked.owner = issue[attempt.card].owner
  BY <1>1 DEF Issue
<1>4. CASE issue' = issue
  BY <1>4 DEF Fades
<1>5. CASE WriteIssue(attempt.card, moved)
  <2> HIDE DEF moved
  <2> QED BY <1>1, <1>2, <1>3, <1>5, WriteFades
<1>6. CASE WriteIssue(attempt.card, marked)
  <2> HIDE DEF marked
  <2> QED BY <1>1, <1>2, <1>3, <1>6, WriteFades
<1> QED BY <1>4, <1>5, <1>6

\* The stamps give the card to the agent that owns it, or to any if none does.
LEMMA StampWrites ==
    ASSUME KInv, pc = "claim", NEW b \in BOOLEAN,
           \/ issue' = issue
           \/ WriteIssue(attempt.card, Claimed)
           \/ WriteIssue(attempt.card, [Claimed EXCEPT !.dispatch = b]),
           openIssues' = openIssues
    PROVE  /\ \A c \in Cards : issue[c].owner \in Agents
                                  => issue'[c].owner \in {issue[c].owner, 0}
           /\ \A c \in Cards : c # attempt.card => issue'[c] = issue[c]
           /\ OpenRead'
<1>0. TInv /\ Trying
  BY DEF KInv, CInv, Trying
<1>1. /\ attempt.card \in Cards /\ attempt.agent \in Agents
      /\ Claimed \in Issue /\ AsRead \in Issue
      /\ issue \in [Cards -> Issue] /\ DOMAIN openIssues \subseteq Cards
  BY <1>0, AsReadTyped DEF TInv, WorldOK, ListsOK, IssueMap
<1>2. Claimed.owner = attempt.agent
      /\ [Claimed EXCEPT !.dispatch = b].owner = attempt.agent
  BY <1>1 DEF Claimed, Issue
<1>3. Finished.owner = 0
  BY DEF Finished, Fresh
<1>4. \/ issue' = issue
      \/ /\ issue'[attempt.card].owner \in {attempt.agent, 0}
         /\ \A c \in Cards : c # attempt.card => issue'[c] = issue[c]
  <2>1. CASE issue' = issue
    BY <2>1
  <2>2. ASSUME NEW i, i.owner = attempt.agent, WriteIssue(attempt.card, i)
        PROVE  /\ issue'[attempt.card].owner \in {attempt.agent, 0}
               /\ \A c \in Cards : c # attempt.card => issue'[c] = issue[c]
    BY <1>1, <1>3, <2>2 DEF WriteIssue
  <2>3. CASE WriteIssue(attempt.card, Claimed)
    BY <1>2, <2>2, <2>3
  <2>4. CASE WriteIssue(attempt.card, [Claimed EXCEPT !.dispatch = b])
    BY <1>2, <2>2, <2>4
  <2> QED BY <2>1, <2>3, <2>4
<1>5. issue[attempt.card].owner \in Agents
         => issue[attempt.card].owner = attempt.agent
  BY DEF KInv, AttemptOwns
<1>6. attempt.card \in DOMAIN openIssues
         => openIssues[attempt.card].owner = attempt.agent
  BY <1>0 DEF KInv, AttemptOwns, TInv, PlaceOK
<1>7. OpenRead'
  BY <1>1, <1>4, <1>6, NobodyIsNoAgent DEF KInv, OpenRead
<1> QED BY <1>4, <1>5, <1>7

LEMMA AttemptKeeps ==
    ASSUME KInv, Attempt, CInv'
    PROVE  /\ KInv'
           /\ \A c \in Cards : issue[c].owner \in Agents
                                  => issue'[c].owner \in {issue[c].owner, 0}
<1>0. TInv /\ Trying /\ DOMAIN openIssues \subseteq Cards
  BY DEF KInv, CInv, TInv, ListsOK, IssueMap, Attempt, Trying, Guard, LockHeld,
     LockThrows, Stamp, StampFails, WorktreeAborts, FlipToInProgress, Spawned,
     SpawnFails, ClearAfterFailure
<1>1. ASSUME Fades, openIssues' = openIssues
      PROVE  /\ OpenRead'
             /\ \A c \in Cards : issue'[c].owner \in Agents
                                    => issue'[c].owner = issue[c].owner
    BY <1>0, <1>1, NobodyIsNoAgent DEF Fades, KInv, OpenRead
<1>2. ASSUME EndAttempt, Fades PROVE KInv'
  <2>1. openIssues' = openIssues /\ assigned' = assigned
    BY <1>2 DEF EndAttempt, snapshot
  <2> QED BY <1>0, <1>1, <1>2, <2>1, EndKeeps DEF EndAttempt
<1>3. CASE Guard
  <2>1. Fades
    BY <1>3 DEF Guard, system, Fades
  <2>2. CASE EndAttempt
    BY <1>2, <2>1, <2>2 DEF Fades
  <2>3. CASE ~LiveDispatch(attempt.card)
    <3>1. Trying' /\ pc = "guard"
          /\ UNCHANGED <<pass, cards, openIssues, assigned, handled, attempt>>
      BY <1>3, <2>3 DEF Guard, Trying, snapshot
    <3>2. KInv'
      BY <1>0, <2>1, <3>1, OnKeeps
    <3> QED BY <2>1, <3>2 DEF Fades
  <2> QED BY <1>3, <2>2, <2>3 DEF Guard
<1>4. CASE LockHeld \/ LockThrows
  <2>1. Fades /\ EndAttempt
    BY <1>4 DEF LockHeld, LockThrows, system, Fades
  <2> QED BY <1>2, <2>1 DEF Fades
<1>5. CASE Stamp
  <2>1. /\ pc = "claim" /\ pc' = "sync" /\ Trying'
        /\ WriteIssue(attempt.card, [Claimed EXCEPT !.dispatch = TRUE])
        /\ UNCHANGED <<pass, cards, openIssues, assigned, handled, attempt>>
    BY <1>5 DEF Stamp, snapshot, progress, Trying
  <2>2. /\ \A c \in Cards : issue[c].owner \in Agents
                               => issue'[c].owner \in {issue[c].owner, 0}
        /\ \A c \in Cards : c # attempt.card => issue'[c] = issue[c]
        /\ OpenRead'
    BY <2>1, StampWrites
  <2>3. DOMAIN cards \subseteq Cards
    BY <1>0 DEF TInv, ListsOK, IssueMap
  <2>4. AssignedRead'
    <3>1. DOMAIN cards \subseteq DOMAIN assigned
      BY <1>0 DEF KInv, AssignedRead
    <3>2. ASSUME NEW c \in DOMAIN cards, issue'[c].owner \in Agents
          PROVE  issue'[c].owner = assigned[c] \/ c \in handled \/ Stamped(c)'
      <4>1. CASE c = attempt.card /\ pass = "A"
        BY <1>0, <4>1 DEF KInv, AttemptOwns
      <4>2. CASE c = attempt.card /\ pass = "B"
        BY <2>1, <4>2 DEF Stamped
      <4>3. CASE c # attempt.card
        BY <1>0, <2>1, <2>2, <2>3, <3>2, <4>3 DEF KInv, AssignedRead, Stamped
      <4> QED BY <1>0, <4>1, <4>2, <4>3 DEF TInv, PlaceOK
    <3> QED BY <2>1, <3>1, <3>2 DEF AssignedRead
  <2>5. AttemptOwns'
    BY <1>0, <2>1 DEF KInv, AttemptOwns, Trying
  <2> QED BY <2>2, <2>4, <2>5 DEF KInv
<1>6. CASE StampFails
  <2>1. /\ pc = "claim" /\ EndAttempt /\ openIssues' = openIssues
        /\ assigned' = assigned
        /\ issue' = issue \/ WriteIssue(attempt.card, Claimed)
    BY <1>6 DEF StampFails, EndAttempt, snapshot
  <2>2. /\ \A c \in Cards : issue[c].owner \in Agents
                               => issue'[c].owner \in {issue[c].owner, 0}
        /\ \A c \in Cards : c # attempt.card => issue'[c] = issue[c]
        /\ OpenRead'
    BY <2>1, StampWrites
  <2> QED BY <1>0, <2>1, <2>2, EndKeeps DEF EndAttempt
<1>7. CASE WorktreeAborts \/ SpawnFails
  <2>1. Fades
    BY <1>0, <1>7, EditFades DEF WorktreeAborts, SpawnFails
  <2>2. /\ Trying' /\ pc' = "failed" /\ pc \in {"sync", "spawn"}
        /\ UNCHANGED <<pass, cards, openIssues, assigned, handled, attempt>>
    BY <1>7 DEF WorktreeAborts, SpawnFails, Trying, snapshot, progress
  <2>3. KInv'
    BY <1>0, <2>1, <2>2, OnKeeps
  <2> QED BY <2>1, <2>3 DEF Fades
<1>8. CASE FlipToInProgress
  <2>1. Fades
    BY <1>0, <1>8, EditFades DEF FlipToInProgress
  <2>2. /\ Trying' /\ pc' = "spawn" /\ pc = "sync"
        /\ UNCHANGED <<pass, cards, openIssues, assigned, handled>>
        /\ attempt'.agent = attempt.agent /\ attempt'.card = attempt.card
    BY <1>0, <1>8
       DEF FlipToInProgress, Trying, snapshot, progress, TInv, AttemptOK
  <2>3. KInv'
    BY <1>0, <2>1, <2>2, OnKeeps
  <2> QED BY <2>1, <2>3 DEF Fades
<1>9. CASE Spawned
  <2>1. Fades
    BY <1>0, <1>9, EditFades DEF Spawned
  <2>2. /\ pc' = "pick" /\ pass' = pass /\ cards' = LeavesRemaining
        /\ handled' = handled /\ openIssues' = openIssues
        /\ DOMAIN assigned' = DOMAIN assigned
        /\ \A c \in DOMAIN assigned : c # attempt.card => assigned'[c] = assigned[c]
    BY <1>9 DEF Spawned
  <2>3. KInv'
    BY <1>0, <1>1, <2>1, <2>2, EndKeeps
  <2> QED BY <2>1, <2>3 DEF Fades
<1>10. CASE ClearAfterFailure
  <2>1. Fades /\ EndAttempt
    BY <1>0, <1>10, EditFades DEF ClearAfterFailure
  <2> QED BY <1>2, <2>1 DEF Fades
<1> QED
  BY <1>3, <1>4, <1>5, <1>6, <1>7, <1>8, <1>9, <1>10 DEF Attempt

LEMMA NextKInv ==
    ASSUME KInv, [Next]_vars
    PROVE  /\ KInv'
           /\ \A c \in Cards : issue[c].owner \in Agents
                                  => issue'[c].owner \in {issue[c].owner, 0}
<1>0. TInv /\ CInv'
  BY NextCInv DEF KInv, CInv
<1>1. CASE Read
  BY <1>0, <1>1, ReadKeeps
<1>2. CASE Pick
  BY <1>0, <1>2, PickKeeps DEF Fades
<1>3. CASE Attempt
  BY <1>0, <1>3, AttemptKeeps
<1>4. CASE Agent \/ Operator
  BY <1>0, <1>4, OthersFade, FadingKeeps DEF Fades
<1>5. CASE UNCHANGED vars
  BY <1>0, <1>5, FadingKeeps DEF vars, system, Fades
<1> QED BY <1>1, <1>2, <1>3, <1>4, <1>5 DEF Next

\* The picker never gives a card that is stamped with an agent of the roster to
\* another one: it is released first, however stale what the tick has read.
THEOREM OwnerKeptSafe == Spec => OwnerKept
<1>1. Init => KInv
  <2> SUFFICES ASSUME Init PROVE KInv
    OBVIOUS
  <2>1. CInv
    BY InitTInv DEF Init, CInv, WalkedAway
  <2>2. OpenRead /\ AssignedRead /\ AttemptOwns
    BY DEF Init, None, OpenRead, AssignedRead, AttemptOwns, Trying
  <2> QED BY <2>1, <2>2 DEF KInv
<1>2. KInv /\ [Next]_vars => KInv'
  BY NextKInv
<1>3. KInv /\ [Next]_vars =>
         [\A c \in Cards : issue[c].owner \in Agents
                              => issue'[c].owner \in {issue[c].owner, 0}]_vars
  BY NextKInv
<1> QED BY <1>1, <1>2, <1>3, PTL DEF Spec, OwnerKept
-----------------------------------------------------------------------------
\* Refinement of Assignment.  Only four steps change a run.
LEMMA RunsRest ==
    ASSUME Read \/ Pick \/ Operator \/ (Attempt /\ ~Spawned)
    PROVE  run' = run
<1>1. CASE Read
  BY <1>1 DEF Read, ReadDispatchable, ReadOpenIssues, ReadRoster, BusyAgents,
     AssignedCards, system
<1>2. CASE Pick
  BY <1>2 DEF Pick, BeginPassA, BeginPassB, EndTick, ReleaseOnGate, ResumeOwned,
     HealOrphan, DeferCard, OfferCard, BeginAttempt, system
<1>3. CASE Operator
  BY <1>3 DEF Operator, ReconcileBlocked, OperatorUnblocks, OperatorFinishes,
     OperatorClearsBroken
<1>4. CASE Attempt /\ ~Spawned
  BY <1>4 DEF Attempt, Guard, LockHeld, LockThrows, Stamp, StampFails,
     WorktreeAborts, FlipToInProgress, SpawnFails, ClearAfterFailure, system
<1> QED BY <1>1, <1>2, <1>3, <1>4

\* What the runs say to Assignment.
LEMMA JobsRest ==
    ASSUME OpenRows' = OpenRows, Alive' = Alive,
           \A i \in OpenRows \cup Alive : Job(i)' = Job(i)
    PROVE  UNCHANGED Work!vars
BY DEF Work!vars

LEMMA JobsTyped ==
    ASSUME RunsTyped, NEW i \in Runs
    PROVE  Job(i) \in [id : Ids, agent : Agents, card : Cards]
BY RunsAreRuns DEF Runs, Job, Run

\* An agent is spawned: it had no open row, and nobody was alive on a guarded
\* card.
LEMMA SpawnedBegins ==
    ASSUME IInv, Spawned
    PROVE  \E w \in [id : Ids, agent : Agents, card : Cards] : Work!Begin(w)
<1> DEFINE r == [agent |-> attempt.agent, card |-> attempt.card,
                 kind |-> attempt.kind, alive |-> TRUE, open |-> TRUE,
                 told |-> FALSE]
           w(i) == [id |-> i, agent |-> attempt.agent, card |-> attempt.card]
<1>1. PICK i \in FreeIds : run' = [run EXCEPT ![i] = r]
  BY DEF Spawned
<1>2. pc = "spawn"
  BY DEF Spawned
<1>3. attempt.agent \in Agents \ busy /\ attempt.card \in Cards
  BY <1>2 DEF IInv, AttemptFree, Trying
<1>4. r # NoRun /\ i \in Ids /\ run[i] = NoRun
  <2>1. r \in Run
    BY <1>2 DEF IInv, AttemptFree, Trying, Run
  <2> QED BY <2>1, RunIsNotNoRun DEF FreeIds, Runs
<1>5. /\ Runs' = Runs \cup {i} /\ i \notin Runs
      /\ run'[i] = r /\ \A j \in Runs : run'[j] = run[j]
  BY <1>1, <1>4 DEF IInv, RunsTyped, Runs
<1>6. OpenRows' = OpenRows \cup {i} /\ Alive' = Alive \cup {i}
  BY <1>5 DEF OpenRows, Alive
<1>7. Job(i)' = w(i) /\ \A j \in OpenRows \cup Alive : Job(j)' = Job(j)
  BY <1>5 DEF Job, OpenRows, Alive
<1>8. \A j \in OpenRows : Job(j).agent # w(i).agent
  BY <1>2, <1>3 DEF IInv, BusyKnown, Job
<1>9. w(i).card \in Tracked => \A j \in Alive : Job(j).card # w(i).card
  BY <1>2 DEF IInv, CardClear, Job
<1>10. w(i) \in [id : Ids, agent : Agents, card : Cards]
  BY <1>3, <1>4
<1>11. /\ {Job(j) : j \in OpenRows}' = {Job(j) : j \in OpenRows} \cup {w(i)}
       /\ {Job(j) : j \in Alive}' = {Job(j) : j \in Alive} \cup {w(i)}
  BY <1>6, <1>7
<1>12. Work!Begin(w(i))
  BY <1>8, <1>9, <1>11 DEF Work!Begin
<1> QED BY <1>10, <1>12

\* The job of an id is nobody else's.
LEMMA JobsApart == \A i, j : Job(i) = Job(j) => i = j
BY DEF Job

\* The steps of an agent end its work, free it, or are no business of Assignment.
LEMMA AgentEnds == ASSUME IInv, Agent PROVE [Work!Next]_(Work!vars)
<1> USE DEF IInv
<1>1. PICK i \in Ids :
        \/ AgentSaves(i) \/ AgentExits(i) \/ RowFinalized(i) \/ OnComplete(i)
        \/ \E c \in Cards : AgentReleases(i, c)
  BY DEF Agent
<1>2. CASE AgentSaves(i) \/ \E c \in Cards : AgentReleases(i, c)
  <2>1. run' = run
    BY <1>2 DEF AgentSaves, AgentReleases
  <2> QED BY <2>1, JobsRest DEF OpenRows, Alive, Runs, Job
<1>3. CASE AgentExits(i)
  <2>1. i \in Runs /\ i \in Alive /\ run[i] \in Run
    BY <1>3, RunsAreRuns DEF AgentExits, Alive
  <2>2. /\ run'[i] = [run[i] EXCEPT !.alive = FALSE]
        /\ \A j \in Ids : j # i => run'[j] = run[j]
    BY <1>3 DEF AgentExits, RunsTyped
  <2>3. run'[i] \in Run /\ run'[i].open = run[i].open /\ ~run'[i].alive
    BY <2>1, <2>2 DEF Run
  <2>4. Runs' = Runs
    BY <2>1, <2>2, <2>3, RunIsNotNoRun DEF Runs
  <2>5. OpenRows' = OpenRows /\ Alive' = Alive \ {i}
    BY <2>1, <2>2, <2>3, <2>4 DEF OpenRows, Alive, Runs
  <2>6. \A j \in OpenRows \cup Alive : Job(j)' = Job(j)
    BY <2>1, <2>2 DEF Job, OpenRows, Alive, Runs, Run
  <2>7. /\ {Job(j) : j \in OpenRows}' = {Job(j) : j \in OpenRows}
        /\ {Job(j) : j \in Alive}' = {Job(j) : j \in Alive} \ {Job(i)}
    BY <2>5, <2>6, JobsApart
  <2>8. Work!Stop(Job(i))
    BY <2>1, <2>7 DEF Work!Stop
  <2> QED BY <2>1, <2>8, JobsTyped DEF Work!Next
<1>4. CASE RowFinalized(i)
  <2> DEFINE r == [run[i] EXCEPT !.open = FALSE]
  <2>1. i \in OpenRows /\ i \notin Alive /\ i \in Runs /\ run[i] \in Run
    BY <1>4, RunsAreRuns DEF RowFinalized, OpenRows
  <2>2. /\ run'[i] \in {NoRun, r}
        /\ \A j \in Ids : j # i => run'[j] = run[j]
    BY <1>4 DEF RowFinalized, RunsTyped, Settled
  <2>3. r.open = FALSE /\ r.alive = run[i].alive
    BY <2>1 DEF Run
  <2>4. OpenRows' = OpenRows \ {i} /\ Alive' = Alive
    BY <2>1, <2>2, <2>3 DEF OpenRows, Alive, Runs
  <2>5. \A j \in Alive \cup (OpenRows \ {i}) : Job(j)' = Job(j)
    BY <2>1, <2>2 DEF Job, OpenRows, Alive, Runs
  <2>6. /\ {Job(j) : j \in OpenRows}' = {Job(j) : j \in OpenRows} \ {Job(i)}
        /\ {Job(j) : j \in Alive}' = {Job(j) : j \in Alive}
    BY <2>4, <2>5, JobsApart
  <2>7. Work!Free(Job(i))
    BY <2>1, <2>6, JobsApart DEF Work!Free
  <2> QED BY <2>1, <2>7, JobsTyped DEF Work!Next
<1>5. CASE OnComplete(i)
  <2> DEFINE r == [run[i] EXCEPT !.told = TRUE]
  <2>1. i \in Runs /\ run[i] \in Run /\ ~run[i].alive
    BY <1>5, RunsAreRuns DEF OnComplete, Alive
  <2>2. r \in Run /\ r.open = run[i].open /\ ~r.alive
        /\ r.agent = run[i].agent /\ r.card = run[i].card
    BY <2>1 DEF Run
  <2>3. /\ run'[i] = IF r.open THEN r ELSE NoRun
        /\ \A j \in Ids : j # i => run'[j] = run[j]
    BY <1>5, <2>2 DEF OnComplete, RunsTyped, Settled, Run
  <2>4. OpenRows' = OpenRows /\ Alive' = Alive
    BY <2>1, <2>2, <2>3, RunIsNotNoRun DEF OpenRows, Alive, Runs
  <2>5. \A j \in OpenRows \cup Alive : Job(j)' = Job(j)
    BY <2>1, <2>2, <2>3 DEF Job, OpenRows, Alive, Runs
  <2> QED BY <2>4, <2>5, JobsRest
<1> QED BY <1>1, <1>2, <1>3, <1>4, <1>5

LEMMA StepImplements == IInv /\ [Next]_vars => [Work!Next]_(Work!vars)
<1> SUFFICES ASSUME IInv, [Next]_vars PROVE [Work!Next]_(Work!vars)
  OBVIOUS
<1>1. CASE Spawned
  BY <1>1, SpawnedBegins DEF Work!Next
<1>2. CASE Agent
  BY <1>2, AgentEnds
<1>3. CASE run' = run
  BY <1>3, JobsRest DEF OpenRows, Alive, Runs, Job
<1>4. run' = run \/ Spawned \/ Agent
  BY RunsRest DEF Next, vars, system
<1> QED BY <1>1, <1>2, <1>3, <1>4

\* Whatever the roster, the cards and the number of dispatches, the picker, its
\* agents and the operator keep the promise of Assignment.
THEOREM Refinement == Spec => ImplementsAssignment
<1>1. Init => Work!Init
  BY DEF Init, Work!Init, OpenRows, Alive, Runs
<1> QED
  BY <1>1, StepImplements, Inductive, PTL
     DEF Spec, ImplementsAssignment, Work!Spec
=============================================================================
