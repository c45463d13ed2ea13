------------------------ MODULE DispatchRecoveryProofs ------------------------
(***************************************************************************)
(* Proofs about the dispatches of a card across crashes, for every number   *)
(* of dispatches and of faults.                                             *)
(***************************************************************************)
EXTENDS DispatchRecovery, FiniteSetTheorems, TLAPS

\* The queue is replayed before the worker starts anything.
ReplayAlone ==
    worker = "replay" => /\ launch = NoLaunch
                         /\ \A d \in Ids : job[d] = "none" /\ handler[d] = "none"

\* While the queue is replayed, a queued report is still in the work list or
\* has closed its row.
ReplayPending ==
    worker = "replay" =>
        \A d \in owed :
            row[d] = "completed" \/ (row[d] = "running" /\ d \in todo)

\* After it nothing in the worker has to do with the dispatch of such a report.
ReplayedIsOver ==
    worker \in {"reattach", "reap", "rehydrate", "arm", "up"} =>
        \A d \in owed :
            /\ row[d] = "completed" /\ job[d] = "none" /\ handler[d] = "none"
            /\ launch.id # d /\ launch.parent # d
            /\ worker = "reattach" => d \notin todo

\* A launch under way has a dispatch of its own.
LaunchHasId == launch.step # "none" => launch.id \in Ids

IInv == TypeOK /\ LaunchHasId /\ ReplayAlone /\ ReplayPending /\ ReplayedIsOver

-----------------------------------------------------------------------------
\* The bounds are numbers, and no id is 0.
LEMMA Bounds == MaxDispatches \in Nat /\ MaxFaults \in Nat /\ 0 \notin Ids
BY DispatchesAssumption, FaultsAssumption DEF Ids

\* A new dispatch takes an id without a row.
LEMMA NextType ==
    ASSUME Fresh # {}
    PROVE  NextId \in Ids /\ row[NextId] = "none"
BY DEF NextId, Fresh

\* A card with its block cleared is a card.
LEMMA ClearedType ==
    ASSUME TypeOK
    PROVE  Cleared \in [done: BOOLEAN, block: Ids \cup {0}, pid: BOOLEAN]
BY DEF TypeOK, Cleared

\* The picker's launch takes an id without a row, so no queued report is of it.
LEMMA PickerStampsStep ==
    ASSUME IInv, NEW guarded \in BOOLEAN, PickerStamps(guarded)
    PROVE  IInv'
<1>1. TypeOK'
  <2>1. launch' \in [id: Ids \cup {0}, parent: Ids \cup {0},
                    step: {"none", "begun", "inserted", "spawned", "paired", "linked"}]
    BY NextType DEF IInv, PickerStamps
  <2>2. card' \in [done: BOOLEAN, block: Ids \cup {0}, pid: BOOLEAN]
    BY NextType DEF IInv, TypeOK, PickerStamps
  <2>3. /\ row' \in [Ids -> Terminal \cup {"none", "running"}]
        /\ job' \in [Ids -> {"none", "core", "reattached"}]
        /\ parent' \in [Ids -> Ids \cup {0}]
    BY NextType DEF IInv, TypeOK, PickerStamps
  <2>4. unseen' \in BOOLEAN
    BY DEF IInv, PickerStamps
  <2> QED
    BY Bounds, NextType, <2>1, <2>2, <2>3, <2>4 DEF IInv, TypeOK, PickerStamps, Fault, ExcuseNext
<1>2. LaunchHasId'
  BY NextType DEF IInv, LaunchHasId, PickerStamps
<1>3. ReplayAlone'
  BY DEF IInv, ReplayAlone, PickerStamps
<1>4. ReplayPending'
  BY NextType DEF IInv, ReplayPending, PickerStamps
<1>5. ReplayedIsOver'
  BY Bounds, NextType DEF IInv, TypeOK, ReplayedIsOver, PickerStamps
<1> QED
  BY <1>1, <1>2, <1>3, <1>4, <1>5 DEF IInv

\* The launch inserts the row of its own dispatch.
LEMMA RowInsertedStep ==
    ASSUME IInv, RowInserted
    PROVE  IInv'
<1>1. TypeOK'
  <2>1. launch' \in [id: Ids \cup {0}, parent: Ids \cup {0},
                    step: {"none", "begun", "inserted", "spawned", "paired", "linked"}]
    BY DEF IInv, TypeOK, RowInserted, LaunchStep, history
  <2>2. card' \in [done: BOOLEAN, block: Ids \cup {0}, pid: BOOLEAN]
    BY DEF IInv, TypeOK, RowInserted, LaunchStep, history
  <2>3. /\ row' \in [Ids -> Terminal \cup {"none", "running"}]
        /\ job' \in [Ids -> {"none", "core", "reattached"}]
        /\ parent' \in [Ids -> Ids \cup {0}]
    BY DEF IInv, TypeOK, RowInserted, LaunchStep, history
  <2>4. unseen' \in BOOLEAN
    BY DEF IInv, TypeOK, RowInserted, LaunchStep, history
  <2> QED
    BY <2>1, <2>2, <2>3, <2>4 DEF IInv, TypeOK, NoLaunch, RowInserted, LaunchStep, history
<1>2. LaunchHasId'
  BY DEF IInv, LaunchHasId, RowInserted, LaunchStep, history
<1>3. ReplayAlone'
  BY DEF IInv, ReplayAlone, NoLaunch, RowInserted, LaunchStep, history
<1>4. ReplayPending'
  BY DEF IInv, ReplayAlone, ReplayPending, NoLaunch, RowInserted, LaunchStep, history
<1>5. ReplayedIsOver'
  BY DEF IInv, ReplayedIsOver, RowInserted, LaunchStep, history
<1> QED
  BY <1>1, <1>2, <1>3, <1>4, <1>5 DEF IInv

\* The spawned job is the launch's own.
LEMMA SpawnedStep ==
    ASSUME IInv, Spawned
    PROVE  IInv'
<1>1. TypeOK'
  <2>1. launch' \in [id: Ids \cup {0}, parent: Ids \cup {0},
                    step: {"none", "begun", "inserted", "spawned", "paired", "linked"}]
    BY DEF IInv, TypeOK, Spawned, LaunchStep, history
  <2>2. card' \in [done: BOOLEAN, block: Ids \cup {0}, pid: BOOLEAN]
    BY DEF IInv, TypeOK, Spawned, LaunchStep, history
  <2>3. /\ row' \in [Ids -> Terminal \cup {"none", "running"}]
        /\ job' \in [Ids -> {"none", "core", "reattached"}]
        /\ parent' \in [Ids -> Ids \cup {0}]
    BY DEF IInv, TypeOK, Spawned, LaunchStep, history
  <2>4. unseen' \in BOOLEAN
    BY DEF IInv, TypeOK, Spawned, LaunchStep, history
  <2> QED
    BY <2>1, <2>2, <2>3, <2>4 DEF IInv, TypeOK, NoLaunch, Spawned, LaunchStep, history
<1>2. LaunchHasId'
  BY DEF IInv, LaunchHasId, Spawned, LaunchStep, history
<1>3. ReplayAlone'
  BY DEF IInv, ReplayAlone, NoLaunch, Spawned, LaunchStep, history
<1>4. ReplayPending'
  BY DEF IInv, ReplayPending, Spawned, LaunchStep, history
<1>5. ReplayedIsOver'
  BY DEF IInv, ReplayedIsOver, Spawned, LaunchStep, history
<1> QED
  BY <1>1, <1>2, <1>3, <1>4, <1>5 DEF IInv

\* Pairing writes the card.
LEMMA CardPairedStep ==
    ASSUME IInv, CardPaired
    PROVE  IInv'
<1>1. TypeOK'
  <2>1. launch' \in [id: Ids \cup {0}, parent: Ids \cup {0},
                    step: {"none", "begun", "inserted", "spawned", "paired", "linked"}]
    BY DEF IInv, TypeOK, CardPaired, LaunchStep, history
  <2>2. card' \in [done: BOOLEAN, block: Ids \cup {0}, pid: BOOLEAN]
    BY DEF IInv, TypeOK, CardPaired, LaunchStep, history
  <2>3. /\ row' \in [Ids -> Terminal \cup {"none", "running"}]
        /\ job' \in [Ids -> {"none", "core", "reattached"}]
        /\ parent' \in [Ids -> Ids \cup {0}]
    BY DEF IInv, TypeOK, CardPaired, LaunchStep, history
  <2>4. unseen' \in BOOLEAN
    BY DEF IInv, CardPaired, LaunchStep, history
  <2> QED
    BY <2>1, <2>2, <2>3, <2>4 DEF IInv, TypeOK, NoLaunch, CardPaired, LaunchStep, history
<1>2. LaunchHasId'
  BY DEF IInv, LaunchHasId, CardPaired, LaunchStep, history
<1>3. ReplayAlone'
  BY DEF IInv, ReplayAlone, NoLaunch, CardPaired, LaunchStep, history
<1>4. ReplayPending'
  BY DEF IInv, ReplayPending, CardPaired, LaunchStep, history
<1>5. ReplayedIsOver'
  BY DEF IInv, ReplayedIsOver, CardPaired, LaunchStep, history
<1> QED
  BY <1>1, <1>2, <1>3, <1>4, <1>5 DEF IInv

\* Pairing writes the launch's row and arms its timer.
LEMMA RowPairedStep ==
    ASSUME IInv, RowPaired
    PROVE  IInv'
<1>1. TypeOK'
  <2>1. launch' \in [id: Ids \cup {0}, parent: Ids \cup {0},
                    step: {"none", "begun", "inserted", "spawned", "paired", "linked"}]
    BY DEF IInv, TypeOK, RowPaired, LaunchStep, history
  <2>2. card' \in [done: BOOLEAN, block: Ids \cup {0}, pid: BOOLEAN]
    BY DEF IInv, TypeOK, RowPaired, LaunchStep, history
  <2>3. /\ row' \in [Ids -> Terminal \cup {"none", "running"}]
        /\ job' \in [Ids -> {"none", "core", "reattached"}]
        /\ parent' \in [Ids -> Ids \cup {0}]
    BY DEF IInv, TypeOK, RowPaired, LaunchStep, history
  <2>4. unseen' \in BOOLEAN
    BY DEF IInv, TypeOK, RowPaired, LaunchStep, history
  <2> QED
    BY <2>1, <2>2, <2>3, <2>4 DEF IInv, LaunchHasId, TypeOK, NoLaunch, RowPaired,
       LaunchStep, history
<1>2. LaunchHasId'
  BY DEF IInv, LaunchHasId, RowPaired, LaunchStep, history
<1>3. ReplayAlone'
  BY DEF IInv, ReplayAlone, NoLaunch, RowPaired, LaunchStep, history
<1>4. ReplayPending'
  BY DEF IInv, ReplayPending, RowPaired, LaunchStep, history
<1>5. ReplayedIsOver'
  BY DEF IInv, ReplayedIsOver, RowPaired, LaunchStep, history
<1> QED
  BY <1>1, <1>2, <1>3, <1>4, <1>5 DEF IInv

\* A resume that ends closes the parent's row, which no queued report has closed.
LEMMA LaunchedStep ==
    ASSUME IInv, Launched
    PROVE  IInv'
<1>1. TypeOK'
  BY DEF IInv, TypeOK, Terminal, NoLaunch, Launched, history
<1>2. LaunchHasId'
  BY DEF IInv, LaunchHasId, NoLaunch, Launched, history
<1>3. ReplayAlone'
  BY DEF IInv, ReplayAlone, Launched, history
<1>4. ReplayPending'
  BY DEF IInv, ReplayAlone, ReplayPending, NoLaunch, Launched, history
<1>5. ReplayedIsOver'
  BY Bounds DEF IInv, TypeOK, ReplayedIsOver, NoLaunch, Launched, history
<1> QED
  BY <1>1, <1>2, <1>3, <1>4, <1>5 DEF IInv

\* That row may stay open.
LEMMA LaunchedUnlinkedStep ==
    ASSUME IInv, LaunchedUnlinked
    PROVE  IInv'
<1>1. TypeOK'
  <2>1. row' \in [Ids -> Terminal \cup {"none", "running"}]
    BY DEF IInv, TypeOK, Terminal, LaunchedUnlinked
  <2>2. faults' \in 0..MaxFaults /\ lost' \subseteq Ids /\ todo' \subseteq Ids
    BY Bounds DEF IInv, TypeOK, LaunchedUnlinked, Fault
  <2>3. launch' \in [id: Ids \cup {0}, parent: Ids \cup {0},
                    step: {"none", "begun", "inserted", "spawned", "paired", "linked"}]
    BY DEF NoLaunch, LaunchedUnlinked
  <2> QED
    BY <2>1, <2>2, <2>3 DEF IInv, TypeOK, NoLaunch, LaunchedUnlinked
<1>2. LaunchHasId'
  BY DEF IInv, LaunchHasId, NoLaunch, LaunchedUnlinked
<1>3. ReplayAlone'
  BY DEF IInv, ReplayAlone, LaunchedUnlinked
<1>4. ReplayPending'
  BY DEF IInv, ReplayAlone, ReplayPending, NoLaunch, LaunchedUnlinked
<1>5. ReplayedIsOver'
  BY Bounds DEF IInv, TypeOK, ReplayedIsOver, NoLaunch, LaunchedUnlinked
<1> QED
  BY <1>1, <1>2, <1>3, <1>4, <1>5 DEF IInv

\* A rollback fails the launch's row and its parent's, or leaves them.
LEMMA PairRollsBackStep ==
    ASSUME IInv, PairRollsBack
    PROVE  IInv'
<1>1. TypeOK'
  <2>1. launch' \in [id: Ids \cup {0}, parent: Ids \cup {0},
                    step: {"none", "begun", "inserted", "spawned", "paired", "linked"}]
    BY DEF IInv, NoLaunch, PairRollsBack
  <2>2. card' \in [done: BOOLEAN, block: Ids \cup {0}, pid: BOOLEAN]
    <3>1. card' = card \/ card' = Cleared
      BY DEF PairRollsBack, ClearBlock
    <3> QED
      BY <3>1, ClearedType DEF IInv, TypeOK
  <2>3. /\ row' \in [Ids -> Terminal \cup {"none", "running"}]
        /\ job' \in [Ids -> {"none", "core", "reattached"}]
        /\ parent' \in [Ids -> Ids \cup {0}]
    <3>1. row \in [Ids -> Terminal \cup {"none", "running"}]
      BY DEF IInv, TypeOK
    <3>2. PICK open \in SUBSET ({launch.id, launch.parent} \ {0}) :
             row' = [d \in Ids |->
                       IF d \in ({launch.id, launch.parent} \ {0}) \ open
                       THEN "failed" ELSE row[d]]
      BY DEF PairRollsBack
    <3>3. row' \in [Ids -> Terminal \cup {"none", "running"}]
      BY <3>1, <3>2 DEF Terminal
    <3>4. job' \in [Ids -> {"none", "core", "reattached"}]
      BY DEF IInv, TypeOK, PairRollsBack
    <3>5. parent' \in [Ids -> Ids \cup {0}]
      BY DEF IInv, TypeOK, PairRollsBack
    <3> QED
      BY <3>3, <3>4, <3>5
  <2>4. unseen' \in BOOLEAN
    BY DEF IInv, TypeOK, PairRollsBack, ClearBlock
  <2>5. /\ faults' \in 0..MaxFaults /\ todo' \subseteq Ids
        /\ launch.id \in Ids /\ launch.parent \in Ids \cup {0}
    BY Bounds DEF IInv, TypeOK, LaunchHasId, PairRollsBack, Fault
  <2>6. excused' \subseteq Ids /\ lost' \subseteq Ids
    BY <2>5 DEF IInv, TypeOK, PairRollsBack
  <2> QED
    BY Bounds, <2>1, <2>2, <2>3, <2>4, <2>5, <2>6 DEF IInv, TypeOK, PairRollsBack
<1>2. LaunchHasId'
  BY DEF IInv, LaunchHasId, NoLaunch, PairRollsBack
<1>3. ReplayAlone'
  BY DEF IInv, ReplayAlone, PairRollsBack
<1>4. ReplayPending'
  BY DEF IInv, ReplayAlone, ReplayPending, NoLaunch, PairRollsBack
<1>5. ReplayedIsOver'
  BY Bounds DEF IInv, TypeOK, ReplayedIsOver, NoLaunch, PairRollsBack
<1> QED
  BY <1>1, <1>2, <1>3, <1>4, <1>5 DEF IInv

\* The end of a job touches its own row at most, and may leave it.
LEMMA JobOverRow ==
    ASSUME TypeOK, NEW d \in Ids, NEW status, JobOver(d, status)
    PROVE  /\ job' = [job EXCEPT ![d] = "none"]
           /\ row' \in {row, [row EXCEPT ![d] = status]}
           /\ \A e \in Ids : row'[e] = row[e] \/ (e = d /\ row'[e] = status)
BY DEF JobOver, TypeOK

\* A job that ends closes its own row.
LEMMA JobEndsStep ==
    ASSUME IInv, NEW d \in Ids, JobEnds(d)
    PROVE  IInv'
<1>1. TypeOK'
  <2>1. launch' \in [id: Ids \cup {0}, parent: Ids \cup {0},
                    step: {"none", "begun", "inserted", "spawned", "paired", "linked"}]
    BY DEF IInv, TypeOK, JobEnds
  <2>2. card' \in [done: BOOLEAN, block: Ids \cup {0}, pid: BOOLEAN]
    <3>1. card' = card \/ card' = Cleared
      BY DEF JobEnds, OnComplete, ClearBlock
    <3> QED
      BY <3>1, ClearedType DEF IInv, TypeOK
  <2>3. /\ row' \in [Ids -> Terminal \cup {"none", "running"}]
        /\ job' \in [Ids -> {"none", "core", "reattached"}]
        /\ parent' \in [Ids -> Ids \cup {0}]
    BY DEF IInv, TypeOK, Terminal, JobEnds, JobOver
  <2>4. unseen' \in BOOLEAN
    BY DEF IInv, TypeOK, JobEnds, OnComplete, ClearBlock
  <2>5. faults' \in 0..MaxFaults /\ lost' \subseteq Ids
    BY Bounds DEF IInv, TypeOK, JobEnds, JobOver, Fault
  <2>6. handler' = handler /\ timers' \subseteq Ids
    BY DEF IInv, TypeOK, JobEnds, OnComplete
  <2>7. worker # "down"
    BY DEF IInv, TypeOK, JobEnds
  <2> QED
    BY <2>1, <2>2, <2>3, <2>4, <2>5, <2>6, <2>7 DEF IInv, TypeOK, JobEnds
<1>2. LaunchHasId'
  BY DEF IInv, LaunchHasId, JobEnds
<1>3. ReplayAlone'
  BY DEF IInv, ReplayAlone, JobEnds
<1>4. ReplayPending'
  BY DEF IInv, ReplayAlone, ReplayPending, JobEnds
<1>5. ReplayedIsOver'
  <2>1. /\ job[d] # "none" /\ job' = [job EXCEPT ![d] = "none"]
        /\ \A e \in Ids : e # d => row'[e] = row[e]
    BY JobOverRow DEF IInv, JobEnds
  <2> QED
    BY <2>1 DEF IInv, TypeOK, ReplayedIsOver, JobEnds
<1> QED
  BY <1>1, <1>2, <1>3, <1>4, <1>5 DEF IInv

\* A stop is taken up for a job, or for an open row.
LEMMA StopBeginsStep ==
    ASSUME IInv, NEW d \in Ids, StopBegins(d)
    PROVE  IInv'
<1>1. TypeOK'
  BY DEF IInv, TypeOK, StopBegins, history, Cleared
<1>2. LaunchHasId'
  BY DEF IInv, LaunchHasId, StopBegins, history
<1>3. ReplayAlone'
  BY DEF IInv, ReplayAlone, StopBegins, history
<1>4. ReplayPending'
  BY DEF IInv, ReplayPending, StopBegins, history
<1>5. ReplayedIsOver'
  BY DEF IInv, ReplayedIsOver, StopBegins, history
<1> QED
  BY <1>1, <1>2, <1>3, <1>4, <1>5 DEF IInv

\* A stop of a closed row is answered.
LEMMA StopAnsweredStep ==
    ASSUME IInv, NEW d \in Ids, StopAnswered(d)
    PROVE  IInv'
<1>1. TypeOK'
  BY DEF IInv, TypeOK, StopAnswered, memory, record, history
<1>2. LaunchHasId'
  BY DEF IInv, LaunchHasId, StopAnswered, memory
<1>3. ReplayAlone'
  BY DEF IInv, ReplayAlone, StopAnswered
<1>4. ReplayPending'
  BY DEF IInv, ReplayPending, StopAnswered
<1>5. ReplayedIsOver'
  BY DEF IInv, ReplayedIsOver, StopAnswered, memory, record, history
<1> QED
  BY <1>1, <1>2, <1>3, <1>4, <1>5 DEF IInv

\* A stop closes its row as completed ...
LEMMA StopEndsStep ==
    ASSUME IInv, NEW d \in Ids, StopEnds(d)
    PROVE  IInv'
<1>1. TypeOK'
  <2>1. card' \in [done: BOOLEAN, block: Ids \cup {0}, pid: BOOLEAN]
    <3>1. card' = card \/ card' = Cleared
      BY DEF StopEnds, OnComplete, ClearBlock
    <3> QED
      BY <3>1, ClearedType DEF IInv, TypeOK
  <2>2. /\ row' \in [Ids -> Terminal \cup {"none", "running"}]
        /\ job' \in [Ids -> {"none", "core", "reattached"}]
    BY DEF IInv, TypeOK, Terminal, StopEnds, JobOver
  <2>3. unseen' \in BOOLEAN /\ timers' \subseteq Ids /\ alive' \subseteq Ids
    BY DEF IInv, TypeOK, StopEnds, OnComplete, ClearBlock
  <2>4. faults' \in 0..MaxFaults /\ lost' \subseteq Ids
    BY Bounds DEF IInv, TypeOK, StopEnds, JobOver, Fault
  <2>5. /\ handler' \in [Ids -> {"none", "live", "row"}]
        /\ call' \in [Ids -> {"working", "http", "db", "queue", "told"}]
    BY DEF IInv, TypeOK, StopEnds
  <2>6. worker # "down"
    BY DEF IInv, TypeOK, StopEnds
  <2> QED
    BY <2>1, <2>2, <2>3, <2>4, <2>5, <2>6 DEF IInv, TypeOK, StopEnds
<1>2. LaunchHasId'
  BY DEF IInv, LaunchHasId, StopEnds
<1>3. ReplayAlone'
  BY DEF IInv, ReplayAlone, StopEnds
<1>a. /\ handler[d] # "none" /\ \A e \in Ids : e # d => row'[e] = row[e]
      /\ job' \in {job, [job EXCEPT ![d] = "none"]}
      /\ worker' = worker /\ owed' = owed /\ launch' = launch /\ todo' = todo
      /\ handler' = [handler EXCEPT ![d] = "none"]
  BY JobOverRow DEF IInv, TypeOK, StopEnds
<1>4. ReplayPending'
  BY <1>a DEF IInv, TypeOK, ReplayPending, ReplayAlone
<1>5. ReplayedIsOver'
  BY <1>a DEF IInv, TypeOK, ReplayedIsOver
<1> QED
  BY <1>1, <1>2, <1>3, <1>4, <1>5 DEF IInv

\* ... or fails and says so.
LEMMA StopFailsStep ==
    ASSUME IInv, NEW d \in Ids, StopFails(d)
    PROVE  IInv'
<1>1. TypeOK'
  BY Bounds DEF IInv, TypeOK, StopFails, Fault, record, history
<1>2. LaunchHasId'
  BY DEF IInv, LaunchHasId, StopFails
<1>3. ReplayAlone'
  BY DEF IInv, ReplayAlone, StopFails
<1>4. ReplayPending'
  BY DEF IInv, ReplayPending, StopFails, record, history
<1>5. ReplayedIsOver'
  BY DEF IInv, ReplayedIsOver, StopFails, record, history
<1> QED
  BY <1>1, <1>2, <1>3, <1>4, <1>5 DEF IInv

\* Steps of an agent: its report ...
LEMMA AgentReportsStep ==
    ASSUME IInv, NEW d \in Ids, AgentReports(d)
    PROVE  IInv'
<1>1. TypeOK'
  BY DEF IInv, TypeOK, AgentReports, AgentStep, memory, history
<1>2. LaunchHasId'
  BY DEF IInv, LaunchHasId, AgentReports, AgentStep, memory
<1>3. ReplayAlone'
  BY DEF IInv, ReplayAlone, AgentReports, AgentStep, memory
<1>4. ReplayPending'
  BY DEF IInv, ReplayPending, AgentReports, AgentStep, memory, history
<1>5. ReplayedIsOver'
  BY DEF IInv, ReplayedIsOver, AgentReports, AgentStep, memory, history
<1> QED
  BY <1>1, <1>2, <1>3, <1>4, <1>5 DEF IInv

\* ... that does not reach the worker ...
LEMMA StopUnreachableStep ==
    ASSUME IInv, NEW d \in Ids, StopUnreachable(d)
    PROVE  IInv'
<1>1. TypeOK'
  BY Bounds DEF IInv, TypeOK, StopUnreachable, Fault, AgentStep, memory, history
<1>2. LaunchHasId'
  BY DEF IInv, LaunchHasId, StopUnreachable, AgentStep, memory
<1>3. ReplayAlone'
  BY DEF IInv, ReplayAlone, StopUnreachable, AgentStep, memory
<1>4. ReplayPending'
  BY DEF IInv, ReplayPending, StopUnreachable, AgentStep, memory, history
<1>5. ReplayedIsOver'
  BY DEF IInv, ReplayedIsOver, StopUnreachable, AgentStep, memory, history
<1> QED
  BY <1>1, <1>2, <1>3, <1>4, <1>5 DEF IInv

\* ... goes to the row ...
LEMMA DbWrittenStep ==
    ASSUME IInv, NEW d \in Ids, DbWritten(d)
    PROVE  IInv'
<1>1. TypeOK'
  BY DEF IInv, TypeOK, Terminal, DbWritten, AgentStep, memory, history
<1>2. LaunchHasId'
  BY DEF IInv, LaunchHasId, DbWritten, AgentStep, memory
<1>3. ReplayAlone'
  BY DEF IInv, ReplayAlone, DbWritten, AgentStep, memory
<1>4. ReplayPending'
  BY DEF IInv, ReplayPending, DbWritten, AgentStep, memory, history
<1>5. ReplayedIsOver'
  BY DEF IInv, ReplayedIsOver, DbWritten, AgentStep, memory, history
<1> QED
  BY <1>1, <1>2, <1>3, <1>4, <1>5 DEF IInv

\* ... or is refused there ...
LEMMA DbRefusedStep ==
    ASSUME IInv, NEW d \in Ids, DbRefused(d)
    PROVE  IInv'
<1>1. TypeOK'
  BY Bounds DEF IInv, TypeOK, DbRefused, AgentStep, Fault, memory, history
<1>2. LaunchHasId'
  BY DEF IInv, LaunchHasId, DbRefused, AgentStep, memory
<1>3. ReplayAlone'
  BY DEF IInv, ReplayAlone, DbRefused, AgentStep, memory
<1>4. ReplayPending'
  BY DEF IInv, ReplayPending, DbRefused, AgentStep, memory, history
<1>5. ReplayedIsOver'
  BY DEF IInv, ReplayedIsOver, DbRefused, AgentStep, memory, history
<1> QED
  BY <1>1, <1>2, <1>3, <1>4, <1>5 DEF IInv

\* ... and goes to a queue file.
LEMMA QueuedStep ==
    ASSUME IInv, NEW d \in Ids, Queued(d)
    PROVE  IInv'
<1>1. TypeOK'
  BY DEF IInv, TypeOK, Queued, AgentStep, memory, history
<1>2. LaunchHasId'
  BY DEF IInv, LaunchHasId, Queued, AgentStep, memory
<1>3. ReplayAlone'
  BY DEF IInv, ReplayAlone, Queued, AgentStep, memory
<1>4. ReplayPending'
  BY DEF IInv, ReplayPending, Queued, AgentStep, memory, history
<1>5. ReplayedIsOver'
  BY DEF IInv, ReplayedIsOver, Queued, AgentStep, memory, history
<1> QED
  BY <1>1, <1>2, <1>3, <1>4, <1>5 DEF IInv

\* The death of an agent.
LEMMA AgentDiesStep ==
    ASSUME IInv, NEW d \in Ids, AgentDies(d)
    PROVE  IInv'
<1>1. TypeOK'
  BY DEF IInv, TypeOK, AgentDies, memory, record, history
<1>2. LaunchHasId'
  BY DEF IInv, LaunchHasId, AgentDies, memory
<1>3. ReplayAlone'
  BY DEF IInv, ReplayAlone, AgentDies, memory
<1>4. ReplayPending'
  BY DEF IInv, ReplayPending, AgentDies, memory, record, history
<1>5. ReplayedIsOver'
  BY DEF IInv, ReplayedIsOver, AgentDies, memory, record, history
<1> QED
  BY <1>1, <1>2, <1>3, <1>4, <1>5 DEF IInv

\* A worker that ends forgets its jobs ...
LEMMA CrashStep ==
    ASSUME IInv, Crash
    PROVE  IInv'
<1>1. TypeOK'
  BY Bounds DEF IInv, TypeOK, NoLaunch, Crash, Fault, Forget, history
<1>2. LaunchHasId'
  BY DEF IInv, LaunchHasId, NoLaunch, Crash, Forget
<1>3. ReplayAlone'
  BY DEF IInv, ReplayAlone, Crash, Forget
<1>4. ReplayPending'
  BY DEF IInv, ReplayPending, Crash, Forget
<1>5. ReplayedIsOver'
  BY DEF IInv, ReplayedIsOver, Crash, Forget
<1> QED
  BY <1>1, <1>2, <1>3, <1>4, <1>5 DEF IInv

\* ... and an orderly one closes their rows; no boot pass is under way afterwards.
LEMMA ShutdownStep ==
    ASSUME IInv, Shutdown
    PROVE  IInv'
<1>1. TypeOK'
  <2>1. launch' \in [id: Ids \cup {0}, parent: Ids \cup {0},
                    step: {"none", "begun", "inserted", "spawned", "paired", "linked"}]
    BY DEF IInv, NoLaunch, Shutdown, Forget
  <2>2. card' \in [done: BOOLEAN, block: Ids \cup {0}, pid: BOOLEAN]
    BY DEF IInv, TypeOK, Shutdown, Forget, ClearBlock, Cleared
  <2>3. /\ row' \in [Ids -> Terminal \cup {"none", "running"}]
        /\ job' \in [Ids -> {"none", "core", "reattached"}]
        /\ parent' \in [Ids -> Ids \cup {0}]
    BY DEF IInv, TypeOK, Terminal, Shutdown, Forget
  <2>4. unseen' \in BOOLEAN
    BY DEF IInv, TypeOK, Shutdown, Forget, ClearBlock
  <2> QED
    BY Bounds, <2>1, <2>2, <2>3, <2>4 DEF IInv, TypeOK, Shutdown, Fault, Forget, history
<1>2. LaunchHasId'
  BY DEF IInv, LaunchHasId, NoLaunch, Shutdown, Forget
<1>3. ReplayAlone'
  BY DEF IInv, ReplayAlone, Shutdown, Forget
<1>4. ReplayPending'
  BY DEF IInv, ReplayPending, Shutdown, Forget
<1>5. ReplayedIsOver'
  BY DEF IInv, ReplayedIsOver, Shutdown, Forget
<1> QED
  BY <1>1, <1>2, <1>3, <1>4, <1>5 DEF IInv

\* A boot replays first, and what it owes is in its work list.
LEMMA BootBeginsStep ==
    ASSUME IInv, BootBegins
    PROVE  IInv'
<1>1. TypeOK'
  BY DEF IInv, TypeOK, Phases, BootBegins, Enter, Worklist, BootOrder, Open
<1>2. LaunchHasId'
  BY DEF IInv, LaunchHasId, BootBegins, BootOrder, Open
<1>3. ReplayAlone'
  BY DEF IInv, TypeOK, ReplayAlone, BootBegins, BootOrder, Open
<1>4. ReplayPending'
  BY DEF IInv, ReplayPending, BootBegins, Enter, Worklist, BootOrder, Open
<1>5. ReplayedIsOver'
  BY DEF IInv, ReplayedIsOver, BootBegins, Enter, BootOrder, Open
<1> QED
  BY <1>1, <1>2, <1>3, <1>4, <1>5 DEF IInv

\* A pass is over when its work list is empty; the open rows are read after the replay.
LEMMA PassOverStep ==
    ASSUME IInv, PassOver
    PROVE  IInv'
<1>1. TypeOK'
  BY DEF IInv, TypeOK, Phases, PassOver, Enter, Worklist, BootOrder, Open, record,
     history
<1>2. LaunchHasId'
  BY DEF IInv, LaunchHasId, PassOver, BootOrder, Open
<1>3. ReplayAlone'
  BY DEF IInv, ReplayAlone, PassOver, Enter, BootOrder, Open
<1>4. ReplayPending'
  BY DEF IInv, ReplayPending, PassOver, Enter, BootOrder, Open
<1>5. ReplayedIsOver'
  BY Bounds DEF IInv, TypeOK, ReplayPending, ReplayAlone, ReplayedIsOver, NoLaunch,
     PassOver, Enter, Worklist, BootOrder, Open, record, history
<1> QED
  BY <1>1, <1>2, <1>3, <1>4, <1>5 DEF IInv

\* A replayed report closes its row.
LEMMA ReplayStep ==
    ASSUME IInv, NEW d \in Ids, Replay(d)
    PROVE  IInv'
<1>1. TypeOK'
  BY DEF IInv, TypeOK, Terminal, Replay, Visit, Visited, history
<1>2. LaunchHasId'
  BY DEF IInv, LaunchHasId, Replay, Visit
<1>3. ReplayAlone'
  BY DEF IInv, ReplayAlone, Replay, Visit
<1>4. ReplayPending'
  BY DEF IInv, TypeOK, ReplayPending, Replay, Visit, Visited, history
<1>5. ReplayedIsOver'
  BY DEF IInv, ReplayedIsOver, Replay, Visit
<1> QED
  BY <1>1, <1>2, <1>3, <1>4, <1>5 DEF IInv

\* A report that cannot be replayed is no longer owed.
LEMMA ReplayFailsStep ==
    ASSUME IInv, NEW d \in Ids, ReplayFails(d)
    PROVE  IInv'
<1>1. TypeOK'
  BY DEF IInv, TypeOK, ReplayFails, Visit, Visited, record
<1>2. LaunchHasId'
  BY DEF IInv, LaunchHasId, ReplayFails, Visit
<1>3. ReplayAlone'
  BY DEF IInv, ReplayAlone, ReplayFails, Visit
<1>4. ReplayPending'
  BY DEF IInv, ReplayPending, ReplayFails, Visit, Visited, record
<1>5. ReplayedIsOver'
  BY DEF IInv, ReplayedIsOver, ReplayFails, Visit
<1> QED
  BY <1>1, <1>2, <1>3, <1>4, <1>5 DEF IInv

\* Reattaching concerns open rows ...
LEMMA ReattachStep ==
    ASSUME IInv, NEW d \in Ids, Reattach(d)
    PROVE  IInv'
<1>1. TypeOK'
  BY DEF IInv, TypeOK, Terminal, Reattach, Visit, Visited, history
<1>2. LaunchHasId'
  BY DEF IInv, LaunchHasId, Reattach, Visit
<1>3. ReplayAlone'
  BY DEF IInv, ReplayAlone, Reattach, Visit
<1>4. ReplayPending'
  BY DEF IInv, ReplayPending, Reattach, Visit
<1>5. ReplayedIsOver'
  BY DEF IInv, TypeOK, ReplayedIsOver, Reattach, Visit, Visited, history
<1> QED
  BY <1>1, <1>2, <1>3, <1>4, <1>5 DEF IInv

\* ... as resuming does ...
LEMMA AutoResumeStep ==
    ASSUME IInv, NEW d \in Ids, AutoResume(d)
    PROVE  IInv'
<1>1. TypeOK'
  BY NextType DEF IInv, TypeOK, AutoResume, Visit, Resumable, record, history, ExcuseNext
<1>2. LaunchHasId'
  BY NextType DEF IInv, LaunchHasId, AutoResume, Visit, Resumable
<1>3. ReplayAlone'
  BY DEF IInv, ReplayAlone, AutoResume, Visit, Resumable
<1>4. ReplayPending'
  BY NextType DEF IInv, ReplayPending, AutoResume, Visit, Resumable
<1>5. ReplayedIsOver'
  BY NextType DEF IInv, ReplayedIsOver, AutoResume, Visit, Resumable, record
<1> QED
  BY <1>1, <1>2, <1>3, <1>4, <1>5 DEF IInv

\* ... and giving up.
LEMMA OrphanedStep ==
    ASSUME IInv, NEW d \in Ids, Orphaned(d)
    PROVE  IInv'
<1>1. TypeOK'
  BY DEF IInv, TypeOK, Terminal, Orphaned, Visit, Visited, history
<1>2. LaunchHasId'
  BY DEF IInv, LaunchHasId, Orphaned, Visit
<1>3. ReplayAlone'
  BY DEF IInv, ReplayAlone, Orphaned, Visit
<1>4. ReplayPending'
  BY DEF IInv, ReplayPending, Orphaned, Visit
<1>5. ReplayedIsOver'
  BY DEF IInv, ReplayedIsOver, Orphaned, Visit, Visited, history
<1> QED
  BY <1>1, <1>2, <1>3, <1>4, <1>5 DEF IInv

\* ... which may fail, for one row ...
LEMMA ResolveFailsStep ==
    ASSUME IInv, NEW d \in Ids, ResolveFails(d)
    PROVE  IInv'
<1>1. TypeOK'
  BY Bounds DEF IInv, TypeOK, ResolveFails, Visit, Visited, Fault, record
<1>2. LaunchHasId'
  BY DEF IInv, LaunchHasId, ResolveFails, Visit
<1>3. ReplayAlone'
  BY DEF IInv, ReplayAlone, ResolveFails, Visit
<1>4. ReplayPending'
  BY DEF IInv, ReplayPending, ResolveFails, Visit
<1>5. ReplayedIsOver'
  BY DEF IInv, ReplayedIsOver, ResolveFails, Visit, Visited, record
<1> QED
  BY <1>1, <1>2, <1>3, <1>4, <1>5 DEF IInv

\* ... or for all: the replay is over all the same.
LEMMA ReattachFailsStep ==
    ASSUME IInv, ReattachFails
    PROVE  IInv'
<1>0. worker = "replay" /\ worker' = "reap" /\ todo = {} /\ todo' \subseteq Ids
  BY DEF IInv, TypeOK, ReattachFails, Enter, Worklist
<1>1. TypeOK'
  <2>1. faults' \in 0..MaxFaults /\ lost' \subseteq Ids /\ excused' \subseteq Ids
    BY Bounds DEF IInv, TypeOK, ReattachFails, Fault, Open
  <2>2. worker' \in Phases
    BY <1>0 DEF Phases, BootOrder
  <2> QED
    BY <1>0, <2>1, <2>2 DEF IInv, TypeOK, ReattachFails, record
<1>2. LaunchHasId'
  BY DEF IInv, LaunchHasId, ReattachFails
<1>3. ReplayAlone'
  BY <1>0 DEF ReplayAlone
<1>4. ReplayPending'
  BY <1>0 DEF ReplayPending
<1>5. ReplayedIsOver'
  BY <1>0, Bounds DEF IInv, TypeOK, ReplayPending, ReplayAlone, ReplayedIsOver, NoLaunch,
     ReattachFails, record
<1> QED
  BY <1>1, <1>2, <1>3, <1>4, <1>5 DEF IInv

\* The reaper kills processes only.
LEMMA ReapStep ==
    ASSUME IInv, NEW d \in Ids, Reap(d)
    PROVE  IInv'
<1>1. TypeOK'
  BY DEF IInv, TypeOK, Reap, Visit, Visited, record, history
<1>2. LaunchHasId'
  BY DEF IInv, LaunchHasId, Reap, Visit
<1>3. ReplayAlone'
  BY DEF IInv, ReplayAlone, Reap, Visit
<1>4. ReplayPending'
  BY DEF IInv, ReplayPending, Reap, Visit
<1>5. ReplayedIsOver'
  BY DEF IInv, ReplayedIsOver, Reap, Visit, record, history
<1> QED
  BY <1>1, <1>2, <1>3, <1>4, <1>5 DEF IInv

\* A row it cannot read is excused.
LEMMA ReapSkipsStep ==
    ASSUME IInv, NEW d \in Ids, ReapSkips(d)
    PROVE  IInv'
<1>1. TypeOK'
  BY Bounds DEF IInv, TypeOK, ReapSkips, Visit, Visited, Fault, record
<1>2. LaunchHasId'
  BY DEF IInv, LaunchHasId, ReapSkips, Visit
<1>3. ReplayAlone'
  BY DEF IInv, ReplayAlone, ReapSkips, Visit
<1>4. ReplayPending'
  BY DEF IInv, ReplayPending, ReapSkips, Visit
<1>5. ReplayedIsOver'
  BY DEF IInv, ReplayedIsOver, ReapSkips, Visit, record
<1> QED
  BY <1>1, <1>2, <1>3, <1>4, <1>5 DEF IInv

\* The last passes touch the card ...
LEMMA RehydrateStep ==
    ASSUME IInv, Rehydrate
    PROVE  IInv'
<1>1. TypeOK'
  <2>1. launch' \in [id: Ids \cup {0}, parent: Ids \cup {0},
                    step: {"none", "begun", "inserted", "spawned", "paired", "linked"}]
    BY DEF IInv, TypeOK, Rehydrate, BootOrder
  <2>2. card' \in [done: BOOLEAN, block: Ids \cup {0}, pid: BOOLEAN]
    <3>1. card' = card \/ card' = Cleared
      BY DEF Rehydrate, ClearBlock
    <3> QED
      BY <3>1, ClearedType DEF IInv, TypeOK
  <2>3. /\ row' \in [Ids -> Terminal \cup {"none", "running"}]
        /\ job' \in [Ids -> {"none", "core", "reattached"}]
        /\ parent' \in [Ids -> Ids \cup {0}]
    BY DEF IInv, TypeOK, Rehydrate, BootOrder
  <2>4. unseen' \in BOOLEAN
    BY DEF IInv, TypeOK, Rehydrate, BootOrder, ClearBlock
  <2> QED
    BY <2>1, <2>2, <2>3, <2>4 DEF IInv, TypeOK, Phases, Rehydrate, Enter, Worklist,
       BootOrder, history
<1>2. LaunchHasId'
  BY DEF IInv, LaunchHasId, Rehydrate, BootOrder
<1>3. ReplayAlone'
  BY DEF IInv, ReplayAlone, Rehydrate, Enter, BootOrder
<1>4. ReplayPending'
  BY DEF IInv, ReplayPending, Rehydrate, Enter, BootOrder
<1>5. ReplayedIsOver'
  BY DEF IInv, ReplayedIsOver, Rehydrate, Enter, BootOrder, history
<1> QED
  BY <1>1, <1>2, <1>3, <1>4, <1>5 DEF IInv

\* ... and the timers.
LEMMA ArmTimersStep ==
    ASSUME IInv, ArmTimers
    PROVE  IInv'
<1>1. TypeOK'
  <2>1. launch' \in [id: Ids \cup {0}, parent: Ids \cup {0},
                    step: {"none", "begun", "inserted", "spawned", "paired", "linked"}]
    BY DEF IInv, TypeOK, ArmTimers, BootOrder, Open, Live
  <2>2. card' \in [done: BOOLEAN, block: Ids \cup {0}, pid: BOOLEAN]
    BY DEF IInv, TypeOK, ArmTimers, BootOrder, Open, Live, record
  <2>3. /\ row' \in [Ids -> Terminal \cup {"none", "running"}]
        /\ job' \in [Ids -> {"none", "core", "reattached"}]
        /\ parent' \in [Ids -> Ids \cup {0}]
    BY DEF IInv, TypeOK, ArmTimers, BootOrder, Open, Live, record
  <2>4. unseen' \in BOOLEAN
    BY DEF IInv, TypeOK, ArmTimers, BootOrder, Open, Live, record
  <2> QED
    BY <2>1, <2>2, <2>3, <2>4 DEF IInv, TypeOK, Phases, ArmTimers, Enter, Worklist,
       BootOrder, Open, Live, record, history
<1>2. LaunchHasId'
  BY DEF IInv, LaunchHasId, ArmTimers, BootOrder, Open, Live
<1>3. ReplayAlone'
  BY DEF IInv, ReplayAlone, ArmTimers, Enter, BootOrder, Open, Live
<1>4. ReplayPending'
  BY DEF IInv, ReplayPending, ArmTimers, Enter, BootOrder, Open, Live
<1>5. ReplayedIsOver'
  BY DEF IInv, ReplayedIsOver, ArmTimers, Enter, BootOrder, Open, Live, record, history
<1> QED
  BY <1>1, <1>2, <1>3, <1>4, <1>5 DEF IInv

\* The reaper of the tick.
LEMMA CronReapStep ==
    ASSUME IInv, NEW d \in Ids, CronReap(d)
    PROVE  IInv'
<1>1. TypeOK'
  BY DEF IInv, TypeOK, CronReap, memory, record, history
<1>2. LaunchHasId'
  BY DEF IInv, LaunchHasId, CronReap, memory
<1>3. ReplayAlone'
  BY DEF IInv, ReplayAlone, CronReap
<1>4. ReplayPending'
  BY DEF IInv, ReplayPending, CronReap
<1>5. ReplayedIsOver'
  BY DEF IInv, ReplayedIsOver, CronReap, memory, record, history
<1> QED
  BY <1>1, <1>2, <1>3, <1>4, <1>5 DEF IInv

\* A timer clears the block.
LEMMA TtlExpiresStep ==
    ASSUME IInv, NEW d \in Ids, TtlExpires(d)
    PROVE  IInv'
<1>1. TypeOK'
  BY DEF IInv, TypeOK, TtlExpires, ClearBlock, Cleared, history
<1>2. LaunchHasId'
  BY DEF IInv, LaunchHasId, TtlExpires
<1>3. ReplayAlone'
  BY DEF IInv, ReplayAlone, TtlExpires
<1>4. ReplayPending'
  BY DEF IInv, ReplayPending, TtlExpires, history
<1>5. ReplayedIsOver'
  BY DEF IInv, ReplayedIsOver, TtlExpires, history
<1> QED
  BY <1>1, <1>2, <1>3, <1>4, <1>5 DEF IInv

\* Reconcile clears a dead block.
LEMMA ReconcileStep ==
    ASSUME IInv, Reconcile
    PROVE  IInv'
<1>1. TypeOK'
  BY DEF IInv, TypeOK, Reconcile, Cleared, memory, history
<1>2. LaunchHasId'
  BY DEF IInv, LaunchHasId, Reconcile, memory
<1>3. ReplayAlone'
  BY DEF IInv, ReplayAlone, Reconcile
<1>4. ReplayPending'
  BY DEF IInv, ReplayPending, Reconcile
<1>5. ReplayedIsOver'
  BY DEF IInv, ReplayedIsOver, Reconcile, memory, history
<1> QED
  BY <1>1, <1>2, <1>3, <1>4, <1>5 DEF IInv

-----------------------------------------------------------------------------
(* The theorems. *)

LEMMA InitInv ==
    ASSUME Init
    PROVE  IInv
<1>1. launch = NoLaunch /\ worker = "up" /\ owed = {}
  BY DEF Init
<1>2. TypeOK
  <2>1. launch \in [id: Ids \cup {0}, parent: Ids \cup {0},
                   step: {"none", "begun", "inserted", "spawned", "paired", "linked"}]
    BY DEF Init, NoLaunch
  <2>2. card \in [done: BOOLEAN, block: Ids \cup {0}, pid: BOOLEAN]
    BY DEF Init
  <2>3. unseen \in BOOLEAN
    BY DEF Init
  <2>4. worker \in Phases
    BY DEF Init, Phases, BootOrder
  <2> QED
    BY Bounds, <1>1, <2>1, <2>2, <2>3, <2>4 DEF Init, TypeOK
<1> QED
  BY <1>1, <1>2 DEF IInv, LaunchHasId, ReplayAlone, ReplayPending, ReplayedIsOver,
     NoLaunch

LEMMA NextInv ==
    ASSUME IInv, [Next]_vars
    PROVE  IInv'
<1>1. CASE RowInserted
  BY <1>1, RowInsertedStep
<1>2. CASE Spawned
  BY <1>2, SpawnedStep
<1>3. CASE CardPaired
  BY <1>3, CardPairedStep
<1>4. CASE RowPaired
  BY <1>4, RowPairedStep
<1>5. CASE Launched
  BY <1>5, LaunchedStep
<1>6. CASE PairRollsBack
  BY <1>6, PairRollsBackStep
<1>7. CASE Crash
  BY <1>7, CrashStep
<1>8. CASE Shutdown
  BY <1>8, ShutdownStep
<1>9. CASE BootBegins
  BY <1>9, BootBeginsStep
<1>10. CASE PassOver
  BY <1>10, PassOverStep
<1>11. CASE Rehydrate
  BY <1>11, RehydrateStep
<1>12. CASE ArmTimers
  BY <1>12, ArmTimersStep
<1>13. CASE Reconcile
  BY <1>13, ReconcileStep
<1>14. ASSUME NEW guarded \in BOOLEAN, PickerStamps(guarded)
       PROVE  IInv'
  BY <1>14, PickerStampsStep
<1>15. ASSUME NEW d \in Ids, AgentNext(d)
       PROVE  IInv'
  BY <1>15, AgentReportsStep, StopUnreachableStep, DbWrittenStep, DbRefusedStep,
     QueuedStep, AgentDiesStep DEF AgentNext
<1>16. ASSUME NEW d \in Ids, BootNext(d)
       PROVE  IInv'
  BY <1>16, ReplayStep, ReattachStep, AutoResumeStep, OrphanedStep, ReapStep DEF
     BootNext
<1>17. ASSUME NEW d \in Ids, WorkerNext(d)
       PROVE  IInv'
  BY <1>17, JobEndsStep, StopBeginsStep, StopAnsweredStep, StopEndsStep,
     CronReapStep, TtlExpiresStep DEF WorkerNext
<1>18. ASSUME NEW d \in Ids, Faulty(d)
       PROVE  IInv'
  BY <1>18, ReplayFailsStep, ReapSkipsStep, ResolveFailsStep, StopFailsStep DEF Faulty
<1>19. CASE UNCHANGED vars
  BY <1>19 DEF vars, IInv, TypeOK, LaunchHasId, ReplayAlone, ReplayPending,
     ReplayedIsOver
<1>20. CASE LaunchedUnlinked
  BY <1>20, LaunchedUnlinkedStep
<1>21. CASE ReattachFails
  BY <1>21, ReattachFailsStep
<1> QED
  BY <1>1, <1>2, <1>3, <1>4, <1>5, <1>6, <1>7, <1>8, <1>9, <1>10, <1>11, <1>12,
     <1>13, <1>14, <1>15, <1>16, <1>17, <1>18, <1>19, <1>20, <1>21
     DEF Next, Progress, LaunchNext, Boots

\* IInv holds in every reachable state: the queue is replayed before anything
\* else the boot does, and what it closed nobody has in hand afterwards.
THEOREM Invariance == Spec => []IInv
<1>1. Init => IInv
  BY InitInv
<1>2. IInv /\ [Next]_vars => IInv'
  BY NextInv
<1> QED
  BY <1>1, <1>2, PTL DEF Spec

\* The variables keep their types, and a worker that is down holds nothing.
THEOREM TypeCorrect == Spec => []TypeOK
<1>1. IInv => TypeOK
  BY DEF IInv
<1> QED
  BY <1>1, Invariance, PTL

\* A report that was queued when the worker booted is what its row says once
\* the boot has come to the reaper, and stays so.
THEOREM QueuedReportWinsSafe == Spec => []QueuedReportWins
<1>1. IInv => QueuedReportWins
  BY DEF IInv, ReplayedIsOver, QueuedReportWins
<1> QED
  BY <1>1, Invariance, PTL

-----------------------------------------------------------------------------
(***************************************************************************)
(* One agent at a time once a worker's boot is over.  Of the agents at work *)
(* (and not excused by a failed call to the database) three kinds differ by *)
(* what the database knows of them:                                         *)
(*   Linked   the row is open and carries the pid: the next picker tick and *)
(*            the next boot see the agent;                                  *)
(*   Loose    the row is open without the pid: the agent was spawned, the   *)
(*            worker has not paired it with its row yet or died before it;  *)
(*   Closed   the row is closed: a boot settled the row of a live agent, and*)
(*            only the reaper still finds it.                               *)
(* Two agents would need two of them; the parts of OneInv say when each     *)
(* kind may exist, and that the card's block and the launch name the one.   *)
(***************************************************************************)
Linked == {d \in AtWork \ excused : row[d] = "running" /\ d \in pidKnown}
Loose == {d \in AtWork \ excused : row[d] = "running" /\ d \notin pidKnown}
Closed == {d \in AtWork \ excused : row[d] # "running"}

\* A dispatch without a row has nothing else either.
FreshIsClean ==
    \A d \in Fresh : /\ d \notin pidKnown /\ d \notin alive
                     /\ job[d] = "none" /\ handler[d] = "none"

\* What each step of a launch has and has not done yet.
LaunchStage ==
    /\ launch.step # "none" => worker \in {"up", "reattach"}
    /\ launch.step = "none" => launch = NoLaunch
    /\ launch.step # "none" => /\ launch.parent \notin alive
                               /\ launch.parent # launch.id
    /\ launch.step = "begun" => launch.id \in Fresh
    /\ launch.step \notin {"none", "begun"} => launch.id \notin Fresh
    /\ launch.step \in {"begun", "inserted", "spawned", "paired"} => launch.id \notin pidKnown
    /\ launch.step = "inserted" => /\ row[launch.id] = "running" /\ launch.id \notin alive
                                   /\ job[launch.id] = "none" /\ handler[launch.id] = "none"
    /\ launch.step = "linked" => launch.id \in pidKnown
    /\ launch.step \in {"paired", "linked"} => card.block \in {0, launch.id}

\* The database knows of one agent at most ...
OneLinked == \A d, e \in Linked : d = e

\* ... which is the one being launched, when one is ...
LaunchFollows ==
    launch.step # "none" /\ launch.id \notin excused => Linked \subseteq {launch.id}

\* ... and the card's block, if any, names it (or an excused one).
BlockNames == \A d \in Linked : card.block \in {0, d} \cup excused

\* An unpaired agent lasts as long as its launch; one that a crash left is
\* still ahead of the reattach pass of the next boot.
LooseSeen ==
    /\ worker = "reattach" => Loose \ {launch.id} \subseteq todo
    /\ worker \in {"reap", "rehydrate", "arm"} => Loose = {}
    /\ worker = "up" => Loose \subseteq {launch.id}

\* An agent whose row a boot closed is reaped before the worker is up.
ClosedReaped ==
    /\ worker = "reap" => Closed \subseteq todo
    /\ worker \in {"rehydrate", "arm", "up"} => Closed = {}

\* The invariant behind OneAgentOnceUp, next to IInv.
OneInv == /\ FreshIsClean /\ LaunchStage /\ OneLinked /\ LaunchFollows
          /\ BlockNames /\ LooseSeen /\ ClosedReaped

\* The guard saw no live dispatch, or the new one is excused.
LEMMA PickerStampsOne ==
    ASSUME IInv, OneInv, NEW guarded \in BOOLEAN, PickerStamps(guarded)
    PROVE  OneInv'
<1>1. FreshIsClean'
  BY DEF OneInv, FreshIsClean, Fresh, PickerStamps, ExcuseNext, Live, HasLiveDispatch,
     Open, NextId
<1>2. LaunchStage'
  BY Bounds, NextType DEF IInv, TypeOK, OneInv, LaunchStage, NoLaunch, Fresh,
     FreshIsClean, PickerStamps, ExcuseNext, Live, HasLiveDispatch, Open, NextId
<1>3. OneLinked'
  BY DEF IInv, TypeOK, OneInv, OneLinked, Linked, AtWork, PickerStamps, ExcuseNext,
     Live, HasLiveDispatch, Open, NextId
<1>4. LaunchFollows'
  BY DEF IInv, TypeOK, OneInv, LaunchFollows, Linked, AtWork, PickerStamps, ExcuseNext,
     Live, HasLiveDispatch, Open, NextId
<1>5. BlockNames'
  BY DEF IInv, TypeOK, OneInv, BlockNames, Linked, AtWork, PickerStamps, ExcuseNext,
     Live, HasLiveDispatch, Open, NextId
<1>6. LooseSeen'
  BY Bounds, NextType DEF IInv, TypeOK, OneInv, LooseSeen, Loose, AtWork, LaunchStage,
     NoLaunch, FreshIsClean, Fresh, PickerStamps, ExcuseNext, Live, HasLiveDispatch,
     Open, NextId
<1>7. ClosedReaped'
  BY DEF IInv, TypeOK, OneInv, ClosedReaped, Closed, Loose, AtWork, LaunchStage,
     NoLaunch, FreshIsClean, Fresh, PickerStamps, ExcuseNext, Live, HasLiveDispatch,
     Open, NextId
<1> QED
  BY <1>1, <1>2, <1>3, <1>4, <1>5, <1>6, <1>7 DEF OneInv

\* The new row has no process yet.
LEMMA RowInsertedOne ==
    ASSUME IInv, OneInv, RowInserted
    PROVE  OneInv'
<1>1. FreshIsClean'
  BY DEF OneInv, FreshIsClean, Fresh, RowInserted, LaunchStep, history
<1>2. LaunchStage'
  BY DEF IInv, TypeOK, OneInv, LaunchStage, NoLaunch, Fresh, FreshIsClean, RowInserted,
     LaunchStep, history
<1>3. OneLinked'
  BY DEF IInv, TypeOK, OneInv, OneLinked, Linked, AtWork, LaunchStage, FreshIsClean,
     Fresh, NoLaunch, RowInserted, LaunchStep, history
<1>4. LaunchFollows'
  BY DEF OneInv, LaunchFollows, Linked, AtWork, RowInserted, LaunchStep, history
<1>5. BlockNames'
  BY DEF IInv, TypeOK, OneInv, BlockNames, Linked, AtWork, LaunchStage, FreshIsClean,
     Fresh, NoLaunch, Loose, Closed, RowInserted, LaunchStep, history
<1>6. LooseSeen'
  BY DEF IInv, TypeOK, OneInv, LooseSeen, Loose, AtWork, LaunchStage, NoLaunch,
     FreshIsClean, Fresh, RowInserted, LaunchStep, history
<1>7. ClosedReaped'
  BY DEF OneInv, ClosedReaped, Closed, AtWork, RowInserted, LaunchStep, history
<1> QED
  BY <1>1, <1>2, <1>3, <1>4, <1>5, <1>6, <1>7 DEF OneInv

\* The process is of an open row.
LEMMA SpawnedOne ==
    ASSUME IInv, OneInv, Spawned
    PROVE  OneInv'
<1>1. FreshIsClean'
  BY DEF IInv, TypeOK, OneInv, FreshIsClean, Fresh, LaunchStage, Spawned, LaunchStep, history
<1>2. LaunchStage'
  BY DEF IInv, TypeOK, OneInv, LaunchStage, NoLaunch, Fresh, FreshIsClean, Spawned,
     LaunchStep, history
<1>3. OneLinked'
  BY DEF IInv, TypeOK, OneInv, OneLinked, Linked, AtWork, LaunchStage, FreshIsClean,
     Fresh, NoLaunch, Spawned, LaunchStep, history
<1>4. LaunchFollows'
  BY DEF OneInv, LaunchFollows, Linked, AtWork, Spawned, LaunchStep, history
<1>5. BlockNames'
  BY DEF IInv, TypeOK, OneInv, BlockNames, Linked, AtWork, LaunchStage, FreshIsClean,
     Fresh, NoLaunch, Loose, Closed, Spawned, LaunchStep, history
<1>6. LooseSeen'
  BY DEF IInv, TypeOK, OneInv, LooseSeen, Loose, AtWork, LaunchStage, NoLaunch,
     FreshIsClean, Fresh, Spawned, LaunchStep, history
<1>7. ClosedReaped'
  BY DEF IInv, TypeOK, OneInv, ClosedReaped, Closed, Loose, AtWork, LaunchStage,
     NoLaunch, FreshIsClean, Fresh, Spawned, LaunchStep, history
<1> QED
  BY <1>1, <1>2, <1>3, <1>4, <1>5, <1>6, <1>7 DEF OneInv

\* The card names the launch.
LEMMA CardPairedOne ==
    ASSUME IInv, OneInv, CardPaired
    PROVE  OneInv'
<1>1. FreshIsClean'
  BY DEF OneInv, FreshIsClean, Fresh, CardPaired, LaunchStep, history
<1>2. LaunchStage'
  BY DEF IInv, TypeOK, OneInv, LaunchStage, NoLaunch, Fresh, FreshIsClean, CardPaired,
     LaunchStep, history
<1>3. OneLinked'
  BY DEF OneInv, OneLinked, Linked, AtWork, CardPaired, LaunchStep, history
<1>4. LaunchFollows'
  BY DEF OneInv, LaunchFollows, Linked, AtWork, CardPaired, LaunchStep, history
<1>5. BlockNames'
  BY Bounds, NextType DEF IInv, TypeOK, LaunchHasId, OneInv, BlockNames, Linked, AtWork,
     LaunchStage, LaunchFollows, FreshIsClean, Fresh, NoLaunch, LooseSeen, Loose,
     ClosedReaped, Closed, CardPaired, LaunchStep, history
<1>6. LooseSeen'
  BY DEF OneInv, LooseSeen, Loose, AtWork, CardPaired, LaunchStep, history
<1>7. ClosedReaped'
  BY DEF OneInv, ClosedReaped, Closed, AtWork, CardPaired, LaunchStep, history
<1> QED
  BY <1>1, <1>2, <1>3, <1>4, <1>5, <1>6, <1>7 DEF OneInv

\* Here a dispatch is linked: no other is, unless it is excused.
LEMMA RowPairedOne ==
    ASSUME IInv, OneInv, RowPaired
    PROVE  OneInv'
<1>1. FreshIsClean'
  BY DEF IInv, TypeOK, OneInv, FreshIsClean, Fresh, LaunchStage, RowPaired, LaunchStep, history
<1>2. LaunchStage'
  BY DEF IInv, TypeOK, OneInv, LaunchStage, NoLaunch, Fresh, FreshIsClean, RowPaired,
     LaunchStep, history
<1>3. OneLinked'
  BY Bounds, NextType DEF IInv, TypeOK, LaunchHasId, OneInv, OneLinked, Linked, AtWork,
     LaunchFollows, LaunchStage, FreshIsClean, Fresh, NoLaunch, RowPaired, LaunchStep, history
<1>4. LaunchFollows'
  BY DEF OneInv, LaunchFollows, Linked, AtWork, RowPaired, LaunchStep, history
<1>5. BlockNames'
  BY DEF IInv, TypeOK, OneInv, BlockNames, Linked, AtWork, LaunchStage, FreshIsClean,
     Fresh, NoLaunch, Loose, Closed, RowPaired, LaunchStep, history
<1>6. LooseSeen'
  BY DEF OneInv, LooseSeen, Loose, AtWork, RowPaired, LaunchStep, history
<1>7. ClosedReaped'
  BY DEF OneInv, ClosedReaped, Closed, AtWork, RowPaired, LaunchStep, history
<1> QED
  BY <1>1, <1>2, <1>3, <1>4, <1>5, <1>6, <1>7 DEF OneInv

\* A parent is dead.
LEMMA LaunchedOne ==
    ASSUME IInv, OneInv, Launched
    PROVE  OneInv'
<1>1. FreshIsClean'
  BY DEF IInv, TypeOK, OneInv, FreshIsClean, Fresh, Launched, history
<1>2. LaunchStage'
  BY DEF OneInv, LaunchStage, NoLaunch, Launched, history
<1>3. OneLinked'
  BY DEF IInv, TypeOK, OneInv, OneLinked, Linked, AtWork, Launched, history
<1>4. LaunchFollows'
  BY DEF IInv, TypeOK, OneInv, LaunchFollows, Linked, AtWork, LaunchStage, NoLaunch,
     Loose, Closed, FreshIsClean, Fresh, Launched, history
<1>5. BlockNames'
  BY DEF IInv, TypeOK, OneInv, BlockNames, Linked, AtWork, Launched, history
<1>6. LooseSeen'
  BY DEF IInv, TypeOK, OneInv, LooseSeen, Loose, AtWork, LaunchStage, NoLaunch,
     FreshIsClean, Fresh, Launched, history
<1>7. ClosedReaped'
  BY DEF IInv, TypeOK, OneInv, ClosedReaped, Closed, Loose, AtWork, LaunchStage,
     NoLaunch, FreshIsClean, Fresh, Launched, history
<1> QED
  BY <1>1, <1>2, <1>3, <1>4, <1>5, <1>6, <1>7 DEF OneInv

\* As when its row stays open.
LEMMA LaunchedUnlinkedOne ==
    ASSUME IInv, OneInv, LaunchedUnlinked
    PROVE  OneInv'
<1>1. FreshIsClean'
  BY DEF IInv, TypeOK, OneInv, FreshIsClean, Fresh, LaunchedUnlinked
<1>2. LaunchStage'
  BY DEF OneInv, LaunchStage, NoLaunch, LaunchedUnlinked
<1>3. OneLinked'
  BY DEF IInv, TypeOK, OneInv, OneLinked, Linked, AtWork, LaunchedUnlinked
<1>4. LaunchFollows'
  BY DEF LaunchFollows, NoLaunch, LaunchedUnlinked
<1>5. BlockNames'
  BY DEF IInv, TypeOK, OneInv, BlockNames, Linked, AtWork, LaunchedUnlinked
<1>6. LooseSeen'
  BY DEF IInv, TypeOK, OneInv, LooseSeen, Loose, AtWork, LaunchStage, NoLaunch,
     FreshIsClean, Fresh, LaunchedUnlinked
<1>7. ClosedReaped'
  BY DEF IInv, TypeOK, OneInv, ClosedReaped, Closed, Loose, AtWork, LaunchStage,
     NoLaunch, FreshIsClean, Fresh, LaunchedUnlinked
<1> QED
  BY <1>1, <1>2, <1>3, <1>4, <1>5, <1>6, <1>7 DEF OneInv

\* What is taken back is excused.
LEMMA PairRollsBackOne ==
    ASSUME IInv, OneInv, PairRollsBack
    PROVE  OneInv'
<1>0. card'.block \in {0, card.block}
  BY DEF IInv, TypeOK, PairRollsBack, ClearBlock, Cleared
<1>a. /\ launch' = NoLaunch /\ pidKnown' = pidKnown /\ alive' = alive /\ call' = call
      /\ worker' = worker /\ handler' = handler
      /\ excused' = excused \cup {launch.id}
      /\ todo' = todo \ {launch.parent}
  BY DEF PairRollsBack
<1>b. \A d \in Ids : row'[d] # row[d] => row'[d] = "failed" /\ d \in {launch.id, launch.parent}
  BY DEF IInv, TypeOK, PairRollsBack
<1>c. launch.parent \notin alive /\ launch.id \notin Fresh /\ launch.step \in {"spawned", "paired"}
  BY DEF OneInv, LaunchStage, PairRollsBack
<1>d. \A d \in AtWork' \ excused' : d \in AtWork \ excused /\ d # launch.id /\ row'[d] = row[d]
  BY <1>a, <1>b, <1>c DEF AtWork, IInv, TypeOK
<1>1. FreshIsClean'
  BY <1>a, <1>b DEF IInv, TypeOK, OneInv, FreshIsClean, Fresh, PairRollsBack
<1>2. LaunchStage'
  BY <1>a DEF LaunchStage, NoLaunch
<1>3. OneLinked'
  BY <1>a, <1>d DEF OneInv, OneLinked, Linked
<1>4. LaunchFollows'
  BY <1>a DEF LaunchFollows, NoLaunch
<1>5. BlockNames'
  BY <1>0, <1>a, <1>d DEF OneInv, BlockNames, Linked
<1>6. LooseSeen'
  BY <1>a, <1>c, <1>d DEF OneInv, LooseSeen, Loose, AtWork, NoLaunch
<1>7. ClosedReaped'
  BY <1>a, <1>c, <1>d DEF OneInv, ClosedReaped, Closed, AtWork
<1> QED
  BY <1>1, <1>2, <1>3, <1>4, <1>5, <1>6, <1>7 DEF OneInv

\* A job that ends has no process.
LEMMA JobEndsOne ==
    ASSUME IInv, OneInv, NEW d \in Ids, JobEnds(d)
    PROVE  OneInv'
<1>0. card'.block \in {0, card.block}
  BY DEF IInv, TypeOK, JobEnds, OnComplete, ClearBlock, Cleared
<1>a. /\ pidKnown' = pidKnown /\ alive' = alive /\ call' = call /\ worker' = worker
      /\ todo' = todo /\ handler' = handler /\ launch' = launch /\ excused' = excused
      /\ d \notin alive /\ job[d] # "none"
  BY DEF JobEnds
<1>b. /\ job' = [job EXCEPT ![d] = "none"]
      /\ \A e \in Ids : row'[e] = row[e] \/ (e = d /\ row'[e] \in {"completed", "failed"})
  BY JobOverRow DEF IInv, JobEnds
<1>c. AtWork' = AtWork /\ \A e \in AtWork : row'[e] = row[e]
  BY <1>a, <1>b DEF IInv, TypeOK, AtWork
<1>d. Linked' = Linked /\ Loose' = Loose /\ Closed' = Closed
  BY <1>a, <1>c DEF Linked, Loose, Closed
<1>e. Fresh' = Fresh
  BY <1>a, <1>b DEF OneInv, FreshIsClean, Fresh
<1>1. FreshIsClean'
  BY <1>a, <1>b, <1>e DEF IInv, TypeOK, OneInv, FreshIsClean, Fresh
<1>2. LaunchStage'
  BY <1>0, <1>a, <1>b, <1>e DEF IInv, TypeOK, OneInv, LaunchStage, Fresh, LaunchHasId
<1>3. OneLinked'
  BY <1>d DEF OneInv, OneLinked
<1>4. LaunchFollows'
  BY <1>a, <1>d DEF OneInv, LaunchFollows
<1>5. BlockNames'
  BY <1>0, <1>a, <1>d DEF OneInv, BlockNames
<1>6. LooseSeen'
  BY <1>a, <1>d DEF OneInv, LooseSeen
<1>7. ClosedReaped'
  BY <1>a, <1>d DEF OneInv, ClosedReaped
<1> QED
  BY <1>1, <1>2, <1>3, <1>4, <1>5, <1>6, <1>7 DEF OneInv

\* A stop clears the block.
LEMMA StopBeginsOne ==
    ASSUME IInv, OneInv, NEW d \in Ids, StopBegins(d)
    PROVE  OneInv'
<1>0. card'.block \in {0, card.block}
  BY DEF IInv, TypeOK, StopBegins, history, Cleared
<1>1. FreshIsClean'
  BY <1>0 DEF OneInv, FreshIsClean, Fresh, StopBegins, history
<1>2. LaunchStage'
  BY <1>0 DEF IInv, TypeOK, OneInv, LaunchStage, NoLaunch, Fresh, FreshIsClean,
     StopBegins, history
<1>3. OneLinked'
  BY <1>0 DEF OneInv, OneLinked, Linked, AtWork, StopBegins, history
<1>4. LaunchFollows'
  BY <1>0 DEF OneInv, LaunchFollows, Linked, AtWork, StopBegins, history
<1>5. BlockNames'
  BY <1>0 DEF OneInv, BlockNames, Linked, AtWork, StopBegins, history
<1>6. LooseSeen'
  BY <1>0 DEF OneInv, LooseSeen, Loose, AtWork, StopBegins, history
<1>7. ClosedReaped'
  BY <1>0 DEF OneInv, ClosedReaped, Closed, AtWork, StopBegins, history
<1> QED
  BY <1>1, <1>2, <1>3, <1>4, <1>5, <1>6, <1>7 DEF OneInv

\* An agent that is told is at work no more ...
LEMMA StopAnsweredOne ==
    ASSUME IInv, OneInv, NEW d \in Ids, StopAnswered(d)
    PROVE  OneInv'
<1>1. FreshIsClean'
  BY DEF OneInv, FreshIsClean, Fresh, StopAnswered, memory, record, history
<1>2. LaunchStage'
  BY DEF IInv, TypeOK, OneInv, LaunchStage, NoLaunch, Fresh, FreshIsClean, StopAnswered,
     memory, record, history
<1>3. OneLinked'
  BY DEF OneInv, OneLinked, Linked, AtWork, StopAnswered, memory, record, history
<1>4. LaunchFollows'
  BY DEF OneInv, LaunchFollows, Linked, AtWork, StopAnswered, memory, record, history
<1>5. BlockNames'
  BY DEF OneInv, BlockNames, Linked, AtWork, StopAnswered, memory, record, history
<1>6. LooseSeen'
  BY DEF OneInv, LooseSeen, Loose, AtWork, StopAnswered, memory, record, history
<1>7. ClosedReaped'
  BY DEF OneInv, ClosedReaped, Closed, AtWork, StopAnswered, memory, record, history
<1> QED
  BY <1>1, <1>2, <1>3, <1>4, <1>5, <1>6, <1>7 DEF OneInv

\* ... by either route.
LEMMA StopEndsOne ==
    ASSUME IInv, OneInv, NEW d \in Ids, StopEnds(d)
    PROVE  OneInv'
<1>0. card'.block \in {0, card.block}
  BY DEF IInv, TypeOK, StopEnds, OnComplete, ClearBlock, Cleared
<1>a. /\ pidKnown' = pidKnown /\ worker' = worker /\ todo' = todo /\ launch' = launch
      /\ excused' = excused /\ handler[d] # "none"
      /\ alive' \in {alive, alive \ {d}}
      /\ handler' = [handler EXCEPT ![d] = "none"]
      /\ call' = [call EXCEPT ![d] = "told"]
  BY DEF StopEnds
<1>b. /\ job' \in {job, [job EXCEPT ![d] = "none"]}
      /\ \A e \in Ids : row'[e] = row[e] \/ (e = d /\ row'[e] = "completed")
  BY JobOverRow DEF IInv, TypeOK, StopEnds
<1>c. AtWork' = AtWork \ {d}
  BY <1>a DEF IInv, TypeOK, AtWork
<1>d. /\ Linked' = Linked \ {d} /\ Loose' = Loose \ {d} /\ Closed' = Closed \ {d}
  <2>1. AtWork \subseteq Ids /\ AtWork' \subseteq AtWork /\ d \notin AtWork'
    BY <1>c DEF IInv, TypeOK, AtWork
  <2>2. \A e \in AtWork' : row'[e] = row[e]
    BY <1>b, <2>1
  <2>3. Linked' = Linked \ {d}
    BY <1>a, <1>c, <2>1, <2>2 DEF Linked
  <2>4. Loose' = Loose \ {d}
    BY <1>a, <1>c, <2>1, <2>2 DEF Loose
  <2>5. Closed' = Closed \ {d}
    BY <1>a, <1>c, <2>1, <2>2 DEF Closed
  <2> QED
    BY <2>3, <2>4, <2>5
<1>e. Fresh' = Fresh
  BY <1>a, <1>b DEF OneInv, FreshIsClean, Fresh
<1>1. FreshIsClean'
  BY <1>a, <1>b, <1>e DEF IInv, TypeOK, OneInv, FreshIsClean, Fresh
<1>2. LaunchStage'
  BY <1>0, <1>a, <1>b, <1>e DEF IInv, TypeOK, OneInv, LaunchStage, Fresh, LaunchHasId
<1>3. OneLinked'
  BY <1>d DEF OneInv, OneLinked
<1>4. LaunchFollows'
  BY <1>a, <1>d DEF OneInv, LaunchFollows
<1>5. BlockNames'
  BY <1>0, <1>a, <1>d DEF OneInv, BlockNames
<1>6. LooseSeen'
  BY <1>a, <1>d DEF OneInv, LooseSeen
<1>7. ClosedReaped'
  BY <1>a, <1>d DEF OneInv, ClosedReaped
<1> QED
  BY <1>1, <1>2, <1>3, <1>4, <1>5, <1>6, <1>7 DEF OneInv

\* A failed stop leaves the row and the agent as they are.
LEMMA StopFailsOne ==
    ASSUME IInv, OneInv, NEW d \in Ids, StopFails(d)
    PROVE  OneInv'
<1>0. AtWork' = AtWork
  BY DEF IInv, TypeOK, AtWork, StopFails
<1>1. FreshIsClean'
  BY DEF IInv, TypeOK, OneInv, FreshIsClean, Fresh, StopFails, record, history
<1>2. LaunchStage'
  BY DEF IInv, TypeOK, OneInv, LaunchStage, NoLaunch, Fresh, FreshIsClean, StopFails,
     record, history
<1>3. OneLinked'
  BY <1>0 DEF OneInv, OneLinked, Linked, StopFails, record, history
<1>4. LaunchFollows'
  BY <1>0 DEF OneInv, LaunchFollows, Linked, StopFails, record, history
<1>5. BlockNames'
  BY <1>0 DEF OneInv, BlockNames, Linked, StopFails, record, history
<1>6. LooseSeen'
  BY <1>0 DEF OneInv, LooseSeen, Loose, StopFails, record, history
<1>7. ClosedReaped'
  BY <1>0 DEF OneInv, ClosedReaped, Closed, StopFails, record, history
<1> QED
  BY <1>1, <1>2, <1>3, <1>4, <1>5, <1>6, <1>7 DEF OneInv

\* A report under way changes nothing ...
LEMMA AgentReportsOne ==
    ASSUME IInv, OneInv, NEW d \in Ids, AgentReports(d)
    PROVE  OneInv'
<1>1. FreshIsClean'
  BY DEF OneInv, FreshIsClean, Fresh, AgentReports, AgentStep, memory, history
<1>2. LaunchStage'
  BY DEF IInv, TypeOK, OneInv, LaunchStage, NoLaunch, Fresh, FreshIsClean, AgentReports,
     AgentStep, memory, history
<1>3. OneLinked'
  BY DEF OneInv, OneLinked, Linked, AtWork, AgentReports, AgentStep, memory, history
<1>4. LaunchFollows'
  BY DEF OneInv, LaunchFollows, Linked, AtWork, AgentReports, AgentStep, memory, history
<1>5. BlockNames'
  BY DEF OneInv, BlockNames, Linked, AtWork, AgentReports, AgentStep, memory, history
<1>6. LooseSeen'
  BY DEF OneInv, LooseSeen, Loose, AtWork, AgentReports, AgentStep, memory, history
<1>7. ClosedReaped'
  BY DEF OneInv, ClosedReaped, Closed, AtWork, AgentReports, AgentStep, memory, history
<1> QED
  BY <1>1, <1>2, <1>3, <1>4, <1>5, <1>6, <1>7 DEF OneInv

\* ... nor its next route.
LEMMA StopUnreachableOne ==
    ASSUME IInv, OneInv, NEW d \in Ids, StopUnreachable(d)
    PROVE  OneInv'
<1>1. FreshIsClean'
  BY DEF OneInv, FreshIsClean, Fresh, StopUnreachable, AgentStep, memory, history
<1>2. LaunchStage'
  BY DEF IInv, TypeOK, OneInv, LaunchStage, NoLaunch, Fresh, FreshIsClean,
     StopUnreachable, AgentStep, memory, history
<1>3. OneLinked'
  BY DEF OneInv, OneLinked, Linked, AtWork, StopUnreachable, AgentStep, memory, history
<1>4. LaunchFollows'
  BY DEF OneInv, LaunchFollows, Linked, AtWork, StopUnreachable, AgentStep, memory,
     history
<1>5. BlockNames'
  BY DEF OneInv, BlockNames, Linked, AtWork, StopUnreachable, AgentStep, memory, history
<1>6. LooseSeen'
  BY DEF OneInv, LooseSeen, Loose, AtWork, StopUnreachable, AgentStep, memory, history
<1>7. ClosedReaped'
  BY DEF OneInv, ClosedReaped, Closed, AtWork, StopUnreachable, AgentStep, memory,
     history
<1> QED
  BY <1>1, <1>2, <1>3, <1>4, <1>5, <1>6, <1>7 DEF OneInv

\* The row is closed by an agent that is done.
LEMMA DbWrittenOne ==
    ASSUME IInv, OneInv, NEW d \in Ids, DbWritten(d)
    PROVE  OneInv'
<1>1. FreshIsClean'
  BY DEF OneInv, FreshIsClean, Fresh, DbWritten, AgentStep, memory, history
<1>2. LaunchStage'
  BY DEF IInv, TypeOK, OneInv, LaunchStage, NoLaunch, Fresh, FreshIsClean, DbWritten,
     AgentStep, memory, history
<1>3. OneLinked'
  BY DEF OneInv, OneLinked, Linked, AtWork, DbWritten, AgentStep, memory, history
<1>4. LaunchFollows'
  BY DEF OneInv, LaunchFollows, Linked, AtWork, DbWritten, AgentStep, memory, history
<1>5. BlockNames'
  BY DEF OneInv, BlockNames, Linked, AtWork, DbWritten, AgentStep, memory, history
<1>6. LooseSeen'
  BY DEF OneInv, LooseSeen, Loose, AtWork, DbWritten, AgentStep, memory, history
<1>7. ClosedReaped'
  BY DEF IInv, TypeOK, OneInv, ClosedReaped, Closed, AtWork, DbWritten, AgentStep,
     memory, history
<1> QED
  BY <1>1, <1>2, <1>3, <1>4, <1>5, <1>6, <1>7 DEF OneInv

\* The row is left.
LEMMA DbRefusedOne ==
    ASSUME IInv, OneInv, NEW d \in Ids, DbRefused(d)
    PROVE  OneInv'
<1>1. FreshIsClean'
  BY DEF OneInv, FreshIsClean, Fresh, DbRefused, AgentStep, memory, history
<1>2. LaunchStage'
  BY DEF IInv, TypeOK, OneInv, LaunchStage, NoLaunch, Fresh, FreshIsClean, DbRefused,
     AgentStep, memory, history
<1>3. OneLinked'
  BY DEF OneInv, OneLinked, Linked, AtWork, DbRefused, AgentStep, memory, history
<1>4. LaunchFollows'
  BY DEF OneInv, LaunchFollows, Linked, AtWork, DbRefused, AgentStep, memory, history
<1>5. BlockNames'
  BY DEF OneInv, BlockNames, Linked, AtWork, DbRefused, AgentStep, memory, history
<1>6. LooseSeen'
  BY DEF OneInv, LooseSeen, Loose, AtWork, DbRefused, AgentStep, memory, history
<1>7. ClosedReaped'
  BY DEF OneInv, ClosedReaped, Closed, AtWork, DbRefused, AgentStep, memory, history
<1> QED
  BY <1>1, <1>2, <1>3, <1>4, <1>5, <1>6, <1>7 DEF OneInv

\* The agent is done.
LEMMA QueuedOne ==
    ASSUME IInv, OneInv, NEW d \in Ids, Queued(d)
    PROVE  OneInv'
<1>1. FreshIsClean'
  BY DEF OneInv, FreshIsClean, Fresh, Queued, AgentStep, memory, history
<1>2. LaunchStage'
  BY DEF IInv, TypeOK, OneInv, LaunchStage, NoLaunch, Fresh, FreshIsClean, Queued,
     AgentStep, memory, history
<1>3. OneLinked'
  BY DEF OneInv, OneLinked, Linked, AtWork, Queued, AgentStep, memory, history
<1>4. LaunchFollows'
  BY DEF OneInv, LaunchFollows, Linked, AtWork, Queued, AgentStep, memory, history
<1>5. BlockNames'
  BY DEF OneInv, BlockNames, Linked, AtWork, Queued, AgentStep, memory, history
<1>6. LooseSeen'
  BY DEF OneInv, LooseSeen, Loose, AtWork, Queued, AgentStep, memory, history
<1>7. ClosedReaped'
  BY DEF OneInv, ClosedReaped, Closed, AtWork, Queued, AgentStep, memory, history
<1> QED
  BY <1>1, <1>2, <1>3, <1>4, <1>5, <1>6, <1>7 DEF OneInv

\* A process less.
LEMMA AgentDiesOne ==
    ASSUME IInv, OneInv, NEW d \in Ids, AgentDies(d)
    PROVE  OneInv'
<1>1. FreshIsClean'
  BY DEF OneInv, FreshIsClean, Fresh, AgentDies, memory, record, history
<1>2. LaunchStage'
  BY DEF IInv, TypeOK, OneInv, LaunchStage, NoLaunch, Fresh, FreshIsClean, AgentDies,
     memory, record, history
<1>3. OneLinked'
  BY DEF OneInv, OneLinked, Linked, AtWork, AgentDies, memory, record, history
<1>4. LaunchFollows'
  BY DEF OneInv, LaunchFollows, Linked, AtWork, AgentDies, memory, record, history
<1>5. BlockNames'
  BY DEF OneInv, BlockNames, Linked, AtWork, AgentDies, memory, record, history
<1>6. LooseSeen'
  BY DEF OneInv, LooseSeen, Loose, AtWork, AgentDies, memory, record, history
<1>7. ClosedReaped'
  BY DEF OneInv, ClosedReaped, Closed, AtWork, AgentDies, memory, record, history
<1> QED
  BY <1>1, <1>2, <1>3, <1>4, <1>5, <1>6, <1>7 DEF OneInv

\* The processes stay, the launch is forgotten.
LEMMA CrashOne ==
    ASSUME IInv, OneInv, Crash
    PROVE  OneInv'
<1>1. FreshIsClean'
  BY DEF OneInv, FreshIsClean, Fresh, Crash, Forget, history
<1>2. LaunchStage'
  BY DEF OneInv, LaunchStage, NoLaunch, Crash, Forget, history
<1>3. OneLinked'
  BY DEF OneInv, OneLinked, Linked, AtWork, Crash, Forget, history
<1>4. LaunchFollows'
  BY DEF IInv, TypeOK, OneInv, LaunchFollows, Linked, AtWork, LaunchStage, NoLaunch,
     Loose, Closed, FreshIsClean, Fresh, Crash, Forget, history
<1>5. BlockNames'
  BY DEF OneInv, BlockNames, Linked, AtWork, Crash, Forget, history
<1>6. LooseSeen'
  BY DEF OneInv, LooseSeen, Loose, AtWork, Crash, Forget, history
<1>7. ClosedReaped'
  BY DEF OneInv, ClosedReaped, Closed, AtWork, Crash, Forget, history
<1> QED
  BY <1>1, <1>2, <1>3, <1>4, <1>5, <1>6, <1>7 DEF OneInv

\* As a crash, with the running jobs stopped.
LEMMA ShutdownOne ==
    ASSUME IInv, OneInv, Shutdown
    PROVE  OneInv'
<1>0. card'.block \in {0, card.block}
  BY DEF IInv, TypeOK, Shutdown, ClearBlock, Cleared
<1>1. FreshIsClean'
  BY <1>0 DEF OneInv, FreshIsClean, Fresh, Shutdown, Forget, history
<1>2. LaunchStage'
  BY <1>0 DEF OneInv, LaunchStage, NoLaunch, Shutdown, Forget, history
<1>3. OneLinked'
  BY <1>0 DEF IInv, TypeOK, OneInv, OneLinked, Linked, AtWork, Shutdown, Forget, history
<1>4. LaunchFollows'
  BY <1>0 DEF IInv, TypeOK, OneInv, LaunchFollows, Linked, AtWork, LaunchStage,
     NoLaunch, Loose, Closed, FreshIsClean, Fresh, Shutdown, Forget, history
<1>5. BlockNames'
  BY <1>0 DEF IInv, TypeOK, OneInv, BlockNames, Linked, AtWork, Shutdown, Forget,
     history
<1>6. LooseSeen'
  BY <1>0 DEF OneInv, LooseSeen, Loose, AtWork, Shutdown, Forget, history
<1>7. ClosedReaped'
  BY <1>0 DEF OneInv, ClosedReaped, Closed, AtWork, Shutdown, Forget, history
<1> QED
  BY <1>1, <1>2, <1>3, <1>4, <1>5, <1>6, <1>7 DEF OneInv

\* The queue comes first.
LEMMA BootBeginsOne ==
    ASSUME IInv, OneInv, BootBegins
    PROVE  OneInv'
<1>1. FreshIsClean'
  BY DEF OneInv, FreshIsClean, Fresh, BootBegins, Enter, Worklist, BootOrder, Open
<1>2. LaunchStage'
  BY DEF OneInv, LaunchStage, NoLaunch, BootBegins, Enter, Worklist, BootOrder, Open
<1>3. OneLinked'
  BY DEF OneInv, OneLinked, Linked, AtWork, BootBegins, Enter, Worklist, BootOrder, Open
<1>4. LaunchFollows'
  BY DEF OneInv, LaunchFollows, Linked, AtWork, BootBegins, Enter, Worklist, BootOrder,
     Open
<1>5. BlockNames'
  BY DEF OneInv, BlockNames, Linked, AtWork, BootBegins, Enter, Worklist, BootOrder,
     Open
<1>6. LooseSeen'
  BY DEF OneInv, LooseSeen, Loose, AtWork, BootBegins, Enter, Worklist, BootOrder, Open
<1>7. ClosedReaped'
  BY DEF OneInv, ClosedReaped, Closed, AtWork, BootBegins, Enter, Worklist, BootOrder,
     Open
<1> QED
  BY <1>1, <1>2, <1>3, <1>4, <1>5, <1>6, <1>7 DEF OneInv

\* The passes read what they visit: open rows, then processes.
LEMMA PassOverOne ==
    ASSUME IInv, OneInv, PassOver
    PROVE  OneInv'
<1>1. FreshIsClean'
  BY DEF OneInv, FreshIsClean, Fresh, PassOver, Enter, Worklist, BootOrder, Open,
     record, history
<1>2. LaunchStage'
  BY DEF OneInv, LaunchStage, NoLaunch, PassOver, Enter, Worklist, BootOrder, Open,
     record, history
<1>3. OneLinked'
  BY DEF OneInv, OneLinked, Linked, AtWork, PassOver, Enter, Worklist, BootOrder, Open,
     record, history
<1>4. LaunchFollows'
  BY DEF OneInv, LaunchFollows, Linked, AtWork, PassOver, Enter, Worklist, BootOrder,
     Open, record, history
<1>5. BlockNames'
  BY DEF OneInv, BlockNames, Linked, AtWork, PassOver, Enter, Worklist, BootOrder, Open,
     record, history
<1>6. LooseSeen'
  BY Bounds, NextType DEF IInv, TypeOK, OneInv, LooseSeen, Loose, AtWork, LaunchStage,
     NoLaunch, FreshIsClean, Fresh, PassOver, Enter, Worklist, BootOrder, Open, record,
     history
<1>7. ClosedReaped'
  BY DEF OneInv, ClosedReaped, Closed, AtWork, PassOver, Enter, Worklist, BootOrder,
     Open, record, history
<1> QED
  BY <1>1, <1>2, <1>3, <1>4, <1>5, <1>6, <1>7 DEF OneInv

\* A replayed report closes a row.
LEMMA ReplayOne ==
    ASSUME IInv, OneInv, NEW d \in Ids, Replay(d)
    PROVE  OneInv'
<1>1. FreshIsClean'
  BY DEF OneInv, FreshIsClean, Fresh, Replay, Visit, Visited, history
<1>2. LaunchStage'
  BY DEF OneInv, LaunchStage, NoLaunch, Replay, Visit, Visited, history
<1>3. OneLinked'
  BY DEF OneInv, OneLinked, Linked, AtWork, Replay, Visit, Visited, history
<1>4. LaunchFollows'
  BY DEF OneInv, LaunchFollows, Linked, AtWork, Replay, Visit, Visited, history
<1>5. BlockNames'
  BY DEF OneInv, BlockNames, Linked, AtWork, Replay, Visit, Visited, history
<1>6. LooseSeen'
  BY DEF OneInv, LooseSeen, Loose, AtWork, Replay, Visit, Visited, history
<1>7. ClosedReaped'
  BY DEF OneInv, ClosedReaped, Closed, AtWork, Replay, Visit, Visited, history
<1> QED
  BY <1>1, <1>2, <1>3, <1>4, <1>5, <1>6, <1>7 DEF OneInv

\* It may stay open.
LEMMA ReplayFailsOne ==
    ASSUME IInv, OneInv, NEW d \in Ids, ReplayFails(d)
    PROVE  OneInv'
<1>1. FreshIsClean'
  BY DEF OneInv, FreshIsClean, Fresh, ReplayFails, Visit, Visited, record
<1>2. LaunchStage'
  BY DEF OneInv, LaunchStage, NoLaunch, ReplayFails, Visit, Visited, record
<1>3. OneLinked'
  BY DEF OneInv, OneLinked, Linked, AtWork, ReplayFails, Visit, Visited, record
<1>4. LaunchFollows'
  BY DEF OneInv, LaunchFollows, Linked, AtWork, ReplayFails, Visit, Visited, record
<1>5. BlockNames'
  BY DEF OneInv, BlockNames, Linked, AtWork, ReplayFails, Visit, Visited, record
<1>6. LooseSeen'
  BY DEF OneInv, LooseSeen, Loose, AtWork, ReplayFails, Visit, Visited, record
<1>7. ClosedReaped'
  BY DEF OneInv, ClosedReaped, Closed, AtWork, ReplayFails, Visit, Visited, record
<1> QED
  BY <1>1, <1>2, <1>3, <1>4, <1>5, <1>6, <1>7 DEF OneInv

\* A linked dispatch is adopted or closed.
LEMMA ReattachOne ==
    ASSUME IInv, OneInv, NEW d \in Ids, Reattach(d)
    PROVE  OneInv'
<1>1. FreshIsClean'
  BY DEF IInv, TypeOK, OneInv, FreshIsClean, Fresh, Reattach, Visit, Visited, Live,
     history
<1>2. LaunchStage'
  BY DEF OneInv, LaunchStage, NoLaunch, Reattach, Visit, Visited, Live, history
<1>3. OneLinked'
  BY DEF IInv, TypeOK, OneInv, OneLinked, Linked, AtWork, Reattach, Visit, Visited,
     Live, history
<1>4. LaunchFollows'
  BY DEF IInv, TypeOK, OneInv, LaunchFollows, Linked, AtWork, Reattach, Visit, Visited,
     Live, history
<1>5. BlockNames'
  BY DEF IInv, TypeOK, OneInv, BlockNames, Linked, AtWork, Reattach, Visit, Visited,
     Live, history
<1>6. LooseSeen'
  BY DEF IInv, TypeOK, OneInv, LooseSeen, Loose, AtWork, Reattach, Visit, Visited, Live,
     history
<1>7. ClosedReaped'
  BY DEF OneInv, ClosedReaped, Closed, AtWork, Reattach, Visit, Visited, Live, history
<1> QED
  BY <1>1, <1>2, <1>3, <1>4, <1>5, <1>6, <1>7 DEF OneInv

\* The card names the dead parent: no other dispatch is linked, or the parent was excused and so is the child.
LEMMA AutoResumeOne ==
    ASSUME IInv, OneInv, NEW d \in Ids, AutoResume(d)
    PROVE  OneInv'
<1>1. FreshIsClean'
  BY DEF OneInv, FreshIsClean, Fresh, AutoResume, Visit, Resumable, Live, ExcuseNext,
     NextId, record
<1>2. LaunchStage'
  BY DEF IInv, TypeOK, OneInv, LaunchStage, NoLaunch, Fresh, FreshIsClean, AutoResume,
     Visit, Resumable, Live, ExcuseNext, NextId, record
<1>3. OneLinked'
  BY DEF IInv, TypeOK, OneInv, OneLinked, Linked, AtWork, LaunchStage, FreshIsClean,
     Fresh, NoLaunch, AutoResume, Visit, Resumable, Live, ExcuseNext, NextId, record
<1>4. LaunchFollows'
  BY Bounds, NextType DEF IInv, TypeOK, LaunchHasId, OneInv, LaunchFollows, Linked,
     AtWork, LaunchStage, NoLaunch, BlockNames, LooseSeen, Loose, ClosedReaped, Closed,
     FreshIsClean, Fresh, AutoResume, Visit, Resumable, Live, ExcuseNext, NextId, record
<1>5. BlockNames'
  BY DEF IInv, TypeOK, OneInv, BlockNames, Linked, AtWork, LaunchStage, FreshIsClean,
     Fresh, NoLaunch, Loose, Closed, AutoResume, Visit, Resumable, Live, ExcuseNext,
     NextId, record
<1>6. LooseSeen'
  BY Bounds, NextType DEF IInv, TypeOK, OneInv, LooseSeen, Loose, AtWork, LaunchStage,
     NoLaunch, FreshIsClean, Fresh, AutoResume, Visit, Resumable, Live, ExcuseNext,
     NextId, record
<1>7. ClosedReaped'
  BY DEF OneInv, ClosedReaped, Closed, AtWork, AutoResume, Visit, Resumable, Live,
     ExcuseNext, NextId, record
<1> QED
  BY <1>1, <1>2, <1>3, <1>4, <1>5, <1>6, <1>7 DEF OneInv

\* A loose dispatch is closed.
LEMMA OrphanedOne ==
    ASSUME IInv, OneInv, NEW d \in Ids, Orphaned(d)
    PROVE  OneInv'
<1>1. FreshIsClean'
  BY DEF OneInv, FreshIsClean, Fresh, Orphaned, Visit, Visited, Live, history
<1>2. LaunchStage'
  BY DEF OneInv, LaunchStage, NoLaunch, Orphaned, Visit, Visited, Live, history
<1>3. OneLinked'
  BY DEF OneInv, OneLinked, Linked, AtWork, Orphaned, Visit, Visited, Live, history
<1>4. LaunchFollows'
  BY DEF OneInv, LaunchFollows, Linked, AtWork, Orphaned, Visit, Visited, Live, history
<1>5. BlockNames'
  BY DEF OneInv, BlockNames, Linked, AtWork, Orphaned, Visit, Visited, Live, history
<1>6. LooseSeen'
  BY DEF IInv, TypeOK, OneInv, LooseSeen, Loose, AtWork, Orphaned, Visit, Visited, Live,
     history
<1>7. ClosedReaped'
  BY DEF OneInv, ClosedReaped, Closed, AtWork, Orphaned, Visit, Visited, Live, history
<1> QED
  BY <1>1, <1>2, <1>3, <1>4, <1>5, <1>6, <1>7 DEF OneInv

\* One that could not be closed is excused ...
LEMMA ResolveFailsOne ==
    ASSUME IInv, OneInv, NEW d \in Ids, ResolveFails(d)
    PROVE  OneInv'
<1>1. FreshIsClean'
  BY DEF OneInv, FreshIsClean, Fresh, ResolveFails, Visit, Visited, record
<1>2. LaunchStage'
  BY DEF OneInv, LaunchStage, NoLaunch, ResolveFails, Visit, Visited, record
<1>3. OneLinked'
  BY DEF OneInv, OneLinked, Linked, AtWork, ResolveFails, Visit, Visited, record
<1>4. LaunchFollows'
  BY DEF OneInv, LaunchFollows, Linked, AtWork, LaunchStage, NoLaunch, ResolveFails,
     Visit, Visited, record
<1>5. BlockNames'
  BY DEF OneInv, BlockNames, Linked, AtWork, ResolveFails, Visit, Visited, record
<1>6. LooseSeen'
  BY DEF OneInv, LooseSeen, Loose, AtWork, ResolveFails, Visit, Visited, record
<1>7. ClosedReaped'
  BY DEF OneInv, ClosedReaped, Closed, AtWork, ResolveFails, Visit, Visited, record
<1> QED
  BY <1>1, <1>2, <1>3, <1>4, <1>5, <1>6, <1>7 DEF OneInv

\* ... as all are when the pass is left out.
LEMMA ReattachFailsOne ==
    ASSUME IInv, OneInv, ReattachFails
    PROVE  OneInv'
<1>0. worker = "replay" /\ worker' = "reap" /\ todo' = alive
  BY DEF ReattachFails, Enter, Worklist
<1>1. FreshIsClean'
  BY DEF OneInv, FreshIsClean, Fresh, ReattachFails, record
<1>2. LaunchStage'
  BY <1>0 DEF OneInv, LaunchStage, NoLaunch, ReattachFails, record
<1>3. OneLinked'
  BY DEF OneInv, OneLinked, Linked, AtWork, ReattachFails, record
<1>4. LaunchFollows'
  BY <1>0 DEF OneInv, LaunchFollows, LaunchStage, ReattachFails
<1>5. BlockNames'
  BY DEF OneInv, BlockNames, Linked, AtWork, ReattachFails, record
<1>6. LooseSeen'
  BY <1>0 DEF IInv, TypeOK, LooseSeen, Loose, AtWork, Open, ReattachFails, record
<1>7. ClosedReaped'
  BY <1>0 DEF ClosedReaped, Closed, AtWork, ReattachFails
<1> QED
  BY <1>1, <1>2, <1>3, <1>4, <1>5, <1>6, <1>7 DEF OneInv

\* A closed one is killed ...
LEMMA ReapOne ==
    ASSUME IInv, OneInv, NEW d \in Ids, Reap(d)
    PROVE  OneInv'
<1>1. FreshIsClean'
  BY DEF OneInv, FreshIsClean, Fresh, Reap, Visit, Visited, Doomed, record, history
<1>2. LaunchStage'
  BY DEF OneInv, LaunchStage, NoLaunch, Reap, Visit, Visited, Doomed, record, history
<1>3. OneLinked'
  BY DEF OneInv, OneLinked, Linked, AtWork, Reap, Visit, Visited, Doomed, record,
     history
<1>4. LaunchFollows'
  BY DEF OneInv, LaunchFollows, Linked, AtWork, Reap, Visit, Visited, Doomed, record,
     history
<1>5. BlockNames'
  BY DEF OneInv, BlockNames, Linked, AtWork, Reap, Visit, Visited, Doomed, record,
     history
<1>6. LooseSeen'
  BY DEF OneInv, LooseSeen, Loose, AtWork, Reap, Visit, Visited, Doomed, record, history
<1>7. ClosedReaped'
  BY DEF OneInv, ClosedReaped, Closed, AtWork, Reap, Visit, Visited, Doomed, record,
     history
<1> QED
  BY <1>1, <1>2, <1>3, <1>4, <1>5, <1>6, <1>7 DEF OneInv

\* ... or excused.
LEMMA ReapSkipsOne ==
    ASSUME IInv, OneInv, NEW d \in Ids, ReapSkips(d)
    PROVE  OneInv'
<1>1. FreshIsClean'
  BY DEF OneInv, FreshIsClean, Fresh, ReapSkips, Visit, Visited, record
<1>2. LaunchStage'
  BY DEF OneInv, LaunchStage, NoLaunch, ReapSkips, Visit, Visited, record
<1>3. OneLinked'
  BY DEF OneInv, OneLinked, Linked, AtWork, ReapSkips, Visit, Visited, record
<1>4. LaunchFollows'
  BY DEF OneInv, LaunchFollows, Linked, AtWork, ReapSkips, Visit, Visited, record
<1>5. BlockNames'
  BY DEF OneInv, BlockNames, Linked, AtWork, ReapSkips, Visit, Visited, record
<1>6. LooseSeen'
  BY DEF OneInv, LooseSeen, Loose, AtWork, ReapSkips, Visit, Visited, record
<1>7. ClosedReaped'
  BY DEF OneInv, ClosedReaped, Closed, AtWork, ReapSkips, Visit, Visited, record
<1> QED
  BY <1>1, <1>2, <1>3, <1>4, <1>5, <1>6, <1>7 DEF OneInv

\* The last passes only clear the block ...
LEMMA RehydrateOne ==
    ASSUME IInv, OneInv, Rehydrate
    PROVE  OneInv'
<1>0. card'.block \in {0, card.block}
  <2>1. card' = Cleared \/ card' = card
    BY DEF Rehydrate, ClearBlock
  <2>2. Cleared.block = 0
    BY DEF IInv, TypeOK, Cleared
  <2> QED
    BY <2>1, <2>2
<1>1. FreshIsClean'
  BY <1>0 DEF OneInv, FreshIsClean, Fresh, Rehydrate, Enter, Worklist, history
<1>2. LaunchStage'
  BY <1>0 DEF OneInv, LaunchStage, NoLaunch, Rehydrate, Enter, Worklist, history
<1>3. OneLinked'
  BY <1>0 DEF OneInv, OneLinked, Linked, AtWork, Rehydrate, Enter, Worklist, history
<1>4. LaunchFollows'
  BY <1>0 DEF OneInv, LaunchFollows, Linked, AtWork, Rehydrate, Enter, Worklist, history
<1>5. BlockNames'
  BY <1>0 DEF OneInv, BlockNames, Linked, AtWork, Rehydrate, Enter, Worklist, history
<1>6. LooseSeen'
  BY <1>0 DEF OneInv, LooseSeen, Loose, AtWork, Rehydrate, Enter, Worklist, history
<1>7. ClosedReaped'
  BY <1>0 DEF OneInv, ClosedReaped, Closed, AtWork, Rehydrate, Enter, Worklist, history
<1> QED
  BY <1>1, <1>2, <1>3, <1>4, <1>5, <1>6, <1>7 DEF OneInv

\* ... and arm timers.
LEMMA ArmTimersOne ==
    ASSUME IInv, OneInv, ArmTimers
    PROVE  OneInv'
<1>1. FreshIsClean'
  BY DEF OneInv, FreshIsClean, Fresh, ArmTimers, Enter, Worklist, record, history
<1>2. LaunchStage'
  BY DEF OneInv, LaunchStage, NoLaunch, ArmTimers, Enter, Worklist, record, history
<1>3. OneLinked'
  BY DEF OneInv, OneLinked, Linked, AtWork, ArmTimers, Enter, Worklist, record, history
<1>4. LaunchFollows'
  BY DEF OneInv, LaunchFollows, Linked, AtWork, ArmTimers, Enter, Worklist, record,
     history
<1>5. BlockNames'
  BY DEF OneInv, BlockNames, Linked, AtWork, ArmTimers, Enter, Worklist, record, history
<1>6. LooseSeen'
  BY DEF OneInv, LooseSeen, Loose, AtWork, ArmTimers, Enter, Worklist, record, history
<1>7. ClosedReaped'
  BY DEF OneInv, ClosedReaped, Closed, AtWork, ArmTimers, Enter, Worklist, record,
     history
<1> QED
  BY <1>1, <1>2, <1>3, <1>4, <1>5, <1>6, <1>7 DEF OneInv

\* A process less.
LEMMA CronReapOne ==
    ASSUME IInv, OneInv, NEW d \in Ids, CronReap(d)
    PROVE  OneInv'
<1>1. FreshIsClean'
  BY DEF OneInv, FreshIsClean, Fresh, CronReap, memory, record, history
<1>2. LaunchStage'
  BY DEF IInv, TypeOK, OneInv, LaunchStage, NoLaunch, Fresh, FreshIsClean, CronReap,
     memory, record, history
<1>3. OneLinked'
  BY DEF OneInv, OneLinked, Linked, AtWork, CronReap, memory, record, history
<1>4. LaunchFollows'
  BY DEF OneInv, LaunchFollows, Linked, AtWork, CronReap, memory, record, history
<1>5. BlockNames'
  BY DEF OneInv, BlockNames, Linked, AtWork, CronReap, memory, record, history
<1>6. LooseSeen'
  BY DEF OneInv, LooseSeen, Loose, AtWork, CronReap, memory, record, history
<1>7. ClosedReaped'
  BY DEF OneInv, ClosedReaped, Closed, AtWork, CronReap, memory, record, history
<1> QED
  BY <1>1, <1>2, <1>3, <1>4, <1>5, <1>6, <1>7 DEF OneInv

\* A timer clears the block.
LEMMA TtlExpiresOne ==
    ASSUME IInv, OneInv, NEW d \in Ids, TtlExpires(d)
    PROVE  OneInv'
<1>0. card'.block \in {0, card.block}
  BY DEF IInv, TypeOK, TtlExpires, ClearBlock, Cleared
<1>1. FreshIsClean'
  BY <1>0 DEF OneInv, FreshIsClean, Fresh, TtlExpires, history
<1>2. LaunchStage'
  BY <1>0 DEF IInv, TypeOK, OneInv, LaunchStage, NoLaunch, Fresh, FreshIsClean,
     TtlExpires, history
<1>3. OneLinked'
  BY <1>0 DEF OneInv, OneLinked, Linked, AtWork, TtlExpires, history
<1>4. LaunchFollows'
  BY <1>0 DEF OneInv, LaunchFollows, Linked, AtWork, TtlExpires, history
<1>5. BlockNames'
  BY <1>0 DEF OneInv, BlockNames, Linked, AtWork, TtlExpires, history
<1>6. LooseSeen'
  BY <1>0 DEF OneInv, LooseSeen, Loose, AtWork, TtlExpires, history
<1>7. ClosedReaped'
  BY <1>0 DEF OneInv, ClosedReaped, Closed, AtWork, TtlExpires, history
<1> QED
  BY <1>1, <1>2, <1>3, <1>4, <1>5, <1>6, <1>7 DEF OneInv

\* As reconcile may.
LEMMA ReconcileOne ==
    ASSUME IInv, OneInv, Reconcile
    PROVE  OneInv'
<1>0. card'.block \in {0, card.block}
  BY DEF IInv, TypeOK, Reconcile, Cleared
<1>1. FreshIsClean'
  BY <1>0 DEF OneInv, FreshIsClean, Fresh, Reconcile, memory, history
<1>2. LaunchStage'
  BY <1>0 DEF IInv, TypeOK, OneInv, LaunchStage, NoLaunch, Fresh, FreshIsClean,
     Reconcile, memory, history
<1>3. OneLinked'
  BY <1>0 DEF OneInv, OneLinked, Linked, AtWork, Reconcile, memory, history
<1>4. LaunchFollows'
  BY <1>0 DEF OneInv, LaunchFollows, Linked, AtWork, Reconcile, memory, history
<1>5. BlockNames'
  BY <1>0 DEF OneInv, BlockNames, Linked, AtWork, Reconcile, memory, history
<1>6. LooseSeen'
  BY <1>0 DEF OneInv, LooseSeen, Loose, AtWork, Reconcile, memory, history
<1>7. ClosedReaped'
  BY <1>0 DEF OneInv, ClosedReaped, Closed, AtWork, Reconcile, memory, history
<1> QED
  BY <1>1, <1>2, <1>3, <1>4, <1>5, <1>6, <1>7 DEF OneInv

\* Nothing is there to begin with.
LEMMA InitOne == Init => OneInv
BY DEF Init, OneInv, FreshIsClean, LaunchStage, OneLinked, LaunchFollows, BlockNames,
   LooseSeen, ClosedReaped, Linked, Loose, Closed, AtWork, NoLaunch, Fresh

\* Every step keeps at most one dispatch linked and at work.
LEMMA NextOne ==
    ASSUME IInv, OneInv, [Next]_vars
    PROVE  OneInv'
<1>1. CASE LaunchNext
  BY <1>1, RowInsertedOne, SpawnedOne, CardPairedOne, RowPairedOne, LaunchedOne
     DEF LaunchNext
<1>2. CASE Boots
  BY <1>2, BootBeginsOne, PassOverOne, RehydrateOne, ArmTimersOne DEF Boots
<1>3. CASE Reconcile
  BY <1>3, ReconcileOne
<1>4. ASSUME NEW d \in Ids, AgentNext(d)
      PROVE  OneInv'
  BY <1>4, AgentReportsOne, StopUnreachableOne, DbWrittenOne, DbRefusedOne, QueuedOne,
     AgentDiesOne DEF AgentNext
<1>5. ASSUME NEW d \in Ids, BootNext(d)
      PROVE  OneInv'
  BY <1>5, ReplayOne, ReattachOne, AutoResumeOne, OrphanedOne, ReapOne DEF BootNext
<1>6. ASSUME NEW d \in Ids, WorkerNext(d)
      PROVE  OneInv'
  BY <1>6, JobEndsOne, StopBeginsOne, StopAnsweredOne, StopEndsOne, CronReapOne,
     TtlExpiresOne DEF WorkerNext
<1>7. ASSUME NEW d \in Ids, Faulty(d)
      PROVE  OneInv'
  BY <1>7, ReplayFailsOne, ReapSkipsOne, ResolveFailsOne, StopFailsOne DEF Faulty
<1>8. ASSUME NEW guarded \in BOOLEAN, PickerStamps(guarded)
      PROVE  OneInv'
  BY <1>8, PickerStampsOne
<1>9. CASE PairRollsBack
  BY <1>9, PairRollsBackOne
<1>10. CASE Crash
  BY <1>10, CrashOne
<1>11. CASE Shutdown
  BY <1>11, ShutdownOne
<1>12. CASE UNCHANGED vars
  BY <1>12 DEF vars, OneInv, FreshIsClean, LaunchStage, OneLinked, LaunchFollows,
     BlockNames, LooseSeen, ClosedReaped, Linked, Loose, Closed, AtWork, Fresh, NoLaunch
<1>13. CASE LaunchedUnlinked
  BY <1>13, LaunchedUnlinkedOne
<1>14. CASE ReattachFails
  BY <1>14, ReattachFailsOne
<1> QED
  BY <1>1, <1>2, <1>3, <1>4, <1>5, <1>6, <1>7, <1>8, <1>9, <1>10, <1>11, <1>12, <1>13,
     <1>14 DEF Next, Progress

\* OneInv holds in every reachable state: a second dispatch is linked only beside
\* an excused one, or as one.
THEOREM OneInvariance == Spec => []OneInv
<1>1. Init => OneInv
  BY InitOne
<1>2. IInv /\ OneInv /\ [Next]_vars => OneInv'
  BY NextOne
<1> QED
  BY <1>1, <1>2, Invariance, PTL DEF Spec

\* Once the boot is over one agent at most is at work on the card, but for
\* those a failed call to the database let pass or left unseen, a launch taken
\* back among them.
THEOREM OneAgentOnceUpSafe == Spec => []OneAgentOnceUp
<1>1. ASSUME IInv, OneInv
      PROVE  OneAgentOnceUp
  <2> SUFFICES ASSUME worker = "up"
               PROVE  Cardinality(AtWork \ excused) <= 1
    BY DEF OneAgentOnceUp
  <2>1. ASSUME NEW d \in AtWork \ excused, NEW e \in AtWork \ excused
        PROVE  d = e
    <3>1. /\ d \in Linked \/ d = launch.id
          /\ e \in Linked \/ e = launch.id
      BY <1>1, <2>1 DEF OneInv, LooseSeen, ClosedReaped, Linked, Loose, Closed
    <3>2. CASE launch.step = "none"
      <4>1. d \in Linked /\ e \in Linked
        BY Bounds, <1>1, <2>1, <3>1, <3>2 DEF IInv, TypeOK, OneInv, LaunchStage,
           NoLaunch, AtWork
      <4> QED
        BY <1>1, <4>1 DEF OneInv, OneLinked
    <3>3. CASE launch.step # "none" /\ launch.id \in excused
      BY <1>1, <2>1, <3>1, <3>3 DEF OneInv, OneLinked
    <3>4. CASE launch.step # "none" /\ launch.id \notin excused
      BY <1>1, <3>1, <3>4 DEF OneInv, LaunchFollows
    <3> QED
      BY <3>2, <3>3, <3>4
  <2>2. CASE AtWork \ excused = {}
    BY <2>2, FS_EmptySet
  <2>3. CASE AtWork \ excused # {}
    <3>1. PICK d \in AtWork \ excused : TRUE
      BY <2>3
    <3>2. AtWork \ excused = {d}
      BY <2>1, <3>1
    <3> QED
      BY <3>2, FS_Singleton
  <2> QED
    BY <2>2, <2>3
<1> QED
  BY <1>1, Invariance, OneInvariance, PTL
=============================================================================
