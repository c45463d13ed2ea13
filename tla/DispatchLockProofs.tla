-------------------------- MODULE DispatchLockProofs --------------------------
(***************************************************************************)
(* What the tracker lock excludes, for any set of workers and hosts, any    *)
(* number of crashes and any number of releases in flight.                  *)
(***************************************************************************)
EXTENDS DispatchLock, FiniteSetTheorems, TLAPS

-----------------------------------------------------------------------------
(* The inductive invariant. *)

Types ==
    /\ comments \in Seq(LockType)
    /\ crashes \in 0..MaxCrashes
    /\ up \subseteq Workers
    /\ pc \in [Workers -> {"idle", "locking", "working"}]
    /\ dispatch \in [Workers -> Dispatches \cup {NoDispatch}]
    /\ seen \in [Workers -> LockType \cup {NoComment}]
    /\ releases \subseteq [worker : Workers, dispatch : Dispatches,
                           found : LockType \cup {NoComment}]
    /\ survivors \subseteq [worker : Workers, dispatch : Dispatches]
    /\ overtaken \subseteq survivors
    /\ excused \in BOOLEAN

\* A worker has a dispatch exactly while it claims or works on the card, and
\* only then is its process up.
Claims == \A w \in Workers : pc[w] # "idle" =>
    dispatch[w] \in Dispatches /\ w \in up

\* A dispatch id is one worker's, until the release it ends with is done or
\* the agent that outlived the worker is gone.
IdsApart ==
    /\ \A v, w \in Workers :
          dispatch[v] = dispatch[w] /\ dispatch[v] # NoDispatch => v = w
    /\ \A rel \in releases, w \in Workers : rel.dispatch # dispatch[w]
    /\ \A run \in survivors, w \in Workers : run.dispatch # dispatch[w]
    /\ \A run \in survivors, rel \in releases : run.dispatch # rel.dispatch
    /\ \A w \in Workers : pc[w] = "idle" => dispatch[w] = NoDispatch

\* The comment of a run: it can be read, and no other host may reclaim it.
Recorded(run) ==
    /\ comments # <<>>
    /\ comments[1].owner = run.worker /\ comments[1].dispatch = run.dispatch
    /\ comments[1].fresh /\ ~comments[1].released /\ comments[1].parses
\* As long as the worker of the run lives, no reclaim rule at all fits it.
OnRecord == ~excused =>
    /\ \A w \in Working : Recorded(Run(w)) /\ ~comments[1].procDead
    /\ \A run \in survivors \ overtaken : Recorded(run)

\* A comment that was found is still there: none is ever deleted.
FoundStays == comments = <<>> =>
    /\ \A w \in Workers : seen[w] = NoComment
    /\ \A rel \in releases : rel.found = NoComment

\* Who may still add a comment: it found none.
Posting == {w \in Workers : pc[w] = "locking" /\ seen[w] = NoComment}
PostsBounded ==
    comments # <<>> => Len(comments) + Cardinality(Posting) <= Cardinality(Workers)

IInv == Types /\ Claims /\ IdsApart /\ OnRecord /\ FoundStays /\ PostsBounded

-----------------------------------------------------------------------------
\* A card without comments.
LEMMA InitEstablishes == Init => IInv
<1> SUFFICES ASSUME Init PROVE IInv
  OBVIOUS
<1> USE IdentityAssumption DEF Init
<1>1. Types
  <2>1. /\ comments \in Seq(LockType) /\ crashes \in 0..MaxCrashes
        /\ up \subseteq Workers
    OBVIOUS
  <2>2. /\ pc \in [Workers -> {"idle", "locking", "working"}]
        /\ dispatch \in [Workers -> Dispatches \cup {NoDispatch}]
        /\ seen \in [Workers -> LockType \cup {NoComment}]
    OBVIOUS
  <2>3. releases = {} /\ excused \in BOOLEAN
    OBVIOUS
  <2> QED
    BY <2>1, <2>2, <2>3 DEF Types
<1>2. Claims /\ IdsApart /\ OnRecord /\ FoundStays /\ PostsBounded
  BY DEF Claims, IdsApart, OnRecord, Working, FoundStays, PostsBounded
<1> QED
  BY <1>1, <1>2 DEF IInv

\* What a process that died leaves of a comment: the same, but for the pid.
LEMMA Buried ==
    ASSUME NEW c \in LockType \cup {NoComment}, NEW w \in Workers
    PROVE  /\ Bury(c, w) \in LockType \cup {NoComment}
           /\ c \in LockType => Bury(c, w) \in LockType
           /\ Bury(c, w) = NoComment <=> c = NoComment
           /\ c \in LockType /\ c.owner # w => Bury(c, w) = c
           /\ c \in LockType => Bury(c, w).dispatch = c.dispatch
BY NoCommentAssumption DEF Bury, LockType

\* What an acquire leaves on the card.
LEMMA Written ==
    ASSUME Types, Claims, NEW w \in Workers, pc[w] = "locking",
           seen[w] = NoComment \/ comments # <<>>, WriteLock(w)
    PROVE  /\ comments' \in Seq(LockType)
           /\ comments' # <<>>
           /\ seen[w] = NoComment => Len(comments') = Len(comments) + 1
           /\ seen[w] # NoComment => Len(comments') = Len(comments)
           /\ seen[w] = NoComment /\ comments # <<>> => comments'[1] = comments[1]
           /\ seen[w] # NoComment \/ comments = <<>>
                 => comments'[1] = Lock(w, dispatch[w])
<1>1. Lock(w, dispatch[w]) \in LockType
  BY DEF Types, Claims, Lock, LockType
<1>2. comments \in Seq(LockType)
  BY DEF Types
<1> HIDE DEF LockType, Lock
<1>3. CASE seen[w] = NoComment
  BY <1>1, <1>2, <1>3 DEF WriteLock
<1>4. CASE seen[w] # NoComment
  BY <1>1, <1>2, <1>4 DEF WriteLock
<1> QED
  BY <1>3, <1>4

\* A step that adds no comment and lets nobody find the card without one keeps
\* the count.
LEMMA PostsKept ==
    ASSUME PostsBounded, Posting' \subseteq Posting, comments' # <<>>,
           comments # <<>>, Len(comments') = Len(comments), comments \in Seq(LockType)
    PROVE  Len(comments') + Cardinality(Posting') <= Cardinality(Workers)
<1>1. IsFiniteSet(Posting) /\ IsFiniteSet(Workers)
  BY IdentityAssumption, FS_Subset DEF Posting
<1>2. IsFiniteSet(Posting') /\ Cardinality(Posting') <= Cardinality(Posting)
  BY <1>1, FS_Subset
<1>3. /\ Cardinality(Posting) \in Nat /\ Cardinality(Posting') \in Nat
      /\ Cardinality(Workers) \in Nat
  BY <1>1, <1>2, FS_CardinalityType
<1>4. Len(comments) \in Nat
  OBVIOUS
<1> QED
  BY <1>2, <1>3, <1>4 DEF PostsBounded

\* A comment is added by a worker who found none, and who is through with it.
LEMMA PostsSpent ==
    ASSUME PostsBounded, NEW w \in Posting, Posting' \subseteq Posting \ {w},
           Len(comments') = Len(comments) + 1, comments \in Seq(LockType)
    PROVE  Len(comments') + Cardinality(Posting') <= Cardinality(Workers)
<1>1. /\ IsFiniteSet(Posting) /\ IsFiniteSet(Workers)
      /\ Cardinality(Posting) <= Cardinality(Workers)
  BY IdentityAssumption, FS_Subset DEF Posting
<1>2. IsFiniteSet(Posting \ {w}) /\ Cardinality(Posting \ {w}) = Cardinality(Posting) - 1
  BY <1>1, FS_RemoveElement
<1>3. IsFiniteSet(Posting') /\ Cardinality(Posting') <= Cardinality(Posting) - 1
  BY <1>2, FS_Subset
<1>4. /\ Cardinality(Posting) \in Nat /\ Cardinality(Posting') \in Nat
      /\ Cardinality(Workers) \in Nat /\ Len(comments) \in Nat
  BY <1>1, <1>3, FS_CardinalityType
<1>5. CASE comments = <<>>
  BY <1>1, <1>3, <1>4, <1>5
<1>6. CASE comments # <<>>
  BY <1>3, <1>4, <1>6 DEF PostsBounded
<1> QED
  BY <1>5, <1>6

\* Whoever may write over what he found, and found it as it still is, finds
\* nobody at work but agents whose record he takes over: every other run is on
\* record, and no rule fits it.
LEMMA NobodyElseRuns ==
    ASSUME IInv, ~excused, NEW w \in Workers, pc[w] = "locking",
           LockComment = seen[w], ~Held(w, seen[w])
    PROVE  Working = {} /\ survivors \ overtaken \subseteq TakenOver(w)
<1>1. ASSUME NEW v \in Working PROVE FALSE
  <2>1. v \in Workers /\ v # w
    BY DEF Working
  <2>2. Recorded(Run(v)) /\ ~comments[1].procDead
    BY DEF IInv, OnRecord
  <2>3. comments # <<>> /\ comments[1].owner = v /\ comments[1].fresh /\ comments[1].parses
    BY <2>2 DEF Recorded, Run
  <2>4. comments[1] \in LockType
    BY <2>3 DEF IInv, Types
  <2>5. seen[w] = comments[1]
    BY <2>3 DEF LockComment
  <2> QED
    BY <2>1, <2>2, <2>3, <2>4, <2>5, NoCommentAssumption
    DEF Held, IsStale, IsSelf, SameHostDeadPid
<1>2. ASSUME NEW run \in survivors \ overtaken PROVE run \in TakenOver(w)
  <2>1. Recorded(run)
    BY DEF IInv, OnRecord
  <2>2. comments[1] \in LockType
    BY <2>1 DEF IInv, Types, Recorded
  <2>3. seen[w] = comments[1]
    BY <2>1 DEF LockComment, Recorded
  <2> QED
    BY <2>1, <2>2, <2>3, NoCommentAssumption DEF Recorded, Held, IsStale, TakenOver
<1> QED
  BY <1>1, <1>2
-----------------------------------------------------------------------------
(* The steps. *)

\* A worker that found a comment did so on a card that still has one.
LEMMA FoundThere ==
    ASSUME FoundStays, NEW w \in Workers
    PROVE  seen[w] = NoComment \/ comments # <<>>
BY DEF FoundStays

\* Acquiring, in time for the tracker's answer or not: what is common to
\* Acquire and to a failed AcquireThrows that wrote.
LEMMA WriteKeeps ==
    ASSUME IInv, NEW w \in Workers, pc[w] = "locking", WriteLock(w),
           seen' = [seen EXCEPT ![w] = NoComment], pc'[w] # "locking",
           \A v \in Workers : v # w => pc'[v] = pc[v],
           releases' = releases
    PROVE  comments' \in Seq(LockType) /\ FoundStays' /\ PostsBounded'
<1>1. Types /\ Claims /\ FoundStays /\ PostsBounded
  BY DEF IInv
<1>2. seen[w] = NoComment \/ comments # <<>>
  BY <1>1, FoundThere
<1>3. /\ comments' \in Seq(LockType)
      /\ comments' # <<>>
      /\ seen[w] = NoComment => Len(comments') = Len(comments) + 1
      /\ seen[w] # NoComment => Len(comments') = Len(comments)
  BY <1>1, <1>2, Written
<1>4. Posting' \subseteq Posting \ {w}
  BY <1>1 DEF Posting, Types
<1>5. CASE seen[w] = NoComment
  <2>1. w \in Posting
    BY <1>5 DEF Posting
  <2> QED
    BY <1>1, <1>3, <1>4, <1>5, <2>1, PostsSpent DEF PostsBounded, FoundStays, Types
<1>6. CASE seen[w] # NoComment
  <2>1. Posting' \subseteq Posting /\ comments # <<>>
    BY <1>2, <1>4, <1>6
  <2> QED
    BY <1>1, <1>3, <1>6, <2>1, PostsKept DEF PostsBounded, FoundStays, Types
<1> QED
  BY <1>3, <1>5, <1>6

LEMMA ReadKeeps ==
    ASSUME IInv, NEW w \in Workers, ReadForAcquire(w) PROVE IInv'
<1>1. PICK d \in Dispatches \ Mentioned : dispatch' = [dispatch EXCEPT ![w] = d]
  BY DEF ReadForAcquire, Fresh
<1>0. /\ \A v \in Workers : dispatch[v] # d
      /\ \A rel \in releases : rel.dispatch # d
      /\ \A run \in survivors : run.dispatch # d
  BY <1>1 DEF Mentioned
<1> USE DEF IInv, ReadForAcquire
<1>2. LockComment \in LockType \cup {NoComment}
      /\ (comments # <<>> => LockComment # NoComment)
  BY NoCommentAssumption DEF LockComment, Types
<1>3. Types'
  BY <1>1, <1>2 DEF Types
<1>4. Claims'
  BY <1>1 DEF Claims, Types
<1>5. IdsApart'
  <2>2. /\ \A v \in Workers : v # w => dispatch'[v] = dispatch[v] /\ pc'[v] = pc[v]
        /\ dispatch'[w] = d /\ pc'[w] = "locking"
    BY <1>1 DEF Types
  <2> HIDE DEF ReadForAcquire
  <2>3. \A u, v \in Workers :
           dispatch'[u] = dispatch'[v] /\ dispatch'[u] # NoDispatch => u = v
    BY <1>0, <2>2 DEF IdsApart
  <2>4. /\ \A rel \in releases, v \in Workers : rel.dispatch # dispatch'[v]
        /\ \A run \in survivors, v \in Workers : run.dispatch # dispatch'[v]
    BY <1>0, <2>2 DEF IdsApart
  <2>5. \A v \in Workers : pc'[v] = "idle" => dispatch'[v] = NoDispatch
    BY <2>2 DEF IdsApart
  <2>6. \A run \in survivors, rel \in releases : run.dispatch # rel.dispatch
    BY DEF IdsApart
  <2> QED
    BY <2>3, <2>4, <2>5, <2>6 DEF IdsApart, ReadForAcquire
<1>6. OnRecord'
  BY <1>1 DEF OnRecord, Working, Run, Recorded, Types
<1>7. FoundStays'
  BY DEF FoundStays, Types, LockComment
<1>8. PostsBounded'
  <2>1. SUFFICES ASSUME comments # <<>> PROVE Posting' \subseteq Posting
    BY PostsKept DEF PostsBounded, Types
  <2> QED
    BY <1>2, <2>1 DEF Posting, Types
<1> QED
  BY <1>3, <1>4, <1>5, <1>6, <1>7, <1>8

\* A worker that goes idle takes its claim and its dispatch along.
LEMMA IdleClaims ==
    ASSUME Types, Claims, IdsApart, NEW w \in Workers, BackToIdle(w),
           UNCHANGED <<up, releases, survivors>>
    PROVE  Claims' /\ IdsApart'
<1>1. /\ \A v \in Workers : v # w => dispatch'[v] = dispatch[v] /\ pc'[v] = pc[v]
      /\ dispatch'[w] = NoDispatch /\ pc'[w] = "idle"
  BY DEF BackToIdle, Types
<1>2. Claims'
  BY <1>1 DEF Claims
<1>3. \A u, v \in Workers :
         dispatch'[u] = dispatch'[v] /\ dispatch'[u] # NoDispatch => u = v
  BY <1>1 DEF IdsApart
<1>4. \A rel \in releases', v \in Workers : rel.dispatch # dispatch'[v]
  <2> SUFFICES ASSUME NEW rel \in releases, NEW v \in Workers
               PROVE rel.dispatch # dispatch'[v]
    OBVIOUS
  <2>1. rel.dispatch \in Dispatches
    BY DEF Types
  <2> QED
    BY <1>1, <2>1, IdentityAssumption DEF IdsApart
<1>5. \A run \in survivors', v \in Workers : run.dispatch # dispatch'[v]
  <2> SUFFICES ASSUME NEW run \in survivors, NEW v \in Workers
               PROVE run.dispatch # dispatch'[v]
    OBVIOUS
  <2>1. run.dispatch \in Dispatches
    BY DEF Types
  <2> QED
    BY <1>1, <2>1, IdentityAssumption DEF IdsApart
<1>6. \A v \in Workers : pc'[v] = "idle" => dispatch'[v] = NoDispatch
  BY <1>1 DEF IdsApart
<1> QED
  BY <1>2, <1>3, <1>4, <1>5, <1>6 DEF IdsApart

\* A worker that gives the card up without a write.
LEMMA IdleKeeps ==
    ASSUME IInv, NEW w \in Workers, BackToIdle(w),
           UNCHANGED <<comments, up, releases, survivors, overtaken, excused, crashes>>
    PROVE  IInv'
<1> USE DEF IInv, BackToIdle
<1>1. Types'
  BY DEF Types
<1>2. Claims' /\ IdsApart'
  BY IdleClaims
<1>3. OnRecord'
  BY DEF OnRecord, Working, Run, Recorded, Types
<1>4. FoundStays'
  BY DEF FoundStays, Types
<1>5. PostsBounded'
  <2>1. Posting' \subseteq Posting
    BY DEF Posting, Types
  <2> QED
    BY <2>1, PostsKept DEF PostsBounded, Types
<1> QED
  BY <1>1, <1>2, <1>3, <1>4, <1>5

LEMMA AcquireKeeps ==
    ASSUME IInv, NEW w \in Workers, Acquire(w) PROVE IInv'
<1> USE DEF Acquire
<1>1. comments' \in Seq(LockType) /\ FoundStays' /\ PostsBounded'
  BY WriteKeeps DEF IInv, Types
<1>2. Types'
  BY <1>1 DEF IInv, Types, TakenOver
<1>3. Claims' /\ IdsApart'
  BY DEF IInv, Claims, IdsApart, Types
<1>4. OnRecord'
  <2> SUFFICES ASSUME ~excused'
               PROVE /\ \A v \in Working' : Recorded(Run(v))' /\ ~comments'[1].procDead
                     /\ survivors' \ overtaken' = {}
    BY DEF OnRecord
  <2>1. ~excused /\ LockComment = seen[w]
    BY DEF IInv, Types
  <2>2. Working = {} /\ survivors \ overtaken \subseteq TakenOver(w)
    BY <2>1, NobodyElseRuns
  <2>3. seen[w] # NoComment \/ comments = <<>>
    BY <2>1, NoCommentAssumption DEF LockComment, IInv, Types
  <2>4. comments' # <<>> /\ comments'[1] = Lock(w, dispatch[w])
    BY <2>3, Written, FoundThere DEF IInv
  <2>5. ASSUME NEW v \in Working' PROVE Recorded(Run(v))' /\ ~comments'[1].procDead
    <3>1. v = w
      BY <2>2 DEF Working, IInv, Types
    <3> QED
      BY <2>4, <3>1 DEF Recorded, Run, Lock
  <2> QED
    BY <2>2, <2>5
<1> QED
  BY <1>1, <1>2, <1>3, <1>4 DEF IInv

LEMMA ThrowKeeps ==
    ASSUME IInv, NEW w \in Workers, AcquireThrows(w) PROVE IInv'
<1> BackToIdle(w) /\ pc[w] = "locking" /\ UNCHANGED <<up, releases, survivors, crashes>>
  BY DEF AcquireThrows
<1>1. CASE UNCHANGED <<comments, overtaken, excused>>
  BY <1>1, IdleKeeps
<1>2. CASE ~UNCHANGED <<comments, overtaken, excused>>
  <2>1. /\ ~Held(w, seen[w]) /\ WriteLock(w)
        /\ overtaken' = overtaken \cup TakenOver(w)
        /\ excused' = (excused \/ LockComment # seen[w])
    BY <1>2 DEF AcquireThrows
  <2>2. comments' \in Seq(LockType) /\ FoundStays' /\ PostsBounded'
    BY <2>1, WriteKeeps DEF IInv, Types, BackToIdle
  <2>3. Types'
    BY <2>1, <2>2 DEF IInv, Types, BackToIdle, TakenOver
  <2>4. Claims' /\ IdsApart'
    BY IdleClaims DEF IInv
  <2>5. OnRecord'
    <3> SUFFICES ASSUME ~excused' PROVE Working' = {} /\ survivors' \ overtaken' = {}
      BY DEF OnRecord
    <3>1. ~excused /\ LockComment = seen[w]
      BY <2>1 DEF IInv, Types
    <3>2. Working' \subseteq Working
      BY DEF Working, BackToIdle, IInv, Types
    <3> QED
      BY <2>1, <3>1, <3>2, NobodyElseRuns
  <2> QED
    BY <2>2, <2>3, <2>4, <2>5 DEF IInv
<1> QED
  BY <1>1, <1>2

LEMMA CompleteKeeps ==
    ASSUME IInv, NEW w \in Workers, Complete(w) PROVE IInv'
<1> USE DEF IInv, Complete, BackToIdle
<1>1. dispatch[w] \in Dispatches
  BY DEF Claims
<1>2. LockComment \in LockType \cup {NoComment}
      /\ (comments = <<>> => LockComment = NoComment)
  BY DEF LockComment, Types
<1>3. Types'
  BY <1>1, <1>2 DEF Types
<1>4. Claims'
  BY DEF Claims, Types
<1>5. IdsApart'
  BY <1>1, IdentityAssumption DEF IdsApart, Types
<1>6. OnRecord'
  BY DEF OnRecord, Working, Run, Recorded, Types
<1>7. FoundStays'
  BY <1>2 DEF FoundStays, Types
<1>8. PostsBounded'
  <2>1. Posting' \subseteq Posting
    BY DEF Posting, Types
  <2> QED
    BY <2>1, PostsKept DEF PostsBounded, Types
<1> QED
  BY <1>3, <1>4, <1>5, <1>6, <1>7, <1>8

LEMMA ReleaseKeeps ==
    ASSUME IInv, NEW rel \in releases, WriteRelease(rel) PROVE IInv'
<1> USE DEF IInv, WriteRelease, Releasable
<1> DEFINE mine == [rel.found EXCEPT !.released = TRUE, !.fresh = FALSE]
<1>1. comments # <<>>
  BY DEF FoundStays
<1>2. mine \in LockType
  BY NoCommentAssumption DEF Types, LockType
<1>3. comments' \in Seq(LockType) /\ Len(comments') = Len(comments)
      /\ comments' # <<>>
  BY <1>1, <1>2 DEF Types
<1>4. Types'
  BY <1>3 DEF Types
<1>5. Claims' /\ IdsApart'
  BY DEF Claims, IdsApart
<1>6. OnRecord'
  <2> SUFFICES ASSUME ~excused'
               PROVE Working' = {} /\ survivors' \ overtaken' = {}
    BY DEF OnRecord
  <2>1. ~excused /\ LockComment = rel.found
    BY DEF Types
  <2>2. comments[1].dispatch = rel.dispatch
    BY <1>1, <2>1 DEF LockComment
  <2>3. ASSUME NEW v \in Working' PROVE FALSE
    <3>1. v \in Working /\ v \in Workers
      BY DEF Working
    <3>2. comments[1].dispatch = dispatch[v]
      BY <2>1, <3>1 DEF OnRecord, Recorded, Run
    <3> QED
      BY <2>2, <3>1, <3>2 DEF IdsApart
  <2>4. ASSUME NEW run \in survivors' \ overtaken' PROVE FALSE
    <3>1. comments[1].dispatch = run.dispatch
      BY <2>1 DEF OnRecord, Recorded
    <3> QED
      BY <2>2, <3>1 DEF IdsApart
  <2> QED
    BY <2>3, <2>4
<1>7. FoundStays'
  BY <1>3 DEF FoundStays
<1>8. PostsBounded'
  <2>1. Posting' \subseteq Posting
    BY DEF Posting
  <2> QED
    BY <1>1, <1>3, <2>1, PostsKept DEF PostsBounded, Types
<1> QED
  BY <1>4, <1>5, <1>6, <1>7, <1>8

LEMMA DropKeeps ==
    ASSUME IInv, NEW rel \in releases, DropRelease(rel) PROVE IInv'
<1> USE DEF IInv, DropRelease
<1>1. Types'
  BY DEF Types
<1>2. Claims' /\ IdsApart' /\ FoundStays'
  BY DEF Claims, IdsApart, FoundStays
<1>3. OnRecord'
  BY DEF OnRecord, Working, Run, Recorded
<1>4. PostsBounded'
  BY DEF PostsBounded, Posting
<1> QED
  BY <1>1, <1>2, <1>3, <1>4

LEMMA CrashKeeps ==
    ASSUME IInv, NEW w \in Workers, Crash(w) PROVE IInv'
<1> USE DEF IInv, Crash
<1>0. ASSUME NEW rel \in releases
      PROVE LET r == [rel EXCEPT !.found = Bury(rel.found, w)] IN
            /\ r \in [worker : Workers, dispatch : Dispatches,
                      found : LockType \cup {NoComment}]
            /\ r.dispatch = rel.dispatch
            /\ r.found = Bury(rel.found, w)
  <2>1. rel \in [worker : Workers, dispatch : Dispatches,
                 found : LockType \cup {NoComment}]
    BY DEF Types
  <2>2. Bury(rel.found, w) \in LockType \cup {NoComment}
    BY <2>1, Buried
  <2> QED
    BY <2>1, <2>2
<1>1. comments' \in Seq(LockType) /\ Len(comments') = Len(comments)
      /\ \A i \in 1..Len(comments) : comments'[i] = Bury(comments[i], w)
  <2>1. \A i \in 1..Len(comments) : Bury(comments[i], w) \in LockType
    BY Buried DEF Types
  <2> QED
    BY <2>1 DEF Types
<1>2. Types'
  <2>1. seen' \in [Workers -> LockType \cup {NoComment}]
    BY Buried DEF Types
  <2>2. releases' \subseteq [worker : Workers, dispatch : Dispatches,
                             found : LockType \cup {NoComment}]
    BY <1>0 DEF Types
  <2>3. pc' \in [Workers -> {"idle", "locking", "working"}]
    BY DEF Types
  <2>4. dispatch' \in [Workers -> Dispatches \cup {NoDispatch}]
    BY DEF Types
  <2>5. crashes' \in 0..MaxCrashes
    BY IdentityAssumption DEF Types
  <2>6. up' \subseteq Workers /\ excused' \in BOOLEAN
    BY DEF Types
  <2>7. /\ survivors' \subseteq [worker : Workers, dispatch : Dispatches]
        /\ overtaken' \subseteq survivors'
    BY DEF Types, Claims, Run
  <2> QED
    BY <1>1, <2>1, <2>2, <2>3, <2>4, <2>5, <2>6, <2>7 DEF Types
<1>3. Claims'
  BY DEF Claims, Types
<1>4. IdsApart'
  <2>1. /\ \A v \in Workers : v # w => dispatch'[v] = dispatch[v] /\ pc'[v] = pc[v]
        /\ dispatch'[w] = NoDispatch /\ pc'[w] = "idle"
    BY DEF Types
  <2>2. \A u, v \in Workers :
           dispatch'[u] = dispatch'[v] /\ dispatch'[u] # NoDispatch => u = v
    BY <2>1 DEF IdsApart
  <2>3. \A r \in releases', v \in Workers : r.dispatch # dispatch'[v]
    <3> SUFFICES ASSUME NEW r \in releases', NEW v \in Workers
                 PROVE r.dispatch # dispatch'[v]
      OBVIOUS
    <3>1. PICK rel \in releases : r = [rel EXCEPT !.found = Bury(rel.found, w)]
      OBVIOUS
    <3>2. r.dispatch = rel.dispatch /\ rel.dispatch \in Dispatches
      BY <1>0, <3>1 DEF Types
    <3> QED
      BY <2>1, <3>2, IdentityAssumption DEF IdsApart
  <2>4. \A v \in Workers : pc'[v] = "idle" => dispatch'[v] = NoDispatch
    BY <2>1 DEF IdsApart
  <2>5. \A run \in survivors' : \/ run \in survivors
                                \/ run.dispatch = dispatch[w] /\ pc[w] = "working"
    BY DEF Run
  <2>6. \A run \in survivors' : run.dispatch \in Dispatches
    BY <2>5 DEF Types, Claims
  <2>7. \A run \in survivors', v \in Workers : run.dispatch # dispatch'[v]
    BY <2>1, <2>5, <2>6, IdentityAssumption DEF IdsApart
  <2>8. \A run \in survivors', r \in releases' : run.dispatch # r.dispatch
    <3> SUFFICES ASSUME NEW run \in survivors', NEW r \in releases'
                 PROVE run.dispatch # r.dispatch
      OBVIOUS
    <3>1. PICK rel \in releases : r = [rel EXCEPT !.found = Bury(rel.found, w)]
      OBVIOUS
    <3>2. r.dispatch = rel.dispatch
      BY <1>0, <3>1
    <3> QED
      BY <2>5, <3>2 DEF IdsApart
  <2> QED
    BY <2>2, <2>3, <2>4, <2>7, <2>8 DEF IdsApart
<1>5. OnRecord'
  <2> SUFFICES ASSUME ~excused'
               PROVE /\ \A v \in Working' : Recorded(Run(v))' /\ ~comments'[1].procDead
                     /\ \A run \in survivors' \ overtaken' : Recorded(run)'
    BY DEF OnRecord
  <2>1. ASSUME NEW run, Recorded(run) PROVE Recorded(run)'
    <3>1. comments[1] \in LockType /\ comments'[1] = Bury(comments[1], w)
      BY <1>1, <2>1 DEF Recorded, Types
    <3> QED
      BY <1>1, <2>1, <3>1 DEF Recorded, Bury, LockType
  <2>2. ASSUME NEW v \in Working' PROVE Recorded(Run(v))' /\ ~comments'[1].procDead
    <3>1. v \in Working /\ v # w /\ v \in Workers /\ dispatch'[v] = dispatch[v]
      BY DEF Working, Types
    <3>2. Recorded(Run(v)) /\ ~comments[1].procDead
      BY <3>1 DEF OnRecord
    <3>3. comments[1] \in LockType /\ comments'[1] = comments[1]
      BY <1>1, <3>1, <3>2, Buried DEF Recorded, Run, Types
    <3> QED
      BY <2>1, <3>1, <3>2, <3>3 DEF Run, Recorded
  <2>3. ASSUME NEW run \in survivors' \ overtaken' PROVE Recorded(run)'
    <3>1. Recorded(run)
      BY DEF OnRecord, Working
    <3> QED
      BY <2>1, <3>1
  <2> QED
    BY <2>2, <2>3
<1>6. FoundStays'
  <2> SUFFICES ASSUME comments = <<>>
               PROVE /\ \A v \in Workers : seen'[v] = NoComment
                     /\ \A r \in releases' : r.found = NoComment
    BY <1>1 DEF FoundStays, Types
  <2>1. \A v \in Workers : seen'[v] = NoComment
    BY Buried DEF FoundStays, Types
  <2>2. ASSUME NEW r \in releases' PROVE r.found = NoComment
    <3>1. PICK rel \in releases : r = [rel EXCEPT !.found = Bury(rel.found, w)]
      BY <2>2
    <3>2. rel.found = NoComment /\ r.found = Bury(rel.found, w)
      BY <1>0, <3>1 DEF FoundStays
    <3> QED
      BY <3>2 DEF Bury
  <2> QED
    BY <2>1, <2>2
<1>7. PostsBounded'
  <2>1. Posting' \subseteq Posting
    BY Buried DEF Posting, Types
  <2> QED
    BY <1>1, <2>1, PostsKept DEF PostsBounded, Types
<1> QED
  BY <1>2, <1>3, <1>4, <1>5, <1>6, <1>7

LEMMA RestartKeeps ==
    ASSUME IInv, NEW w \in Workers, Restart(w) PROVE IInv'
<1> USE DEF IInv, Restart
<1>1. Types' /\ Claims'
  BY DEF Types, Claims
<1>2. IdsApart' /\ OnRecord' /\ FoundStays' /\ PostsBounded'
  BY DEF IdsApart, OnRecord, Working, Run, Recorded, FoundStays, PostsBounded, Posting
<1> QED
  BY <1>1, <1>2

LEMMA SurvivorKeeps ==
    ASSUME IInv, NEW run \in survivors, SurvivorEnds(run) PROVE IInv'
<1> USE DEF IInv, SurvivorEnds
<1>1. Types' /\ Claims' /\ IdsApart'
  BY DEF Types, Claims, IdsApart
<1>2. OnRecord' /\ FoundStays' /\ PostsBounded'
  BY DEF OnRecord, Working, Run, Recorded, FoundStays, PostsBounded, Posting
<1> QED
  BY <1>1, <1>2

\* A change of the age or of the rows of one comment.
LEMMA CommentKeeps ==
    ASSUME IInv, NEW i \in 1..Len(comments), NEW c \in LockType,
           comments' = [comments EXCEPT ![i] = c],
           excused' \in BOOLEAN, excused => excused',
           ~excused' /\ i = 1 => Working = {} /\ survivors \subseteq overtaken,
           UNCHANGED <<up, pc, dispatch, seen, releases, survivors, overtaken, crashes>>
    PROVE  IInv'
<1> USE DEF IInv
<1>1. comments' \in Seq(LockType) /\ Len(comments') = Len(comments)
      /\ comments # <<>> /\ comments' # <<>>
  BY DEF Types
<1>2. Types'
  BY <1>1 DEF Types
<1>3. Claims' /\ IdsApart' /\ FoundStays'
  BY <1>1 DEF Claims, IdsApart, FoundStays
<1>4. OnRecord'
  <2>1. ASSUME ~excused', i # 1, NEW run, Recorded(run) PROVE Recorded(run)'
    BY <1>1, <2>1 DEF Recorded, Types
  <2>2. i # 1 => comments'[1] = comments[1]
    BY <1>1 DEF Types
  <2>3. Working' = Working /\ \A v : Run(v)' = Run(v)
    BY DEF Working, Run
  <2> QED
    BY <2>1, <2>2, <2>3 DEF OnRecord
<1>5. PostsBounded'
  <2>1. Posting' \subseteq Posting
    BY DEF Posting
  <2> QED
    BY <1>1, <2>1, PostsKept DEF PostsBounded, Types
<1> QED
  BY <1>2, <1>3, <1>4, <1>5

LEMMA AgeKeeps ==
    ASSUME IInv, NEW i \in 1..Cardinality(Workers), AgeOut(i) PROVE IInv'
<1> DEFINE old == [comments[i] EXCEPT !.fresh = FALSE]
<1>1. i \in 1..Len(comments)
  BY DEF AgeOut
<1>2. old \in LockType
  <2>1. comments[i] \in LockType
    BY <1>1 DEF IInv, Types
  <2> QED
    BY <2>1 DEF LockType
<1>3. excused' \in BOOLEAN /\ (excused => excused')
  BY DEF AgeOut, IInv, Types
<1>4. comments' = [comments EXCEPT ![i] = old]
  BY <1>1 DEF AgeOut, IInv, Types
<1>5. ~excused' /\ i = 1 => Working = {} /\ survivors \subseteq overtaken
  <2> SUFFICES ASSUME ~excused', i = 1
               PROVE Working = {} /\ survivors \subseteq overtaken
    OBVIOUS
  <2>1. ~excused /\ \A run \in Running : run.dispatch # comments[1].dispatch
    BY DEF AgeOut, IInv, Types
  <2>2. \A v \in Working : Recorded(Run(v)) /\ Run(v) \in Running
    BY <2>1 DEF IInv, OnRecord, Running
  <2>3. \A run \in survivors \ overtaken : Recorded(run) /\ run \in Running
    BY <2>1 DEF IInv, OnRecord, Running
  <2> QED
    BY <2>1, <2>2, <2>3 DEF Recorded
<1> QED
  BY <1>1, <1>2, <1>3, <1>4, <1>5, CommentKeeps DEF AgeOut

LEMMA EditKeeps ==
    ASSUME IInv, ManualEdit PROVE IInv'
<1> DEFINE broken == [comments[1] EXCEPT !.parses = FALSE]
<1>1. 1 \in 1..Len(comments)
  BY DEF ManualEdit, IInv, Types
<1>2. broken \in LockType
  <2>1. comments[1] \in LockType
    BY <1>1 DEF IInv, Types
  <2> QED
    BY <2>1 DEF LockType
<1>3. comments' = [comments EXCEPT ![1] = broken]
  BY <1>1 DEF ManualEdit, IInv, Types
<1>4. excused' = TRUE
  BY DEF ManualEdit
<1> QED
  BY <1>1, <1>2, <1>3, <1>4, CommentKeeps DEF ManualEdit

\* Every action of the lock keeps the invariant.
LEMMA NextPreserves == IInv /\ [Next]_vars => IInv'
<1> SUFFICES ASSUME IInv, [Next]_vars PROVE IInv'
  OBVIOUS
<1>1. ASSUME NEW w \in Workers,
             Refuse(w) \/ DispatchFailsBeforeSpawn(w) PROVE IInv'
  BY <1>1, IdleKeeps DEF Refuse, DispatchFailsBeforeSpawn
<1>2. CASE UNCHANGED vars
  BY <1>2 DEF vars, IInv, Types, Claims, IdsApart, OnRecord, Working, Run, Recorded,
              FoundStays, PostsBounded, Posting
<1> QED
  BY <1>1, <1>2, ReadKeeps, AcquireKeeps, ThrowKeeps, CompleteKeeps, CrashKeeps,
     RestartKeeps, SurvivorKeeps, ReleaseKeeps, DropKeeps, AgeKeeps, EditKeeps DEF Next

\* The invariant of the lock, in every behaviour.
THEOREM Invariance == Spec => []IInv
<1>1. Init => IInv
  BY InitEstablishes
<1>2. IInv /\ [Next]_vars => IInv'
  BY NextPreserves
<1> QED
  BY <1>1, <1>2, PTL DEF Spec

-----------------------------------------------------------------------------
\* Type correctness, with the bound on the comments: one per worker at most.
THEOREM TypeCorrect == Spec => []TypeOK
<1>1. ASSUME IInv PROVE TypeOK
  <2>1. Len(comments) <= Cardinality(Workers)
    <3>1. IsFiniteSet(Posting) /\ IsFiniteSet(Workers)
      BY IdentityAssumption, FS_Subset DEF Posting
    <3>2. /\ Cardinality(Posting) \in Nat /\ Cardinality(Workers) \in Nat
          /\ Len(comments) \in Nat
      BY <1>1, <3>1, FS_CardinalityType DEF IInv, Types
    <3>3. comments = <<>> => Len(comments) = 0
      OBVIOUS
    <3> QED
      BY <1>1, <3>2, <3>3 DEF IInv, PostsBounded
  <2> QED
    BY <1>1, <2>1 DEF IInv, Types, TypeOK
<1> QED
  BY <1>1, Invariance, PTL

\* While nothing excuses it one agent at most works on the card, those that
\* outlived their worker included, but for the ones whose record a worker of
\* their own host has taken: the comment is that of every other run.
THEOREM Exclusive == Spec => []ExclusiveUnlessExcused
<1>1. ASSUME IInv PROVE ExclusiveUnlessExcused
  <2> SUFFICES ASSUME ~excused,
                      NEW run \in Running \ overtaken, NEW other \in Running \ overtaken
               PROVE run = other
    BY DEF ExclusiveUnlessExcused
  <2>1. \A x \in Running \ overtaken :
           Recorded(x) /\ x \in [worker : Workers, dispatch : Dispatches]
    BY <1>1 DEF IInv, OnRecord, Running, Types, Claims, Working, Run
  <2> QED
    BY <2>1 DEF Recorded
<1> QED
  BY <1>1, Invariance, PTL

\* And that comment is the one everybody reads, fresh and not released.
THEOREM RunningOnRecord == Spec => []RunningIsOnRecord
<1>1. ASSUME IInv PROVE RunningIsOnRecord
  <2> SUFFICES ASSUME ~excused, NEW run \in Running \ overtaken
               PROVE /\ LockComment # NoComment
                     /\ LockComment.owner = run.worker
                     /\ LockComment.dispatch = run.dispatch
                     /\ LockComment.fresh /\ ~LockComment.released
    BY DEF RunningIsOnRecord
  <2>1. Recorded(run)
    BY <1>1 DEF IInv, OnRecord, Running
  <2>2. comments[1] \in LockType /\ LockComment = comments[1]
    BY <1>1, <2>1 DEF IInv, Types, Recorded, LockComment
  <2> QED
    BY <2>1, <2>2, NoCommentAssumption DEF Recorded
<1> QED
  BY <1>1, Invariance, PTL
=============================================================================
