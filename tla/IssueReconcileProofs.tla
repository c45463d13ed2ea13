------------------------- MODULE IssueReconcileProofs -------------------------
(***************************************************************************)
(* Proofs about the reconcile of issue cards: first the computed state of a *)
(* card, for every document; then, for every graph of cards, every number   *)
(* of handlers and every interleaving of their calls, that the mutexes and  *)
(* the stacks of calls fit together, that the skip-cache never hides work   *)
(* to do, and that calls wait in a circle only where the cards do.          *)
(***************************************************************************)
EXTENDS IssueReconcile, FiniteSetTheorems, SequenceTheorems, TLAPS

\* The six rungs, one by one.
LEMMA Ladder ==
    /\ LADDER_ORDER["Backlog"] = 1 /\ LADDER_ORDER["Review"] = 2
    /\ LADDER_ORDER["ToDo"] = 3 /\ LADDER_ORDER["InProgress"] = 4
    /\ LADDER_ORDER["Done"] = 5 /\ LADDER_ORDER["Cancelled"] = 6
BY DEF LADDER_ORDER, Columns

\* A column is one of six, and only its own stamps decide it.
LEMMA DeriveType ==
    ASSUME NEW d \in Doc
    PROVE  DeriveStatus(d) \in Columns
BY DEF DeriveStatus, Doc, Columns, Stamps

-----------------------------------------------------------------------------
(* Moves on the board. *)

\* A move to the right keeps the stamps and adds those it passes.
LEMMA MovedRight ==
    ASSUME NEW d \in Doc, NEW dest \in Columns,
           LADDER_ORDER[dest] > LADDER_ORDER[DeriveStatus(d)]
    PROVE  LET m == ApplyListMove(d, dest)
           IN /\ m.status = dest
              /\ \A c \in Stamps : c \in m.stamps <=>
                    \/ c \in d.stamps
                    \/ /\ LADDER_ORDER[DeriveStatus(d)] < LADDER_ORDER[c]
                       /\ LADDER_ORDER[c] <= LADDER_ORDER[dest]
              /\ m.dispatch = IF dest = "InProgress" /\ d.dispatch = "none"
                              THEN "human" ELSE d.dispatch
<1> DEFINE from == LADDER_ORDER[DeriveStatus(d)]
           to == LADDER_ORDER[dest]
           passed == {c \in Stamps : from < LADDER_ORDER[c] /\ LADDER_ORDER[c] <= to}
           held == IF dest = "InProgress" /\ d.dispatch = "none"
                   THEN "human" ELSE d.dispatch
           moved == [d EXCEPT !.status = dest]
<1>1. from \in Nat /\ to \in Nat
  BY Ladder, DeriveType DEF Columns
<1>2. to # from /\ to > from
  BY <1>1
<1>3. ApplyListMove(d, dest) =
        [moved EXCEPT !.stamps = moved.stamps \cup passed, !.dispatch = held]
  BY <1>2 DEF ApplyListMove
<1>4. moved \in Doc /\ moved.stamps = d.stamps /\ moved.status = dest
  BY DEF Doc
<1> HIDE DEF moved, held, from, to
<1>5. /\ ApplyListMove(d, dest).status = dest
      /\ ApplyListMove(d, dest).stamps = d.stamps \cup passed
      /\ ApplyListMove(d, dest).dispatch = held
  BY <1>3, <1>4 DEF Doc
<1> QED
  BY <1>5 DEF held, from, to

\* A move to the left clears the stamps beyond, and the dispatch when it
\* passes In Progress.
LEMMA MovedLeft ==
    ASSUME NEW d \in Doc, NEW dest \in Columns,
           LADDER_ORDER[dest] < LADDER_ORDER[DeriveStatus(d)]
    PROVE  LET m == ApplyListMove(d, dest)
           IN /\ m.status = dest
              /\ \A c \in Stamps : c \in m.stamps <=>
                    \/ c \in d.stamps /\ LADDER_ORDER[c] <= LADDER_ORDER[dest]
                    \/ c = dest
              /\ m.dispatch = IF LADDER_ORDER[dest] < LADDER_ORDER["InProgress"]
                              THEN "none"
                              ELSE IF dest = "InProgress" /\ d.dispatch = "none"
                              THEN "human" ELSE d.dispatch
<1> DEFINE from == LADDER_ORDER[DeriveStatus(d)]
           to == LADDER_ORDER[dest]
           beyond == {c \in Stamps : LADDER_ORDER[c] > to}
           held == IF dest = "InProgress" /\ d.dispatch = "none"
                   THEN "human" ELSE d.dispatch
           kept == IF to < LADDER_ORDER["InProgress"] THEN "none" ELSE held
           moved == [d EXCEPT !.status = dest]
           since == IF dest \in Terminal THEN moved.finished ELSE 0
<1>1. from \in Nat /\ to \in Nat /\ \A c \in Stamps : LADDER_ORDER[c] \in Nat
  <2>1. Stamps \subseteq Columns
    BY DEF Stamps, Columns
  <2> QED
    BY <2>1, Ladder, DeriveType DEF Columns
<1>2. to # from /\ ~(to > from)
  BY <1>1
<1>3. ApplyListMove(d, dest) =
        [moved EXCEPT !.stamps = (moved.stamps \ beyond) \cup ({dest} \cap Stamps),
                      !.finished = since, !.dispatch = kept]
  BY <1>2 DEF ApplyListMove
<1>4. moved \in Doc /\ moved.stamps = d.stamps /\ moved.status = dest
  BY DEF Doc
<1> HIDE DEF moved, kept, held, from, to, since
<1>5. /\ ApplyListMove(d, dest).status = dest
      /\ ApplyListMove(d, dest).stamps = (d.stamps \ beyond) \cup ({dest} \cap Stamps)
      /\ ApplyListMove(d, dest).dispatch = kept
  BY <1>3, <1>4 DEF Doc
<1>6. \A c \in Stamps : LADDER_ORDER[c] > to <=> ~(LADDER_ORDER[c] <= to)
  BY <1>1
<1> QED
  BY <1>5, <1>6 DEF kept, held, to

\* The column of a move is where the card is afterwards: a card that shows its
\* own column can be dragged to any other but Review, and is there (list-move.ts
\* lines 6 to 60, deriveStatus).
THEOREM MoveLands ==
    ASSUME NEW d \in Doc, d.status = DeriveStatus(d),
           NEW dest \in Columns \ {"Review"}
    PROVE  DeriveStatus(ApplyListMove(d, dest)) = dest
<1> DEFINE m == ApplyListMove(d, dest)
<1> SUFFICES DeriveStatus(m) = dest
  OBVIOUS
<1>1. DeriveStatus(d) \in Columns
  BY DeriveType
<1>2. d.stamps \subseteq Stamps /\ d.dispatch \in Dispatches
  BY DEF Doc
<1>3. CASE LADDER_ORDER[dest] = LADDER_ORDER[DeriveStatus(d)]
  <2>1. dest = DeriveStatus(d)
    BY <1>1, <1>3, Ladder DEF Columns
  <2>2. m = [d EXCEPT !.status = dest]
    BY <1>3 DEF ApplyListMove
  <2>3. [d EXCEPT !.status = d.status] = d
    BY DEF Doc
  <2> QED
    BY <2>1, <2>2, <2>3
<1>4. CASE LADDER_ORDER[dest] > LADDER_ORDER[DeriveStatus(d)]
  <2> HIDE DEF m
  <2>1. m.status = dest
    BY <1>4, MovedRight DEF m
  <2>2. \A c \in Stamps : c \in m.stamps <=>
                    \/ c \in d.stamps
                    \/ /\ LADDER_ORDER[DeriveStatus(d)] < LADDER_ORDER[c]
                       /\ LADDER_ORDER[c] <= LADDER_ORDER[dest]
    BY <1>4, MovedRight DEF m
  <2>3. m.dispatch = IF dest = "InProgress" /\ d.dispatch = "none"
                     THEN "human" ELSE d.dispatch
    BY <1>4, MovedRight DEF m
  <2>4. DeriveStatus(d) # "Cancelled" => "Cancelled" \notin d.stamps
    BY DEF DeriveStatus
  <2>5. DeriveStatus(d) \notin Terminal =>
          "Done" \notin d.stamps /\ "Cancelled" \notin d.stamps
    BY DEF DeriveStatus, Terminal
  <2>6. DeriveStatus(d) \notin Terminal \cup {"InProgress"} => d.dispatch = "none"
    BY DEF DeriveStatus, Terminal
  <2>7. CASE dest = "ToDo"
    <3>1. DeriveStatus(d) \in {"Backlog", "Review"}
      BY <1>1, <1>4, <2>7, Ladder DEF Columns
    <3>2. m.dispatch = "none" /\ "Done" \notin d.stamps /\ "Cancelled" \notin d.stamps
      BY <3>1, <2>3, <2>5, <2>6, <2>7 DEF Terminal
    <3>3. "ToDo" \in m.stamps /\ "Done" \notin m.stamps /\ "Cancelled" \notin m.stamps
      BY <3>1, <3>2, <2>2, <2>7, Ladder DEF Stamps
    <3> QED
      BY <3>2, <3>3, <2>7 DEF DeriveStatus
  <2>8. CASE dest = "InProgress"
    <3>1. DeriveStatus(d) \in {"Backlog", "Review", "ToDo"}
      BY <1>1, <1>4, <2>8, Ladder DEF Columns
    <3>2. m.dispatch # "none" /\ "Done" \notin d.stamps /\ "Cancelled" \notin d.stamps
      BY <3>1, <2>3, <2>5, <2>8 DEF Terminal
    <3>3. "Done" \notin m.stamps /\ "Cancelled" \notin m.stamps
      BY <3>2, <2>2, <2>8, Ladder DEF Stamps
    <3> QED
      BY <3>2, <3>3, <2>1, <2>8 DEF DeriveStatus, Terminal
  <2>9. CASE dest = "Done"
    <3>1. DeriveStatus(d) # "Cancelled"
      BY <1>4, <2>9, Ladder
    <3>2. "Done" \in m.stamps /\ "Cancelled" \notin m.stamps
      <4>1. LADDER_ORDER[DeriveStatus(d)] < 5
        BY <1>4, <2>9, Ladder
      <4> QED
        BY <4>1, <3>1, <2>2, <2>4, <2>9, Ladder DEF Stamps
    <3> QED
      BY <3>2, <2>9 DEF DeriveStatus
  <2>10. CASE dest = "Cancelled"
    <3>1. "Cancelled" \in m.stamps
      <4>1. LADDER_ORDER[DeriveStatus(d)] < 6
        BY <1>4, <2>10, Ladder
      <4> QED
        BY <4>1, <2>2, <2>10, Ladder DEF Stamps
    <3> QED
      BY <3>1, <2>10 DEF DeriveStatus
  <2>11. dest # "Backlog"
    BY <1>1, <1>4, Ladder DEF Columns
  <2> QED
    BY <2>7, <2>8, <2>9, <2>10, <2>11 DEF Columns
<1>5. CASE LADDER_ORDER[dest] < LADDER_ORDER[DeriveStatus(d)]
  <2> HIDE DEF m
  <2>1. m.status = dest
    BY <1>5, MovedLeft DEF m
  <2>2. \A c \in Stamps : c \in m.stamps <=>
                    \/ c \in d.stamps /\ LADDER_ORDER[c] <= LADDER_ORDER[dest]
                    \/ c = dest
    BY <1>5, MovedLeft DEF m
  <2>3. m.dispatch = IF LADDER_ORDER[dest] < LADDER_ORDER["InProgress"]
                     THEN "none"
                     ELSE IF dest = "InProgress" /\ d.dispatch = "none"
                     THEN "human" ELSE d.dispatch
    BY <1>5, MovedLeft DEF m
  <2>4. DeriveStatus(m) = dest
    BY <2>1, <2>2, <2>3, <1>2, Ladder DEF DeriveStatus, Columns, Stamps, Terminal, Dispatches
  <2> QED
    BY <2>4
<1>6. LADDER_ORDER[dest] \in Nat /\ LADDER_ORDER[DeriveStatus(d)] \in Nat
  BY <1>1, Ladder DEF Columns
<1> QED
  BY <1>3, <1>4, <1>5, <1>6

-----------------------------------------------------------------------------
(* The projection at rest. *)

\* The heals before the rollup, field by field.
LEMMA Healed ==
    ASSUME NEW d \in Doc, NEW epic \in BOOLEAN, NEW S, NEW here \in BOOLEAN,
           ~(here /\ d.dispatch = "agent")
    PROVE  LET r == EpicReset(ParseIssue(d), epic, S)
               h == FreeBlocked(ReapDispatch(r, here))
           IN /\ r \in Doc /\ h \in Doc
              /\ h.status = r.status /\ h.stamps = r.stamps
              /\ h.dispatch = "none" /\ h.blocked = r.blocked
              /\ h.blocked => ~h.owned
<1> DEFINE p == ParseIssue(d)
           r == EpicReset(p, epic, S)
           a == ReapDispatch(r, here)
           h == FreeBlocked(a)
<1>1. p \in Doc /\ p.dispatch = d.dispatch
  BY DeriveType DEF ParseIssue, Doc
<1> HIDE DEF p
<1>2. r \in Doc /\ (r.dispatch = d.dispatch \/ r.dispatch = "none")
  BY <1>1 DEF EpicReset, Doc, Stamps, Columns, Dispatches
<1> HIDE DEF r
<1>3. a = [r EXCEPT !.dispatch = "none"]
  BY <1>2 DEF ReapDispatch
<1> HIDE DEF a
<1>4. /\ a \in Doc /\ a.status = r.status /\ a.stamps = r.stamps
      /\ a.dispatch = "none" /\ a.blocked = r.blocked
  BY <1>2, <1>3 DEF Doc, Dispatches
<1>5. /\ h \in Doc /\ h.status = a.status /\ h.stamps = a.stamps
      /\ h.dispatch = a.dispatch /\ h.blocked = a.blocked
      /\ h.blocked => ~h.owned
  BY <1>4 DEF FreeBlocked, Doc
<1> HIDE DEF h
<1> QED
  BY <1>2, <1>4, <1>5 DEF h, a, r, p

\* A card that nothing is left to do for is not touched.
LEMMA AtRest ==
    ASSUME NEW q \in Doc, NEW epic \in BOOLEAN, NEW waits \in BOOLEAN, NEW S,
           NEW here \in BOOLEAN,
           ParseIssue(q) = q, q.dispatch = "none", q.blocked => ~q.owned,
           epic /\ ~(S \subseteq Terminal) => q.stamps \cap Terminal = {} /\ ~q.blocked,
           S # {} /\ ~waits => DeriveParentStatus(S) \in {"mixed", q.status}
    PROVE  Projected(q, epic, waits, S, here) = q
<1>1. EpicReset(q, epic, S) = q
  BY DEF EpicReset
<1>2. ReapDispatch(q, here) = q
  BY DEF ReapDispatch, Doc
<1>3. FreeBlocked(q) = q
  BY DEF FreeBlocked, Doc
<1>4. RollUp(q, waits, S) = q
  BY DEF RollUp
<1> QED
  BY <1>1, <1>2, <1>3, <1>4 DEF Projected

\* A parent with a child that is not finished takes no finished column.
LEMMA UnfinishedChild ==
    ASSUME NEW S \in SUBSET Columns, ~(S \subseteq Terminal)
    PROVE  DeriveParentStatus(S) \notin Terminal
<1>1. PICK c \in S : c \in Columns \ Terminal
  OBVIOUS
<1>2. c \in S \ {"Cancelled"} /\ c # "Done"
  BY <1>1 DEF Terminal
<1>3. S \ {"Cancelled"} # {} /\ S \ {"Cancelled"} # {"Done"}
  BY <1>2
<1>4. CASE S \ {"Cancelled"} = {"Review"}
  BY <1>3, <1>4 DEF DeriveParentStatus, Terminal
<1>5. CASE S \ {"Cancelled"} = {"Backlog"}
  BY <1>3, <1>5 DEF DeriveParentStatus, Terminal
<1>6. CASE S \ {"Cancelled"} \notin {{"Review"}, {"Backlog"}}
  BY <1>3, <1>6 DEF DeriveParentStatus, Terminal
<1> QED
  BY <1>4, <1>5, <1>6

\* The columns a rollup can give.
LEMMA ParentColumn ==
    ASSUME NEW S, DeriveParentStatus(S) # "mixed"
    PROVE  DeriveParentStatus(S) \in Columns
BY DEF DeriveParentStatus, Columns

\* Reading twice is reading once, when no dispatch holds the card: one whose
\* file says a terminal status without its stamp is read as its stamps say
\* first and as in progress from then on.
LEMMA ReadOnce ==
    ASSUME NEW d \in Doc
    PROVE  /\ ParseIssue(d) \in Doc
           /\ d.dispatch = "none" => ParseIssue(ParseIssue(d)) = ParseIssue(d)
           /\ ParseIssue(d).status = DeriveStatus(d)
           /\ ParseIssue(d).stamps = d.stamps /\ ParseIssue(d).dispatch = d.dispatch
           /\ ParseIssue(d).blocked = d.blocked /\ ParseIssue(d).owned = d.owned
<1> DEFINE p == ParseIssue(d)
<1>1. /\ p \in Doc /\ p.status = DeriveStatus(d) /\ p.stamps = d.stamps
      /\ p.dispatch = d.dispatch /\ p.blocked = d.blocked /\ p.owned = d.owned
  BY DeriveType DEF ParseIssue, Doc
<1> HIDE DEF p
<1>2. d.dispatch = "none" => DeriveStatus(p) = p.status
  BY <1>1 DEF DeriveStatus
<1>3. d.dispatch = "none" => ParseIssue(p) = p
  BY <1>1, <1>2 DEF ParseIssue, Doc
<1> QED
  BY <1>1, <1>3 DEF p

\* The second reconcile of a card finds nothing to write: what the first one
\* wrote, read again, is projected to itself (reconcile.ts lines 703 to 706,
\* a steady state re-derives to zero writes).  It needs that no stamp below
\* the terminal ones pins the card, that this host works on no agent's
\* dispatch of it, and that no cancelled parent has its children done.
THEOREM ProjectionSettles ==
    ASSUME NEW d \in Doc, NEW S \in SUBSET Columns, NEW epic \in BOOLEAN,
           NEW waits \in BOOLEAN, NEW here \in BOOLEAN,
           ~(here /\ d.dispatch = "agent"),
           d.stamps \cap {"ToDo", "Backlog"} = {},
           ~("Cancelled" \in d.stamps /\ DeriveParentStatus(S) = "Done")
    PROVE  LET q == ParseIssue(Projected(d, epic, waits, S, here))
           IN Projected(q, epic, waits, S, here) = q
<1> DEFINE r == EpicReset(ParseIssue(d), epic, S)
           h == FreeBlocked(ReapDispatch(r, here))
           col == DeriveParentStatus(S)
           w == RollUp(h, waits, S)
           q == ParseIssue(w)
           resets == /\ epic /\ ~(S \subseteq Terminal)
                     /\ \/ d.stamps \cap Terminal # {} \/ d.blocked
                        \/ d.dispatch # "none"
<1>1. w = Projected(d, epic, waits, S, here)
  BY DEF Projected
<1>2. /\ h \in Doc /\ h.status = r.status /\ h.stamps = r.stamps
      /\ h.dispatch = "none" /\ h.blocked = r.blocked /\ (h.blocked => ~h.owned)
  BY Healed
\* What the heals leave: a card whose own column is the one it shows.
<1>3. /\ r.stamps \subseteq d.stamps
      /\ epic /\ ~(S \subseteq Terminal) =>
            r.stamps \cap Terminal = {} /\ ~r.blocked
      /\ DeriveStatus(h) = h.status
  <2>1. CASE resets
    <3>1. r = [ParseIssue(d) EXCEPT !.status = "ToDo", !.stamps = @ \cap {"Backlog"},
                                    !.blocked = FALSE, !.dispatch = "none",
                                    !.finished = 0]
      BY <2>1, ReadOnce DEF EpicReset
    <3>2. /\ r.status = "ToDo" /\ r.stamps = d.stamps \cap {"Backlog"}
          /\ r.blocked = FALSE
      BY <3>1, ReadOnce DEF Doc
    <3>3. r.stamps = {}
      BY <3>2
    <3> QED
      BY <3>2, <3>3, <1>2 DEF DeriveStatus
  <2>2. CASE ~resets
    <3>1. r = ParseIssue(d)
      BY <2>2, ReadOnce DEF EpicReset
    <3>2. r.status = DeriveStatus(d) /\ r.stamps = d.stamps /\ r.blocked = d.blocked
      BY <3>1, ReadOnce
    <3>3. DeriveStatus(h) = h.status
      BY <3>2, <1>2 DEF DeriveStatus, Terminal
    <3> QED
      BY <2>2, <3>2, <3>3
  <2> QED
    BY <2>1, <2>2
<1> HIDE DEF r, h
<1>4. ~("Cancelled" \in h.stamps /\ col = "Done")
  BY <1>2, <1>3
<1>5. h.stamps \subseteq d.stamps
  BY <1>2, <1>3
<1>6. /\ w \in Doc /\ w.dispatch = "none" /\ (w.blocked => ~w.owned)
      /\ w.blocked = h.blocked
      /\ DeriveStatus(w) = w.status
      /\ S # {} /\ ~waits => col \in {"mixed", w.status}
      /\ epic /\ ~(S \subseteq Terminal) => w.stamps \cap Terminal = {}
  <2>1. CASE S # {} /\ ~waits /\ col \notin {"mixed", h.status}
    <3>1. col \in Columns
      BY <2>1, ParentColumn
    <3> HIDE DEF col
    <3>2. w = ApplyParentDerive(h, col)
      BY <2>1 DEF RollUp, col
    <3> HIDE DEF w
    <3>3. CASE col \in Terminal
      <4>1. w = [h EXCEPT !.status = col, !.stamps = h.stamps \cup {col}]
        BY <3>2, <3>3 DEF ApplyParentDerive
      <4>2. /\ w \in Doc /\ w.status = col /\ w.stamps = h.stamps \cup {col}
            /\ w.dispatch = h.dispatch /\ w.blocked = h.blocked /\ w.owned = h.owned
        BY <4>1, <3>1, <3>3, <1>2 DEF Doc, Terminal, Stamps
      <4>3. DeriveStatus(w) = w.status
        BY <4>2, <3>3, <1>4 DEF DeriveStatus, Terminal
      <4>4. ~(epic /\ ~(S \subseteq Terminal))
        BY <3>3, UnfinishedChild DEF col
      <4> QED
        BY <4>2, <4>3, <4>4, <1>2
    <3>4. CASE col \notin Terminal
      <4>1. w = [h EXCEPT !.status = col, !.stamps = h.stamps \ Terminal,
                          !.finished = 0]
        BY <3>2, <3>4 DEF ApplyParentDerive
      <4>2. /\ w \in Doc /\ w.status = col /\ w.stamps = h.stamps \ Terminal
            /\ w.dispatch = h.dispatch /\ w.blocked = h.blocked /\ w.owned = h.owned
        BY <4>1, <3>1, <1>2 DEF Doc
      <4>3. DeriveStatus(w) = w.status
        BY <4>2, <1>2, <1>5 DEF DeriveStatus, Terminal
      <4> QED
        BY <4>2, <4>3, <1>2
    <3> QED
      BY <3>3, <3>4
  <2>2. CASE ~(S # {} /\ ~waits /\ col \notin {"mixed", h.status})
    <3>1. w = h
      BY <2>2 DEF RollUp
    <3> QED
      BY <3>1, <2>2, <1>2, <1>3
  <2> QED
    BY <2>1, <2>2
<1> HIDE DEF w, col
<1>7. /\ q \in Doc /\ ParseIssue(q) = q /\ q.status = w.status
      /\ q.stamps = w.stamps /\ q.dispatch = "none" /\ q.blocked = w.blocked
      /\ q.owned = w.owned
  BY <1>6, ReadOnce
<1>8. ~h.blocked \/ ~(epic /\ ~(S \subseteq Terminal))
  BY <1>2, <1>3
<1> HIDE DEF q
<1>9. Projected(q, epic, waits, S, here) = q
  BY <1>6, <1>7, <1>8, AtRest DEF col
<1> QED
  BY <1>1, <1>9 DEF q

\* Reading a card leaves all of it but the status, and keeps it in its bucket.
LEMMA ParseKeeps ==
    ASSUME NEW d \in Doc
    PROVE  /\ ParseIssue(d) \in Doc
           /\ ParseIssue(d).finished = d.finished
           /\ Closes(ParseIssue(d)) = Closes(d)
<1> DEFINE p == ParseIssue(d)
<1>1. p \in Doc /\ p.status = DeriveStatus(d) /\ p.stamps = d.stamps
      /\ p.dispatch = d.dispatch
  BY ReadOnce
<1>2. p.finished = d.finished
  BY DEF ParseIssue, Doc
<1> HIDE DEF p
<1>3. Closes(p) = Closes(d)
  BY <1>1 DEF Closes, DeriveStatus, Terminal
<1> QED
  BY <1>1, <1>2, <1>3 DEF p

\* The heals and the rollup keep a document a document, and invent no report.
LEMMA ProjectedType ==
    ASSUME NEW d \in Doc, NEW S \in SUBSET Columns, NEW epic \in BOOLEAN,
           NEW waits \in BOOLEAN, NEW here \in BOOLEAN
    PROVE  /\ Projected(d, epic, waits, S, here) \in Doc
           /\ Projected(d, epic, waits, S, here).finished <= d.finished
<1> DEFINE p == ParseIssue(d)
           r == EpicReset(p, epic, S)
           a == ReapDispatch(r, here)
           h == FreeBlocked(a)
           col == DeriveParentStatus(S)
           w == RollUp(h, waits, S)
<1>0. d.finished \in Nat
  BY DEF Doc
<1>1. p \in Doc /\ p.finished = d.finished
  BY ParseKeeps
<1> HIDE DEF p
<1>2. r \in Doc /\ r.finished \in {0, p.finished}
  BY <1>1 DEF EpicReset, Doc, Stamps, Columns, Dispatches
<1> HIDE DEF r
<1>3. a \in Doc /\ a.finished = r.finished
  BY <1>2 DEF ReapDispatch, Doc, Dispatches
<1> HIDE DEF a
<1>4. h \in Doc /\ h.finished = a.finished
  BY <1>3 DEF FreeBlocked, Doc
<1> HIDE DEF h
<1>5. w \in Doc /\ w.finished \in {0, h.finished}
  <2>1. CASE S # {} /\ ~waits /\ col \notin {"mixed", h.status}
    <3>1. col \in Columns
      BY <2>1, ParentColumn
    <3>2. w = ApplyParentDerive(h, col)
      BY <2>1 DEF RollUp
    <3> HIDE DEF col, w
    <3>3. CASE col \in Terminal
      <4>1. w = [h EXCEPT !.status = col, !.stamps = h.stamps \cup {col}]
        BY <3>2, <3>3 DEF ApplyParentDerive
      <4> QED
        BY <4>1, <3>1, <3>3, <1>4 DEF Doc, Terminal, Stamps
    <3>4. CASE col \notin Terminal
      <4>1. w = [h EXCEPT !.status = col, !.stamps = h.stamps \ Terminal, !.finished = 0]
        BY <3>2, <3>4 DEF ApplyParentDerive
      <4> QED
        BY <4>1, <3>1, <1>4 DEF Doc
    <3> QED
      BY <3>3, <3>4
  <2>2. CASE ~(S # {} /\ ~waits /\ col \notin {"mixed", h.status})
    BY <2>2, <1>4 DEF RollUp
  <2> QED
    BY <2>1, <2>2
<1> HIDE DEF w
<1>6. w.finished <= d.finished
  <2>1. w.finished \in {0, d.finished}
    BY <1>1, <1>2, <1>3, <1>4, <1>5
  <2> QED
    BY <2>1, <1>0
<1> QED
  BY <1>5, <1>6 DEF w, h, a, r, p, Projected

\* Reconcile has nothing to do for the card, if this host has its agent.
LeftAlone(d, epic, waits, S) == Projected(d, epic, waits, S, TRUE) = ParseIssue(d)

\* A card that its reconcile leaves alone is left alone whether or not this host
\* has its agent.
LEMMA SettledAlive ==
    ASSUME NEW d \in Doc, NEW S \in SUBSET Columns, NEW epic \in BOOLEAN,
           NEW waits \in BOOLEAN, NEW here \in BOOLEAN,
           Projected(d, epic, waits, S, here) = ParseIssue(d)
    PROVE  LeftAlone(d, epic, waits, S)
<1> DEFINE r == EpicReset(ParseIssue(d), epic, S)
           h == FreeBlocked(ReapDispatch(r, here))
           col == DeriveParentStatus(S)
<1>1. CASE here
  BY <1>1 DEF LeftAlone
<1>2. CASE ~here
  <2>1. h.dispatch = "none" /\ h \in Doc /\ r \in Doc
    BY <1>2, Healed
  <2>2. RollUp(h, waits, S) = ParseIssue(d)
    BY DEF Projected
  <2>3. RollUp(h, waits, S).dispatch = "none"
    <3> HIDE DEF h
    <3> QED
      BY <2>1 DEF RollUp, ApplyParentDerive, Doc
  <2>4. d.dispatch = "none" /\ ParseIssue(d).dispatch = "none"
    BY <2>2, <2>3, ReadOnce
  <2>5. r.dispatch = "none"
    <3>1. ParseIssue(d) \in Doc
      BY ReadOnce
    <3> QED
      BY <2>4, <3>1 DEF EpicReset, Doc
  <2>6. ReapDispatch(r, TRUE) = ReapDispatch(r, here)
    BY <2>5, <2>1, <1>2 DEF ReapDispatch, Doc
  <2> QED
    BY <2>6 DEF Projected, LeftAlone
<1> QED
  BY <1>1, <1>2

\* What the reset of an epic leaves.
LEMMA ResetLeaves ==
    ASSUME NEW d \in Doc, NEW epic \in BOOLEAN, NEW S
    PROVE  LET r == EpicReset(ParseIssue(d), epic, S)
           IN /\ r \in Doc
              /\ epic /\ ~(S \subseteq Terminal) =>
                    r.stamps \cap Terminal = {} /\ ~r.blocked /\ r.dispatch = "none"
              /\ \/ r.status = DeriveStatus(d) /\ r.stamps = d.stamps
                 \/ r.status = "ToDo" /\ r.stamps \subseteq {"Backlog"}
<1> DEFINE p == ParseIssue(d)
           r == EpicReset(p, epic, S)
           resets == /\ epic /\ ~(S \subseteq Terminal)
                  /\ \/ p.stamps \cap Terminal # {} \/ p.blocked
                     \/ p.dispatch # "none"
<1>1. p \in Doc /\ p.status = DeriveStatus(d) /\ p.stamps = d.stamps
  BY ReadOnce
<1> HIDE DEF p
<1>2. CASE resets
  <2>1. r = [p EXCEPT !.status = "ToDo", !.stamps = p.stamps \cap {"Backlog"},
                      !.blocked = FALSE, !.dispatch = "none", !.finished = 0]
    BY <1>2 DEF EpicReset
  <2> HIDE DEF r, resets
  <2>2. r \in Doc
    BY <1>1, <2>1 DEF Doc, Stamps, Columns, Dispatches
  <2>3. r.status = "ToDo" /\ r.stamps = p.stamps \cap {"Backlog"} /\ r.dispatch = "none"
    BY <1>1, <2>1 DEF Doc
  <2>4. ~r.blocked
    BY <1>1, <2>1 DEF Doc
  <2> QED
    BY <2>2, <2>3, <2>4 DEF r, p, Terminal
<1>3. CASE ~resets
  <2>1. r = p
    BY <1>3 DEF EpicReset
  <2> QED
    BY <1>1, <1>3, <2>1 DEF p
<1> QED
  BY <1>2, <1>3

\* What the heals before the rollup leave, whoever works on the card.
LEMMA HealedAny ==
    ASSUME NEW r \in Doc, NEW here \in BOOLEAN
    PROVE  LET h == FreeBlocked(ReapDispatch(r, here))
           IN /\ h \in Doc /\ h.status = r.status /\ h.stamps = r.stamps
              /\ h.blocked = r.blocked /\ (h.blocked => ~h.owned)
              /\ h.dispatch \in {"none", "agent"}
              /\ h.dispatch \in {"none", r.dispatch}
<1> DEFINE a == ReapDispatch(r, here)
           h == FreeBlocked(a)
<1>1. /\ a \in Doc /\ a.status = r.status /\ a.stamps = r.stamps
      /\ a.blocked = r.blocked
      /\ a.dispatch \in {"none", "agent"} /\ a.dispatch \in {"none", r.dispatch}
  <2>1. CASE r.dispatch = "agent" /\ here
    BY <2>1 DEF ReapDispatch
  <2>2. CASE ~(r.dispatch = "agent" /\ here)
    <3>1. a = [r EXCEPT !.dispatch = "none"]
      BY <2>2 DEF ReapDispatch
    <3> HIDE DEF a
    <3>2. /\ a \in Doc /\ a.status = r.status /\ a.stamps = r.stamps
          /\ a.dispatch = "none"
      BY <3>1 DEF Doc, Dispatches
    <3>3. a.blocked = r.blocked
      BY <3>1 DEF Doc
    <3> QED
      BY <3>2, <3>3
  <2> QED
    BY <2>1, <2>2
<1> HIDE DEF a
<1>2. /\ h \in Doc /\ h.status = a.status /\ h.stamps = a.stamps
      /\ h.dispatch = a.dispatch /\ h.blocked = a.blocked
      /\ h.blocked => ~h.owned
  BY <1>1 DEF FreeBlocked, Doc
<1> HIDE DEF h
<1> QED
  BY <1>1, <1>2 DEF h, a

\* A card that no heal concerns and that shows its children's column is read
\* and left.
LEMMA Resting ==
    ASSUME NEW w \in Doc, NEW epic \in BOOLEAN, NEW waits \in BOOLEAN, NEW S,
           w.dispatch \in {"none", "agent"}, w.blocked => ~w.owned,
           epic /\ ~(S \subseteq Terminal) =>
               w.stamps \cap Terminal = {} /\ ~w.blocked /\ w.dispatch = "none",
           S # {} /\ ~waits => DeriveParentStatus(S) \in {"mixed", DeriveStatus(w)}
    PROVE  LeftAlone(w, epic, waits, S)
<1> DEFINE p == ParseIssue(w)
<1>1. /\ p \in Doc /\ p.status = DeriveStatus(w) /\ p.stamps = w.stamps
      /\ p.dispatch = w.dispatch /\ p.blocked = w.blocked /\ p.owned = w.owned
  BY ReadOnce
<1> HIDE DEF p
<1>2. EpicReset(p, epic, S) = p
  BY <1>1 DEF EpicReset
<1>3. ReapDispatch(p, TRUE) = p
  BY <1>1 DEF ReapDispatch, Doc
<1>4. FreeBlocked(p) = p
  BY <1>1 DEF FreeBlocked, Doc
<1>5. RollUp(p, waits, S) = p
  BY <1>1 DEF RollUp
<1> QED
  BY <1>2, <1>3, <1>4, <1>5 DEF Projected, p, LeftAlone

\* What a reconcile writes it would leave alone, unless an earlier stamp or a
\* dispatch pins a parent.
LEMMA SettledAfter ==
    ASSUME NEW d \in Doc, NEW S \in SUBSET Columns, NEW epic \in BOOLEAN,
           NEW waits \in BOOLEAN, NEW here \in BOOLEAN,
           LET w == Projected(d, epic, waits, S, here) IN
           \/ S = {}
           \/ /\ w.stamps \cap {"ToDo", "Backlog"} = {} /\ w.dispatch = "none"
              /\ ~("Cancelled" \in w.stamps /\ DeriveParentStatus(S) = "Done")
    PROVE  LET w == Projected(d, epic, waits, S, here) IN
           LeftAlone(w, epic, waits, S)
<1> DEFINE r == EpicReset(ParseIssue(d), epic, S)
           h == FreeBlocked(ReapDispatch(r, here))
           col == DeriveParentStatus(S)
           w == RollUp(h, waits, S)
           rolls == S # {} /\ ~waits /\ col \notin {"mixed", h.status}
<1>1. w = Projected(d, epic, waits, S, here)
  BY DEF Projected
<1>2. /\ r \in Doc
      /\ epic /\ ~(S \subseteq Terminal) =>
            r.stamps \cap Terminal = {} /\ ~r.blocked /\ r.dispatch = "none"
  BY ResetLeaves
<1>3. \/ r.status = DeriveStatus(d) /\ r.stamps = d.stamps
      \/ r.status = "ToDo" /\ r.stamps \subseteq {"Backlog"}
  BY ResetLeaves
<1> HIDE DEF r
<1>4. /\ h \in Doc /\ h.status = r.status /\ h.stamps = r.stamps /\ h.blocked = r.blocked
      /\ h.blocked => ~h.owned
      /\ h.dispatch \in {"none", "agent"} /\ h.dispatch \in {"none", r.dispatch}
  BY <1>2, HealedAny
<1>5. h.dispatch = "none" /\ h.stamps \cap {"ToDo", "Backlog"} = {}
        => DeriveStatus(h) = h.status
  BY <1>4, <1>3 DEF DeriveStatus, Terminal, Doc, Stamps
<1> HIDE DEF h
<1>6. CASE ~rolls
  <2>1. w = h
    BY <1>6 DEF RollUp
  <2>2. S # {} /\ ~waits => col \in {"mixed", DeriveStatus(h)}
    BY <1>1, <1>5, <1>6, <2>1
  <2>3. LeftAlone(h, epic, waits, S)
    <3>1. h.dispatch \in {"none", "agent"}
      BY <1>2, <1>4
    <3>2. epic /\ ~(S \subseteq Terminal) =>
            h.stamps \cap Terminal = {} /\ ~h.blocked /\ h.dispatch = "none"
      BY <1>2, <1>4
    <3> QED
      <4>1. h \in Doc /\ (h.blocked => ~h.owned)
        BY <1>2, <1>4
      <4> HIDE DEF col, w, rolls
      <4> QED
        BY <4>1, <2>2, <3>1, <3>2, Resting DEF col
  <2> QED
    BY <1>1, <2>1, <2>3
<1>7. CASE rolls
  <2>1. col \in Columns
    BY <1>7, ParentColumn
  <2>2. w = ApplyParentDerive(h, col)
    BY <1>7 DEF RollUp
  <2>3. /\ w.stamps \cap {"ToDo", "Backlog"} = {} /\ w.dispatch = "none"
        /\ ~("Cancelled" \in w.stamps /\ col = "Done")
    BY <1>1, <1>7
  <2>4. col \in Terminal => S \subseteq Terminal
    BY UnfinishedChild
  <2> HIDE DEF col, w
  <2>5. /\ w \in Doc /\ w.status = col /\ w.blocked = h.blocked /\ w.owned = h.owned
        /\ w.stamps = IF col \in Terminal THEN h.stamps \cup {col}
                                          ELSE h.stamps \ Terminal
    <3>1. CASE col \in Terminal
      <4>1. w = [h EXCEPT !.status = col, !.stamps = h.stamps \cup {col}]
        BY <2>2, <3>1 DEF ApplyParentDerive
      <4> QED
        BY <4>1, <3>1, <2>1, <1>4 DEF Doc, Terminal, Stamps
    <3>2. CASE col \notin Terminal
      <4>1. w = [h EXCEPT !.status = col, !.stamps = h.stamps \ Terminal, !.finished = 0]
        BY <2>2, <3>2 DEF ApplyParentDerive
      <4> QED
        BY <4>1, <3>2, <2>1, <1>4 DEF Doc
    <3> QED
      BY <3>1, <3>2
  <2>6. DeriveStatus(w) = col
    BY <2>3, <2>5 DEF DeriveStatus, Terminal, Doc, Stamps
  <2>7. epic /\ ~(S \subseteq Terminal) =>
            w.stamps \cap Terminal = {} /\ ~w.blocked /\ w.dispatch = "none"
    BY <1>2, <1>4, <2>3, <2>4, <2>5
  <2>8. LeftAlone(w, epic, waits, S)
    <3>1. w \in Doc /\ (w.blocked => ~w.owned) /\ w.dispatch \in {"none", "agent"}
      BY <1>2, <1>4, <2>3, <2>5
    <3>2. DeriveParentStatus(S) \in {"mixed", DeriveStatus(w)}
      BY <2>6 DEF col
    <3> QED
      BY <2>7, <3>1, <3>2, Resting
  <2> QED
    BY <1>1, <2>8
<1> QED
  BY <1>6, <1>7

\* A move leaves a document that says where it was moved to, and invents no
\* report: the board may file it by that.
LEMMA MoveFiles ==
    ASSUME NEW d \in Doc, NEW dest \in Columns
    PROVE  LET m == ApplyListMove(d, dest) IN
           /\ m \in Doc /\ m.finished <= d.finished
           /\ m.status = dest /\ (Closes(m) <=> dest \in Terminal)
<1> DEFINE m == ApplyListMove(d, dest)
           from == LADDER_ORDER[DeriveStatus(d)]
           to == LADDER_ORDER[dest]
           beyond == {c \in Stamps : LADDER_ORDER[c] > to}
           passed == {c \in Stamps : from < LADDER_ORDER[c] /\ LADDER_ORDER[c] <= to}
           held == IF dest = "InProgress" /\ d.dispatch = "none"
                   THEN "human" ELSE d.dispatch
           moved == [d EXCEPT !.status = dest]
           kept == IF to < LADDER_ORDER["InProgress"] THEN "none" ELSE held
           since == IF dest \in Terminal THEN moved.finished ELSE 0
<1>1. Stamps \subseteq Columns /\ DeriveStatus(d) \in Columns
  BY DeriveType DEF Stamps, Columns
<1>2. from \in Nat /\ to \in Nat /\ \A c \in Stamps : LADDER_ORDER[c] \in Nat
  BY <1>1, Ladder DEF Columns
<1>3. /\ moved \in Doc /\ moved.status = dest /\ moved.stamps = d.stamps
      /\ moved.finished = d.finished /\ d.finished \in Nat
  BY DEF Doc
<1>4. held \in Dispatches
  BY DEF Dispatches, Doc
<1>5. "Cancelled" \in d.stamps \/ "Done" \in d.stamps => DeriveStatus(d) \in Terminal
  BY DEF DeriveStatus, Terminal
<1>6. dest \notin Terminal => to < LADDER_ORDER["Done"] /\ to < LADDER_ORDER["Cancelled"]
  BY Ladder DEF Columns, Terminal
<1>7. DeriveStatus(d) \in Terminal => from >= LADDER_ORDER["Done"]
  BY Ladder DEF Terminal
<1>8. CASE to = from
  <2>1. dest = DeriveStatus(d)
    BY <1>1, <1>8, Ladder DEF Columns
  <2>2. m = moved
    BY <1>8 DEF ApplyListMove
  <2> HIDE DEF m, moved, from, to
  <2>3. Closes(m) <=> dest \in Terminal
    BY <1>3, <1>5, <2>1, <2>2 DEF Closes, DeriveStatus, Terminal
  <2> QED
    BY <1>3, <2>2, <2>3 DEF m
<1>9. CASE to > from
  <2>1. m = [moved EXCEPT !.stamps = moved.stamps \cup passed, !.dispatch = held]
    BY <1>9, <1>2 DEF ApplyListMove
  <2>2. passed \subseteq Stamps
    OBVIOUS
  <2>3. dest \in Terminal => dest \in passed
    BY <1>2, <1>9 DEF Terminal, Stamps
  <2>4. dest \notin Terminal => "Done" \notin passed /\ "Cancelled" \notin passed
    BY <1>2, <1>6 DEF Stamps
  <2>5. dest \notin Terminal => "Done" \notin d.stamps /\ "Cancelled" \notin d.stamps
    <3>1. LADDER_ORDER["Done"] \in Nat
      BY <1>2 DEF Stamps
    <3> QED
      BY <1>2, <1>5, <1>6, <1>7, <1>9, <3>1
  <2> HIDE DEF m, moved, passed, held, from, to
  <2>6. /\ m \in Doc /\ m.finished = d.finished /\ m.status = dest
        /\ m.stamps = d.stamps \cup passed
    BY <2>1, <2>2, <1>3, <1>4 DEF Doc
  <2>7. Closes(m) <=> dest \in Terminal
    BY <2>3, <2>4, <2>5, <2>6 DEF Closes, DeriveStatus, Terminal
  <2> QED
    BY <1>3, <2>6, <2>7 DEF m
<1>10. CASE ~(to = from) /\ ~(to > from)
  <2>1. m = [moved EXCEPT !.stamps = (moved.stamps \ beyond) \cup ({dest} \cap Stamps),
                          !.finished = since, !.dispatch = kept]
    BY <1>10 DEF ApplyListMove
  <2>2. dest \notin Terminal => "Done" \in beyond /\ "Cancelled" \in beyond
    BY <1>2, <1>6 DEF Stamps
  <2>3. kept \in Dispatches /\ since \in Nat /\ since <= d.finished
    BY <1>3, <1>4 DEF Dispatches
  <2> HIDE DEF m, moved, beyond, held, from, to, kept, since
  <2>4. /\ m \in Doc /\ m.finished = since /\ m.status = dest
        /\ m.stamps = (d.stamps \ beyond) \cup ({dest} \cap Stamps)
    BY <2>1, <2>3, <1>3 DEF Doc
  <2>5. Closes(m) <=> dest \in Terminal
    BY <2>2, <2>4 DEF Closes, DeriveStatus, Terminal, Stamps
  <2> QED
    BY <2>3, <2>4, <2>5 DEF m
<1> QED
  BY <1>8, <1>9, <1>10

-----------------------------------------------------------------------------
(* Queues and stacks. *)

\* The threads in the queue of a mutex; and that none is in it twice.
Members(q) == {q[i] : i \in 1..Len(q)}
Distinct(q) == \A i, j \in 1..Len(q) : q[i] = q[j] => i = j

\* A newcomer goes to the end of the queue.
LEMMA JoinedQueue ==
    ASSUME NEW S, NEW q \in Seq(S), NEW t \in S, Distinct(q), t \notin Members(q)
    PROVE  /\ Append(q, t) \in Seq(S) /\ Append(q, t) # <<>>
           /\ Distinct(Append(q, t))
           /\ Members(Append(q, t)) = Members(q) \cup {t}
           /\ q # <<>> => Head(Append(q, t)) = Head(q)
<1> DEFINE r == Append(q, t)
<1>1. /\ r \in Seq(S) /\ Len(r) = Len(q) + 1 /\ Len(q) \in Nat
      /\ r[Len(q) + 1] = t /\ \A i \in 1..Len(q) : r[i] = q[i]
  OBVIOUS
<1>2. r # <<>> /\ (q # <<>> => Head(r) = Head(q))
  <2>1. r # <<>> /\ Head(r) = r[1]
    OBVIOUS
  <2>2. ASSUME q # <<>>
        PROVE  Head(r) = Head(q)
    <3>1. Head(q) = q[1] /\ 1 \in 1..Len(q)
      BY <2>2
    <3> QED
      BY <1>1, <2>1, <3>1
  <2> QED
    BY <2>1, <2>2
<1> HIDE DEF r
<1>3. \A i \in 1..Len(r) : i \in 1..Len(q) \/ i = Len(q) + 1
  BY <1>1
<1>4. Members(r) = Members(q) \cup {t}
  <2>1. Members(r) \subseteq Members(q) \cup {t}
    BY <1>1, <1>3 DEF Members
  <2>2. Members(q) \subseteq Members(r)
    BY <1>1 DEF Members
  <2>3. t \in Members(r)
    <3>1. Len(q) + 1 \in 1..Len(r)
      BY <1>1
    <3> QED
      BY <1>1, <3>1 DEF Members
  <2> QED
    BY <2>1, <2>2, <2>3
<1>5. Distinct(r)
  <2>1. \A i \in 1..Len(q) : r[i] # t
    BY <1>1 DEF Members
  <2> QED
    BY <1>1, <1>3, <2>1 DEF Distinct
<1> QED
  BY <1>1, <1>2, <1>4, <1>5 DEF r

\* The first in the queue leaves it.
LEMMA LeftQueue ==
    ASSUME NEW S, NEW q \in Seq(S), q # <<>>, Distinct(q)
    PROVE  /\ Tail(q) \in Seq(S)
           /\ Distinct(Tail(q))
           /\ Members(Tail(q)) = Members(q) \ {Head(q)}
<1> DEFINE r == Tail(q)
<1>1. /\ r \in Seq(S) /\ Len(r) = Len(q) - 1 /\ Len(q) \in Nat /\ Len(q) # 0
      /\ Head(q) = q[1] /\ \A i \in 1..Len(r) : r[i] = q[i + 1]
  OBVIOUS
<1> HIDE DEF r
<1>2. \A i \in 1..Len(r) : i + 1 \in 1..Len(q) /\ i + 1 # 1
  BY <1>1
<1>3. \A i \in 1..Len(q) : i = 1 \/ (i - 1 \in 1..Len(r) /\ (i - 1) + 1 = i)
  BY <1>1
<1>4. 1 \in 1..Len(q)
  BY <1>1
<1>5. Distinct(r)
  <2>1. ASSUME NEW i \in 1..Len(r), NEW j \in 1..Len(r), r[i] = r[j]
        PROVE  i = j
    <3>1. i + 1 = j + 1
      BY <1>1, <1>2, <2>1 DEF Distinct
    <3> QED
      BY <3>1
  <2> QED
    BY <2>1 DEF Distinct
<1>6. Members(r) \subseteq Members(q) \ {Head(q)}
  <2>1. ASSUME NEW i \in 1..Len(r)
        PROVE  r[i] \in Members(q) \ {Head(q)}
    BY <1>1, <1>2, <1>4 DEF Members, Distinct
  <2> QED
    BY <2>1 DEF Members
<1>7. Members(q) \ {Head(q)} \subseteq Members(r)
  <2>1. ASSUME NEW i \in 1..Len(q), q[i] # Head(q)
        PROVE  q[i] \in Members(r)
    <3>1. i - 1 \in 1..Len(r) /\ (i - 1) + 1 = i
      BY <1>1, <1>3, <2>1
    <3>2. r[i - 1] = q[i]
      BY <1>1, <3>1
    <3> QED
      BY <3>1, <3>2 DEF Members
  <2> QED
    BY <2>1 DEF Members
<1> QED
  BY <1>1, <1>5, <1>6, <1>7 DEF r

\* A queue in which nobody is twice is no longer than there are threads.
LEMMA QueueBounded ==
    ASSUME NEW S, IsFiniteSet(S), NEW q \in Seq(S), Distinct(q)
    PROVE  Len(q) <= Cardinality(S)
<1>1. Len(q) \in Nat
  OBVIOUS
<1>2. IsFiniteSet(1..Len(q)) /\ Cardinality(1..Len(q)) = Len(q)
  BY <1>1, FS_Interval
<1>3. Cardinality(S) \in Nat
  BY FS_CardinalityType
<1>4. SUFFICES ASSUME Cardinality(S) < Cardinality(1..Len(q)) PROVE FALSE
  BY <1>1, <1>2, <1>3
<1>5. q \in [1..Len(q) -> S]
  OBVIOUS
<1>6. \E x, y \in 1..Len(q) : x # y /\ q[x] = q[y]
  BY <1>2, <1>4, <1>5, FS_PigeonHole
<1> QED
  BY <1>6 DEF Distinct

-----------------------------------------------------------------------------

\* What the frames of calls are made of.
Steps == {"mirror", "mutex", "children", "write", "spread"}
KidDocs == {<<>>} \cup UNION {[K -> Doc] : K \in SUBSET Cards}
Frames == [card: Cards, at: Steps, doc: Doc \cup {NoDoc}, hash: Doc \cup {NoDoc},
           shut: BOOLEAN, kids: KidDocs, rest: SUBSET Cards, seen: SUBSET Cards]

\* The cards that a stack of calls is queued for or has; those it has.
Calls(s) == {s[i].card : i \in {j \in 1..Len(s) : s[j].at # "mirror"}}
Held(s) == {s[i].card : i \in {j \in 1..Len(s) : Holds(s[j])}}

\* A caller waits in its fan-out, and the cards above a frame are the frame's
\* visited set: none is called twice in one chain.
Nested(s) ==
    \A j \in 1..Len(s) :
        /\ j < Len(s) => s[j].at = "spread"
        /\ s[j].at = "mirror" => j = 1
        /\ s[j].at = "spread" => s[j].card \in s[j].seen
        /\ s[j].card \notin s[j].rest
        /\ \A i \in 1..Len(s) : i < j => /\ s[i].card # s[j].card
                                         /\ s[i].card \in s[j].seen
                                         /\ s[i].card \notin s[j].rest

\* The queues and the stacks fit: a thread is once in the queue of each card it
\* called for, and has a card only at the head of its queue.
Exclusive ==
    /\ \A c \in Cards : Distinct(lock[c])
    /\ \A t \in Threads, c \in Cards :
         /\ t \in Members(lock[c]) <=> c \in Calls(stack[t])
         /\ c \in Held(stack[t]) => lock[c] # <<>> /\ Head(lock[c]) = t

\* A call on top of a stack of callers.
LEMMA Pushed ==
    ASSUME NEW s \in Seq(Frames), Nested(s), \A i \in 1..Len(s) : s[i].at = "spread",
           NEW f \in Frames, f.at = "mutex", f.rest = {},
           \A i \in 1..Len(s) : s[i].card # f.card /\ s[i].card \in f.seen
    PROVE  /\ Append(s, f) \in Seq(Frames) /\ Nested(Append(s, f))
           /\ Calls(Append(s, f)) = Calls(s) \cup {f.card}
           /\ Held(Append(s, f)) = Held(s)
<1> DEFINE r == Append(s, f)
<1>1. /\ r \in Seq(Frames) /\ Len(r) = Len(s) + 1 /\ Len(s) \in Nat
      /\ r[Len(s) + 1] = f /\ \A i \in 1..Len(s) : r[i] = s[i]
  OBVIOUS
<1> HIDE DEF r
<1>2. /\ \A i \in 1..Len(r) : i \in 1..Len(s) \/ i = Len(s) + 1
      /\ \A i \in 1..Len(s) : i \in 1..Len(r) /\ i # Len(s) + 1
      /\ Len(s) + 1 \in 1..Len(r)
  BY <1>1
<1>3. Calls(r) = Calls(s) \cup {f.card}
  BY <1>1, <1>2 DEF Calls
<1>4. Held(r) = Held(s)
  BY <1>1, <1>2 DEF Held, Holds
<1>5. Nested(r)
  <2>1. ASSUME NEW j \in 1..Len(s)
        PROVE  /\ j < Len(r) => r[j].at = "spread"
               /\ r[j].at = "mirror" => j = 1
               /\ r[j].at = "spread" => r[j].card \in r[j].seen
               /\ r[j].card \notin r[j].rest
               /\ \A i \in 1..Len(r) : i < j => /\ r[i].card # r[j].card
                                                /\ r[i].card \in r[j].seen
                                                /\ r[i].card \notin r[j].rest
    <3>1. r[j] = s[j] /\ s[j].at = "spread"
      BY <1>1
    <3>2. \A i \in 1..Len(r) : i < j => i \in 1..Len(s) /\ r[i] = s[i]
      BY <1>1, <1>2
    <3> QED
      BY <3>1, <3>2 DEF Nested
  <2>2. ~(Len(s) + 1 < Len(r)) /\ \A i \in 1..Len(r) : i < Len(s) + 1 => i \in 1..Len(s)
    BY <1>1
  <2> QED
    BY <1>1, <1>2, <2>1, <2>2 DEF Nested
<1> QED
  BY <1>1, <1>3, <1>4, <1>5 DEF r

\* The innermost call returns.
LEMMA Popped ==
    ASSUME NEW s \in Seq(Frames), Nested(s), s # <<>>, s[Len(s)].at # "mirror"
    PROVE  LET r == SubSeq(s, 1, Len(s) - 1) IN
           /\ r \in Seq(Frames) /\ Nested(r)
           /\ Calls(r) = Calls(s) \ {s[Len(s)].card}
           /\ Held(r) \subseteq Held(s) \ {s[Len(s)].card}
           /\ \A i \in 1..Len(r) : i \in 1..Len(s) /\ r[i] = s[i]
<1> DEFINE r == SubSeq(s, 1, Len(s) - 1)
<1>1. /\ r \in Seq(Frames) /\ Len(r) = Len(s) - 1 /\ Len(s) \in Nat /\ Len(s) # 0
      /\ \A i \in 1..Len(r) : r[i] = s[i]
  <2>1. Len(s) \in Nat /\ Len(s) # 0 /\ \A i \in 1..(Len(s) - 1) : s[i] \in Frames
    OBVIOUS
  <2>2. /\ r \in Seq(Frames)
        /\ Len(r) = IF 1 <= Len(s) - 1 THEN (Len(s) - 1) - 1 + 1 ELSE 0
        /\ \A i \in 1..((Len(s) - 1) - 1 + 1) : r[i] = s[1 + i - 1]
    <3>1. 1 \in Int /\ Len(s) - 1 \in Int
      BY <2>1
    <3> QED
      BY ONLY <2>1, <3>1, SubSeqProperties DEF r
  <2> HIDE DEF r
  <2>3. Len(r) = Len(s) - 1
    <3>1. PICK n \in Nat : n = Len(s) /\ n # 0
      BY <2>1
    <3>2. Len(r) = IF 1 <= n - 1 THEN (n - 1) - 1 + 1 ELSE 0
      BY <2>2, <3>1
    <3>3. CASE 1 <= n - 1
      BY ONLY <3>1, <3>2, <3>3
    <3>4. CASE ~(1 <= n - 1)
      BY ONLY <3>1, <3>2, <3>4
    <3> QED
      BY <3>3, <3>4
  <2>4. \A i \in 1..Len(r) : i \in 1..((Len(s) - 1) - 1 + 1) /\ 1 + i - 1 = i
    BY <2>1, <2>3
  <2> QED
    BY <2>1, <2>2, <2>3, <2>4
<1> HIDE DEF r
<1>2. /\ \A i \in 1..Len(r) : i \in 1..Len(s) /\ i < Len(s)
      /\ \A i \in 1..Len(s) : i \in 1..Len(r) \/ i = Len(s)
      /\ Len(s) \in 1..Len(s)
  BY <1>1
<1>3. \A i \in 1..Len(r) : r[i].card # s[Len(s)].card
  BY <1>1, <1>2 DEF Nested
<1>4. Calls(r) = Calls(s) \ {s[Len(s)].card}
  <2>1. Calls(r) \subseteq Calls(s) \ {s[Len(s)].card}
    BY <1>1, <1>2, <1>3 DEF Calls
  <2>2. Calls(s) \subseteq Calls(r) \cup {s[Len(s)].card}
    BY <1>1, <1>2 DEF Calls
  <2> QED
    BY <2>1, <2>2
<1>5. Held(r) \subseteq Held(s) \ {s[Len(s)].card}
  <2>1. ASSUME NEW i \in 1..Len(r), Holds(r[i])
        PROVE  r[i].card \in Held(s) /\ r[i].card # s[Len(s)].card
    BY <1>1, <1>2, <1>3, <2>1 DEF Held
  <2> QED
    BY <2>1 DEF Held
<1>6. Nested(r)
  <2>1. ASSUME NEW j \in 1..Len(r)
        PROVE  /\ j < Len(r) => r[j].at = "spread"
               /\ r[j].at = "mirror" => j = 1
               /\ r[j].at = "spread" => r[j].card \in r[j].seen
               /\ r[j].card \notin r[j].rest
               /\ \A i \in 1..Len(r) : i < j => /\ r[i].card # r[j].card
                                                /\ r[i].card \in r[j].seen
                                                /\ r[i].card \notin r[j].rest
    <3>1. j \in 1..Len(s) /\ j < Len(s) /\ r[j] = s[j]
      BY <1>1, <1>2
    <3>2. \A i \in 1..Len(r) : i \in 1..Len(s) /\ r[i] = s[i]
      BY <1>1, <1>2
    <3> QED
      BY <3>1, <3>2 DEF Nested
  <2> QED
    BY <2>1 DEF Nested
<1> QED
  BY <1>1, <1>2, <1>4, <1>5, <1>6 DEF r

\* The innermost call goes on to its next await.
LEMMA Replaced ==
    ASSUME NEW s \in Seq(Frames), Nested(s), s # <<>>, s[Len(s)].at # "mirror",
           NEW f \in Frames, f.card = s[Len(s)].card, f.at # "mirror",
           f.at = "spread" => f.card \in f.seen, f.card \notin f.rest,
           \A i \in 1..Len(s) : i < Len(s) => /\ s[i].card \in f.seen
                                              /\ s[i].card \notin f.rest,
           NEW r \in Seq(Frames), Len(r) = Len(s),
           \A i \in 1..Len(s) : r[i] = IF i = Len(s) THEN f ELSE s[i]
    PROVE  /\ Nested(r)
           /\ Calls(r) = Calls(s)
           /\ Held(r) \subseteq Held(s) \cup {f.card}
<1>1. /\ r \in Seq(Frames) /\ Len(r) = Len(s) /\ Len(s) \in Nat /\ Len(s) # 0
      /\ \A i \in 1..Len(s) : r[i] = IF i = Len(s) THEN f ELSE s[i]
  OBVIOUS
<1>0. f.card = s[Len(s)].card /\ (f.at # "mirror") /\ (s[Len(s)].at # "mirror")
  OBVIOUS
<1>2. Len(s) \in 1..Len(s)
  BY <1>1
<1>3. Calls(r) = Calls(s)
  <2>1. \A i \in 1..Len(s) : /\ r[i].card = s[i].card
                             /\ r[i].at # "mirror" <=> s[i].at # "mirror"
    BY <1>1
  <2> QED
    BY <1>1, <2>1 DEF Calls
<1>4. Held(r) \subseteq Held(s) \cup {f.card}
  BY <1>1 DEF Held
<1>5. Nested(r)
  <2>1. ASSUME NEW j \in 1..Len(r)
        PROVE  /\ j < Len(r) => r[j].at = "spread"
               /\ r[j].at = "mirror" => j = 1
               /\ r[j].at = "spread" => r[j].card \in r[j].seen
               /\ r[j].card \notin r[j].rest
               /\ \A i \in 1..Len(r) : i < j => /\ r[i].card # r[j].card
                                                /\ r[i].card \in r[j].seen
                                                /\ r[i].card \notin r[j].rest
    <3>1. \A i \in 1..Len(r) : i < j => i # Len(s) /\ r[i] = s[i]
      BY <1>1
    <3>2. CASE j = Len(s)
      BY <1>0, <1>1, <1>2, <3>1, <3>2 DEF Nested
    <3>3. CASE j # Len(s)
      BY <1>0, <1>1, <1>2, <3>1, <3>3 DEF Nested
    <3> QED
      BY <3>2, <3>3
  <2> QED
    BY <2>1 DEF Nested
<1> QED
  BY <1>1, <1>3, <1>4, <1>5

\* A thread joins a queue as it makes a call.
LEMMA Joins ==
    ASSUME Exclusive, lock \in [Cards -> Seq(Threads)], DOMAIN stack = Threads,
           NEW t \in Threads, NEW c \in Cards, c \notin Calls(stack[t]),
           NEW r, Calls(r) = Calls(stack[t]) \cup {c}, Held(r) \subseteq Held(stack[t]),
           stack' = [stack EXCEPT ![t] = r],
           lock' = [lock EXCEPT ![c] = Append(lock[c], t)]
    PROVE  Exclusive' /\ lock' \in [Cards -> Seq(Threads)]
<1>1. t \notin Members(lock[c]) /\ Distinct(lock[c])
  BY DEF Exclusive
<1>2. /\ Append(lock[c], t) \in Seq(Threads) /\ Append(lock[c], t) # <<>>
      /\ Distinct(Append(lock[c], t))
      /\ Members(Append(lock[c], t)) = Members(lock[c]) \cup {t}
      /\ lock[c] # <<>> => Head(Append(lock[c], t)) = Head(lock[c])
  BY <1>1, JoinedQueue
<1>3. \A e \in Cards : lock'[e] = IF e = c THEN Append(lock[c], t) ELSE lock[e]
  OBVIOUS
<1>4. \A u \in Threads : stack'[u] = IF u = t THEN r ELSE stack[u]
  OBVIOUS
<1>5. \A e \in Cards : Distinct(lock'[e])
  BY <1>2, <1>3 DEF Exclusive
<1>6. ASSUME NEW u \in Threads, NEW e \in Cards
      PROVE  /\ u \in Members(lock'[e]) <=> e \in Calls(stack'[u])
             /\ e \in Held(stack'[u]) => lock'[e] # <<>> /\ Head(lock'[e]) = u
  BY <1>2, <1>3, <1>4 DEF Exclusive
<1>7. lock' \in [Cards -> Seq(Threads)]
  BY <1>2
<1> QED
  BY <1>5, <1>6, <1>7 DEF Exclusive

\* A thread leaves a queue as its call returns.
LEMMA Leaves ==
    ASSUME Exclusive, lock \in [Cards -> Seq(Threads)], DOMAIN stack = Threads,
           NEW t \in Threads, NEW c \in Cards, c \in Calls(stack[t]), Head(lock[c]) = t,
           NEW r, Calls(r) = Calls(stack[t]) \ {c}, Held(r) \subseteq Held(stack[t]) \ {c},
           stack' = [stack EXCEPT ![t] = r],
           lock' = [lock EXCEPT ![c] = Tail(lock[c])]
    PROVE  Exclusive' /\ lock' \in [Cards -> Seq(Threads)]
<1>1. t \in Members(lock[c]) /\ Distinct(lock[c])
  BY DEF Exclusive
<1>2. lock[c] # <<>>
  BY <1>1 DEF Members
<1>3. /\ Tail(lock[c]) \in Seq(Threads)
      /\ Distinct(Tail(lock[c]))
      /\ Members(Tail(lock[c])) = Members(lock[c]) \ {t}
  BY <1>1, <1>2, LeftQueue
<1>4. \A e \in Cards : lock'[e] = IF e = c THEN Tail(lock[c]) ELSE lock[e]
  OBVIOUS
<1>5. \A u \in Threads : stack'[u] = IF u = t THEN r ELSE stack[u]
  OBVIOUS
<1>6. \A e \in Cards : Distinct(lock'[e])
  BY <1>3, <1>4 DEF Exclusive
<1>7. ASSUME NEW u \in Threads, NEW e \in Cards
      PROVE  /\ u \in Members(lock'[e]) <=> e \in Calls(stack'[u])
             /\ e \in Held(stack'[u]) => lock'[e] # <<>> /\ Head(lock'[e]) = u
  <2>1. CASE u = t
    BY <1>3, <1>4, <1>5, <2>1 DEF Exclusive
  <2>2. CASE u # t
    BY <1>3, <1>4, <1>5, <2>2 DEF Exclusive
  <2> QED
    BY <2>1, <2>2
<1>8. lock' \in [Cards -> Seq(Threads)]
  BY <1>3
<1> QED
  BY <1>6, <1>7, <1>8 DEF Exclusive

\* A thread goes on with the queues as they are.
LEMMA Stays ==
    ASSUME Exclusive, DOMAIN stack = Threads,
           NEW t \in Threads, NEW r, Calls(r) = Calls(stack[t]),
           \A c \in Held(r) \ Held(stack[t]) : lock[c] # <<>> /\ Head(lock[c]) = t,
           stack' = [stack EXCEPT ![t] = r], lock' = lock
    PROVE  Exclusive'
<1>1. \A u \in Threads : stack'[u] = IF u = t THEN r ELSE stack[u]
  OBVIOUS
<1> QED
  BY <1>1 DEF Exclusive

\* The columns that a document keeps against its children (Pinned, for a
\* document other than the one in the file).
PinnedBy(c, doc, col) ==
    /\ Kids[c] # {}
    /\ \/ doc.stamps \cap {"ToDo", "Backlog"} # {}
       \/ doc.dispatch # "none"
       \/ "Cancelled" \in doc.stamps /\ col = "Done"

\* A reconcile that finds the document and the children so has nothing to do.
Settled(c, doc, kids) ==
    \/ PinnedBy(c, doc, DeriveParentStatus(StatusesOf(kids)))
    \/ LeftAlone(doc, c \in Epics, Waits(c), StatusesOf(kids))

\* The file is not in the bucket of its column.
Astray(c) == Closes(file[c]) # (c \in closed)

\* The entries of the skip-cache.
Entries == [doc: Doc \cup {NoDoc}, kids: KidDocs]

\* What the variables hold; a report carries the number of its edit.
DataTypes ==
    /\ file \in [Cards -> Doc] /\ db \in [Cards -> Doc]
    /\ closed \subseteq Cards /\ alive \subseteq Cards
    /\ watch \subseteq Cards /\ due \subseteq Cards
    /\ skip \in [Cards -> Entries]
    /\ edits \in 0..MaxEdits
    /\ \A c \in Cards : file[c].finished <= edits
    /\ hidden \in [Cards -> Doc \cup {NoDoc}]
    /\ \A c \in Cards : hidden[c].finished <= edits

\* What a reconcile has in hand at each await: what it has written is settled.
FrameOK(f) ==
    /\ Kids[f.card] = {} => f.kids = <<>>
    /\ f.at \in {"mirror", "children", "write"} => f.doc \in Doc
    /\ f.at \in {"write", "spread"} => f.hash \in Doc /\ Settled(f.card, f.hash, f.kids)
    /\ f.doc.finished <= edits /\ f.hash.finished <= edits

\* A reconcile that began on a file which is out of place now has seen an
\* older report than the file holds, or knows that it has to move the file.
FrameFiled(f) ==
    Astray(f.card) =>
        /\ f.at = "children" => \/ f.doc.finished < file[f.card].finished
                                \/ Closes(f.doc) # f.shut
        /\ f.at = "spread" => f.hash.finished < file[f.card].finished

\* Queues and stacks.
StackInv ==
    /\ stack \in [Threads -> Seq(Frames)]
    /\ lock \in [Cards -> Seq(Threads)]
    /\ Exclusive
    /\ \A t \in Threads : Nested(stack[t])

\* All the frames.
FramesInv ==
    \A t \in Threads : \A i \in 1..Len(stack[t]) :
        FrameOK(stack[t][i]) /\ FrameFiled(stack[t][i])

\* What the skip-cache holds is settled, and a file out of place holds a later
\* report than its entry, which no longer matches it, or has none (a crash).
EntryOK(c) ==
    /\ skip[c].doc # NoDoc => Settled(c, skip[c].doc, skip[c].kids)
    /\ skip[c].doc.finished <= edits
    /\ Astray(c) => skip[c].doc = NoDoc \/ skip[c].doc.finished < file[c].finished

\* All the entries.
EntriesInv == \A c \in Cards : EntryOK(c)

\* The inductive invariant.
IInv == DataTypes /\ StackInv /\ FramesInv /\ EntriesInv

\* The absent document is none.
LEMMA NoDocFacts ==
    NoDoc \notin Doc /\ NoDoc.finished = 0 /\ NotSeen \in Entries
    /\ NotSeen.doc = NoDoc
BY DEF NoDoc, Doc, Columns, NotSeen, Entries, KidDocs

\* The frame of a new call.
LEMMA NewFrame ==
    ASSUME NEW c \in Cards, NEW step \in Steps, NEW seen \in SUBSET Cards
    PROVE  LET f == Frame(c, step, seen) IN
           /\ f \in Frames /\ f.card = c /\ f.at = step /\ f.seen = seen /\ f.rest = {}
           /\ f.kids = <<>> /\ f.doc = NoDoc /\ f.hash = NoDoc
BY DEF Frame, Frames, KidDocs

\* A call that waits for its mutex has seen nothing.
LEMMA WaitingFrame ==
    ASSUME DataTypes, NEW c \in Cards, NEW seen \in SUBSET Cards
    PROVE  FrameOK(Frame(c, "mutex", seen)) /\ FrameFiled(Frame(c, "mutex", seen))
<1> DEFINE f == Frame(c, "mutex", seen)
<1>1. /\ f.card = c /\ f.at = "mutex" /\ f.kids = <<>> /\ f.doc = NoDoc /\ f.hash = NoDoc
  BY NewFrame DEF Steps
<1>2. edits >= 0
  BY BoundsAssumption DEF DataTypes
<1> HIDE DEF f
<1>3. FrameOK(f) /\ FrameFiled(f)
  BY <1>1, <1>2, NoDocFacts DEF FrameOK, FrameFiled
<1> QED
  BY <1>3 DEF f

\* A frame stays as it should while its card's file does, and time passes.
LEMMA FramesStep ==
    ASSUME FramesInv, stack \in [Threads -> Seq(Frames)], NEW t \in Threads, NEW r,
           \A f \in Frames : FrameOK(f) /\ FrameFiled(f) => FrameOK(f)' /\ FrameFiled(f)',
           \A i \in 1..Len(r) : FrameOK(r[i])' /\ FrameFiled(r[i])',
           stack' = [stack EXCEPT ![t] = r]
    PROVE  FramesInv'
<1>1. \A u \in Threads : stack'[u] = IF u = t THEN r ELSE stack[u]
  OBVIOUS
<1>2. \A u \in Threads : \A i \in 1..Len(stack[u]) : stack[u][i] \in Frames
  OBVIOUS
<1> QED
  BY <1>1, <1>2 DEF FramesInv

\* The frames stay right while the files stay.
LEMMA FilesKept ==
    ASSUME UNCHANGED <<file, closed, edits>>
    PROVE  \A f \in Frames : FrameOK(f) /\ FrameFiled(f) => FrameOK(f)' /\ FrameFiled(f)'
BY DEF FrameOK, FrameFiled, Astray, Settled, PinnedBy

\* A thread calls from frames that all wait for it.
LEMMA Called ==
    ASSUME DataTypes, StackInv, FramesInv, NEW t \in Threads, NEW c \in Cards,
           NEW seen \in SUBSET Cards, NEW s \in Seq(Frames), Nested(s),
           Calls(s) = Calls(stack[t]), Held(s) \subseteq Held(stack[t]),
           c \notin Calls(s),
           \A i \in 1..Len(s) : /\ s[i].at = "spread" /\ s[i].card \in seen
                                /\ FrameOK(s[i]) /\ FrameFiled(s[i]),
           Call(t, c, s, seen), UNCHANGED <<file, closed, edits>>
    PROVE  StackInv' /\ FramesInv'
<1> DEFINE f == Frame(c, "mutex", seen)
<1>1. f \in Frames /\ f.card = c /\ f.at = "mutex" /\ f.rest = {} /\ f.seen = seen
  BY NewFrame DEF Steps
<1>2. FrameOK(f) /\ FrameFiled(f)
  BY WaitingFrame
<1>3. \A i \in 1..Len(s) : s[i].card # c
  BY DEF Calls
<1>4. stack' = [stack EXCEPT ![t] = Append(s, f)] /\ lock' = [lock EXCEPT ![c] = Append(lock[c], t)]
  BY DEF Call
<1> HIDE DEF f
<1>5. /\ Append(s, f) \in Seq(Frames) /\ Nested(Append(s, f))
      /\ Calls(Append(s, f)) = Calls(s) \cup {f.card}
      /\ Held(Append(s, f)) = Held(s)
  BY <1>1, <1>3, Pushed
<1>6. PICK r : r = Append(s, f)
  OBVIOUS
<1>7. \A i \in 1..Len(r) : FrameOK(r[i]) /\ FrameFiled(r[i])
  <2>1. \A i \in 1..Len(r) : (i \in 1..Len(s) /\ r[i] = s[i]) \/ r[i] = f
    BY <1>6
  <2> QED
    BY <1>2, <2>1
<1>8. FramesInv'
  <2>1. \A i \in 1..Len(r) : r[i] \in Frames
    BY <1>5, <1>6
  <2>2. \A i \in 1..Len(r) : FrameOK(r[i])' /\ FrameFiled(r[i])'
    BY <1>7, <2>1, FilesKept
  <2> QED
    BY <1>4, <1>6, <2>2, FilesKept, FramesStep DEF StackInv
<1>9. Exclusive' /\ lock' \in [Cards -> Seq(Threads)]
  BY <1>1, <1>4, <1>5, Joins DEF StackInv
<1>10. stack' \in [Threads -> Seq(Frames)] /\ \A u \in Threads : Nested(stack'[u])
  BY <1>4, <1>5 DEF StackInv
<1> QED
  BY <1>8, <1>9, <1>10 DEF StackInv

\* A thread that only mirrors has no place at a mutex.
LEMMA MirrorAlone ==
    ASSUME StackInv, NEW t \in Threads, stack[t] = <<>> \/ At(t, "mirror")
    PROVE  Calls(stack[t]) = {} /\ Held(stack[t]) = {}
<1>1. stack[t] \in Seq(Frames) /\ Nested(stack[t])
  BY DEF StackInv
<1>2. CASE stack[t] = <<>>
  BY <1>2 DEF Calls, Held
<1>3. CASE stack[t] # <<>> /\ stack[t][Len(stack[t])].at = "mirror"
  <2>1. Len(stack[t]) \in 1..Len(stack[t])
    BY <1>1, <1>3
  <2>2. Len(stack[t]) = 1
    BY <1>1, <1>3, <2>1 DEF Nested
  <2>3. \A i \in 1..Len(stack[t]) : stack[t][i].at = "mirror"
    BY <1>3, <2>2
  <2> QED
    BY <2>3 DEF Calls, Held, Holds
<1> QED
  BY <1>2, <1>3 DEF At, Top

\* The stack of an idle thread.
LEMMA NoFrames ==
    /\ <<>> \in Seq(Frames) /\ Nested(<<>>) /\ Calls(<<>>) = {} /\ Held(<<>>) = {}
    /\ Len(<<>>) = 0 /\ \A i \in 1..Len(<<>>) : FALSE
<1>1. Len(<<>>) = 0 /\ \A i \in 1..Len(<<>>) : FALSE
  OBVIOUS
<1>2. <<>> \in Seq(Frames)
  OBVIOUS
<1> QED
  BY <1>1, <1>2 DEF Nested, Calls, Held

\* A thread that does nothing, or has only mirrored, calls.
LEMMA Started ==
    ASSUME DataTypes, StackInv, FramesInv, NEW t \in Threads, NEW c \in Cards,
           stack[t] = <<>> \/ At(t, "mirror"),
           Call(t, c, <<>>, {}), UNCHANGED <<file, closed, edits>>
    PROVE  StackInv' /\ FramesInv'
<1>1. Calls(<<>>) = Calls(stack[t]) /\ Held(<<>>) \subseteq Held(stack[t])
      /\ c \notin Calls(<<>>)
  BY MirrorAlone, NoFrames
<1>2. <<>> \in Seq(Frames) /\ Nested(<<>>) /\ {} \in SUBSET Cards
  BY NoFrames
<1>3. \A i \in 1..Len(<<>>) : /\ <<>>[i].at = "spread" /\ <<>>[i].card \in {}
                              /\ FrameOK(<<>>[i]) /\ FrameFiled(<<>>[i])
  BY NoFrames
<1> QED
  BY <1>1, <1>2, <1>3, Called

\* The innermost call holds the mutex it waited for.
LEMMA Holder ==
    ASSUME StackInv, NEW t \in Threads, stack[t] # <<>>, Holds(Top(t))
    PROVE  /\ Top(t).card \in Cards /\ lock[Top(t).card] # <<>>
           /\ Head(lock[Top(t).card]) = t
<1>1. stack[t] \in Seq(Frames) /\ Len(stack[t]) \in 1..Len(stack[t])
  BY DEF StackInv
<1>2. Top(t) \in Frames
  BY <1>1 DEF Top
<1>3. Top(t).card \in Held(stack[t])
  BY <1>1 DEF Held, Top
<1>4. Top(t).card \in Cards
  BY <1>2 DEF Frames
<1> QED
  BY <1>3, <1>4 DEF StackInv, Exclusive

\* What the innermost frame of a thread is.
LEMMA TopFrame ==
    ASSUME StackInv, FramesInv, NEW t \in Threads, stack[t] # <<>>
    PROVE  /\ stack[t] \in Seq(Frames) /\ Nested(stack[t])
           /\ Len(stack[t]) \in 1..Len(stack[t])
           /\ Top(t) \in Frames /\ Top(t).card \in Cards
           /\ FrameOK(Top(t)) /\ FrameFiled(Top(t))
           /\ \A i \in 1..Len(stack[t]) : FrameOK(stack[t][i]) /\ FrameFiled(stack[t][i])
           /\ Top(t).at # "mirror" => Top(t).card \in Calls(stack[t])
<1>1. stack[t] \in Seq(Frames) /\ Len(stack[t]) \in 1..Len(stack[t])
  BY DEF StackInv
<1>2. Top(t) \in Frames
  BY <1>1 DEF Top
<1>3. Top(t).card \in Cards
  BY <1>2 DEF Frames
<1>4. Top(t).at # "mirror" => Top(t).card \in Calls(stack[t])
  BY <1>1 DEF Calls, Top
<1> QED
  BY <1>1, <1>2, <1>3, <1>4 DEF StackInv, FramesInv, Top

\* A call returns, and its caller has the mutexes it had.
LEMMA Returned ==
    ASSUME StackInv, FramesInv, NEW t \in Threads, stack[t] # <<>>,
           Top(t).at # "mirror", Head(lock[Top(t).card]) = t,
           \A f \in Frames : FrameOK(f) /\ FrameFiled(f) => FrameOK(f)' /\ FrameFiled(f)',
           Return(t)
    PROVE  StackInv' /\ FramesInv'
<1> DEFINE s == stack[t]
           c == Top(t).card
<1>1. /\ s \in Seq(Frames) /\ Nested(s) /\ c \in Cards /\ c \in Calls(s)
      /\ \A i \in 1..Len(s) : FrameOK(s[i]) /\ FrameFiled(s[i])
  BY TopFrame
<1>2. PICK r : r = SubSeq(s, 1, Len(s) - 1)
  OBVIOUS
<1>3. stack' = [stack EXCEPT ![t] = r] /\ lock' = [lock EXCEPT ![c] = Tail(lock[c])]
  BY <1>2 DEF Return
<1>4. /\ r \in Seq(Frames) /\ Nested(r)
      /\ Calls(r) = Calls(s) \ {c} /\ Held(r) \subseteq Held(s) \ {c}
      /\ \A i \in 1..Len(r) : i \in 1..Len(s) /\ r[i] = s[i]
  BY <1>1, <1>2, Popped DEF Top
<1>5. FramesInv'
  <2>0. \A i \in 1..Len(s) : s[i] \in Frames
    BY <1>1
  <2>1. \A i \in 1..Len(r) : FrameOK(r[i])' /\ FrameFiled(r[i])'
    BY <1>1, <2>0, <1>4
  <2> QED
    BY <1>3, <2>1, FramesStep DEF StackInv
<1>6. Exclusive' /\ lock' \in [Cards -> Seq(Threads)]
  BY <1>1, <1>3, <1>4, Leaves DEF StackInv
<1>7. stack' \in [Threads -> Seq(Frames)] /\ \A u \in Threads : Nested(stack'[u])
  BY <1>3, <1>4 DEF StackInv
<1> QED
  BY <1>5, <1>6, <1>7 DEF StackInv

\* The innermost call goes on, with the mutex.
LEMMA GoesOn ==
    ASSUME StackInv, FramesInv, NEW t \in Threads, stack[t] # <<>>,
           Top(t).at # "mirror", lock[Top(t).card] # <<>>, Head(lock[Top(t).card]) = t,
           \A f \in Frames : FrameOK(f) /\ FrameFiled(f) => FrameOK(f)' /\ FrameFiled(f)',
           NEW g \in Frames, g.card = Top(t).card, g.at # "mirror",
           g.at = "spread" => g.card \in g.seen, g.card \notin g.rest,
           Top(t).seen \subseteq g.seen, g.rest \subseteq Top(t).rest \cup (Cards \ Top(t).seen),
           FrameOK(g)', FrameFiled(g)',
           stack' = WithTop(t, g), lock' = lock
    PROVE  StackInv' /\ FramesInv'
<1> DEFINE s == stack[t]
           c == Top(t).card
<1>1. /\ s \in Seq(Frames) /\ Nested(s) /\ c \in Cards
      /\ \A i \in 1..Len(s) : FrameOK(s[i]) /\ FrameFiled(s[i])
      /\ Len(s) \in 1..Len(s)
  BY TopFrame
<1>2. PICK r : r = [s EXCEPT ![Len(s)] = g]
  OBVIOUS
<1>3. stack' = [stack EXCEPT ![t] = r]
  BY <1>2 DEF WithTop, StackInv
<1>4. \A i \in 1..Len(s) : i < Len(s) => s[i].card \in g.seen /\ s[i].card \notin g.rest
  <2>1. Top(t) = s[Len(s)]
    BY DEF Top
  <2> HIDE DEF s
  <2>2. \A i \in 1..Len(s) : i < Len(s) => /\ s[i].card \in Top(t).seen
                                         /\ s[i].card \notin Top(t).rest
    BY <1>1, <2>1 DEF Nested
  <2> QED
    BY <2>2
<1>5. /\ r \in Seq(Frames) /\ Nested(r) /\ Len(r) = Len(s)
      /\ Calls(r) = Calls(s) /\ Held(r) \subseteq Held(s) \cup {c}
      /\ \A i \in 1..Len(s) : r[i] = IF i = Len(s) THEN g ELSE s[i]
  <2>1. s[Len(s)] = Top(t)
    BY DEF Top
  <2>2. s # <<>> /\ s[Len(s)].at # "mirror" /\ g.card = s[Len(s)].card
    BY <2>1
  <2>3. /\ r \in Seq(Frames) /\ Len(r) = Len(s)
        /\ \A i \in 1..Len(s) : r[i] = IF i = Len(s) THEN g ELSE s[i]
    BY <1>1, <1>2
  <2>4. /\ Nested(r) /\ Calls(r) = Calls(s)
        /\ Held(r) \subseteq Held(s) \cup {g.card}
    <3> HIDE DEF s
    <3> QED
      BY <1>1, <1>4, <2>2, <2>3, Replaced
  <2> QED
    BY <2>3, <2>4
<1>6. FramesInv'
  <2>0. \A i \in 1..Len(s) : s[i] \in Frames
    BY <1>1
  <2>1. \A i \in 1..Len(r) : FrameOK(r[i])' /\ FrameFiled(r[i])'
    BY <1>1, <2>0, <1>5
  <2> QED
    BY <1>3, <2>1, FramesStep DEF StackInv
<1>7. Exclusive'
  <2>1. \A e \in Held(r) \ Held(stack[t]) : lock[e] # <<>> /\ Head(lock[e]) = t
    BY <1>5
  <2>2. Exclusive /\ DOMAIN stack = Threads
    BY DEF StackInv
  <2> QED
    BY <1>3, <1>5, <2>1, <2>2, Stays
<1>8. stack' \in [Threads -> Seq(Frames)] /\ \A u \in Threads : Nested(stack'[u])
  BY <1>3, <1>5 DEF StackInv
<1> QED
  BY <1>6, <1>7, <1>8 DEF StackInv

\* The statuses of children are columns.
LEMMA KidColumns ==
    ASSUME NEW kids \in KidDocs
    PROVE  StatusesOf(kids) \in SUBSET Columns
<1>1. CASE kids = <<>>
  <2>1. DOMAIN kids = {}
    BY <1>1
  <2> QED
    BY <2>1 DEF StatusesOf
<1>2. ASSUME NEW K \in SUBSET Cards, kids \in [K -> Doc]
      PROVE  StatusesOf(kids) \in SUBSET Columns
  <2>1. \A k \in DOMAIN kids : kids[k] \in Doc
    BY <1>2
  <2>2. \A k \in DOMAIN kids : DeriveStatus(kids[k]) \in Columns
    BY <2>1, DeriveType
  <2> QED
    BY <2>2 DEF StatusesOf
<1> QED
  BY <1>1, <1>2 DEF KidDocs

\* What a reconcile computes for a card, it would leave alone.
LEMMA Computed ==
    ASSUME NEW c \in Cards, NEW doc \in Doc, NEW kids \in KidDocs,
           Kids[c] = {} => kids = <<>>, NEW here \in BOOLEAN, NEW next,
           next = Projected(doc, c \in Epics, Waits(c), StatusesOf(kids), here)
    PROVE  /\ next \in Doc /\ next.finished <= doc.finished
           /\ Settled(c, next, kids)
           /\ next = ParseIssue(doc) => Settled(c, doc, kids) /\ (Closes(next) = Closes(doc))
<1>0. PICK S : S = StatusesOf(kids)
  OBVIOUS
<1>1. S \in SUBSET Columns /\ (c \in Epics) \in BOOLEAN /\ Waits(c) \in BOOLEAN
  BY <1>0, KidColumns DEF Waits
<1>2. kids = <<>> => S = {}
  <2>1. DOMAIN <<>> = {}
    OBVIOUS
  <2> QED
    BY <1>0, <2>1 DEF StatusesOf
<1>3. next = Projected(doc, c \in Epics, Waits(c), S, here)
  BY <1>0
<1>4. next \in Doc /\ next.finished <= doc.finished
  BY <1>1, <1>3, ProjectedType
<1>5. Settled(c, next, kids)
  <2>1. CASE PinnedBy(c, next, DeriveParentStatus(S))
    BY <1>0, <2>1 DEF Settled
  <2>2. CASE ~PinnedBy(c, next, DeriveParentStatus(S))
    <3>1. \/ S = {}
          \/ /\ next.stamps \cap {"ToDo", "Backlog"} = {} /\ next.dispatch = "none"
             /\ ~("Cancelled" \in next.stamps /\ DeriveParentStatus(S) = "Done")
      BY <1>2, <2>2 DEF PinnedBy
    <3>2. PICK epic \in BOOLEAN : epic = (c \in Epics)
      BY <1>1
    <3>3. PICK waits \in BOOLEAN : waits = Waits(c)
      BY <1>1
    <3>4. next = Projected(doc, epic, waits, S, here)
      BY <1>3, <3>2, <3>3
    <3>5. LeftAlone(next, epic, waits, S)
      BY <1>1, <3>1, <3>4, SettledAfter
    <3>6. LeftAlone(next, c \in Epics, Waits(c), S)
      BY <3>2, <3>3, <3>5
    <3> QED
      BY <1>0, <3>6 DEF Settled
  <2> QED
    BY <2>1, <2>2
<1>6. ASSUME next = ParseIssue(doc)
      PROVE  Settled(c, doc, kids) /\ (Closes(next) = Closes(doc))
  <2>0. Projected(doc, c \in Epics, Waits(c), S, here) = ParseIssue(doc)
    BY <1>3, <1>6
  <2>1. LeftAlone(doc, c \in Epics, Waits(c), S)
    <3>1. PICK epic \in BOOLEAN : epic = (c \in Epics)
      BY <1>1
    <3>2. PICK waits \in BOOLEAN : waits = Waits(c)
      BY <1>1
    <3>3. Projected(doc, epic, waits, S, here) = ParseIssue(doc)
      BY <2>0, <3>1, <3>2
    <3>4. LeftAlone(doc, epic, waits, S)
      <4>1. S \in SUBSET Columns /\ epic \in BOOLEAN /\ waits \in BOOLEAN
        BY <1>1
      <4> QED
        BY ONLY doc \in Doc, here \in BOOLEAN, <3>3, <4>1, SettledAlive
    <3> QED
      BY <3>1, <3>2, <3>4
  <2>2. Closes(next) = Closes(doc)
    BY <1>6, ParseKeeps
  <2> QED
    BY <1>0, <2>1, <2>2 DEF Settled
<1> QED
  BY <1>4, <1>5, <1>6

\* The skip-cache takes what a reconcile has settled.
LEMMA EntryTaken ==
    ASSUME DataTypes, EntriesInv, NEW c \in Cards, NEW doc \in Doc, NEW kids \in KidDocs,
           Settled(c, doc, kids), doc.finished <= edits,
           Astray(c) => doc.finished < file[c].finished,
           skip' = [skip EXCEPT ![c] = [doc |-> doc, kids |-> kids]],
           UNCHANGED <<file, closed, edits>>
    PROVE  EntriesInv' /\ skip' \in [Cards -> Entries]
<1>1. [doc |-> doc, kids |-> kids] \in Entries
  BY DEF Entries
<1>2. skip' \in [Cards -> Entries]
  BY <1>1 DEF DataTypes
<1>3. \A d \in Cards : skip'[d] = IF d = c THEN [doc |-> doc, kids |-> kids] ELSE skip[d]
  BY DEF DataTypes
<1>4. ASSUME NEW d \in Cards
      PROVE  EntryOK(d)'
  <2>1. CASE d = c
    <3>1. skip'[d].doc = doc /\ skip'[d].kids = kids
      BY <1>3, <2>1
    <3> QED
      BY <2>1, <3>1 DEF EntryOK, Astray, Settled, PinnedBy
  <2>2. CASE d # c
    BY <1>3, <2>2 DEF EntriesInv, EntryOK, Astray, Settled, PinnedBy
  <2> QED
    BY <2>1, <2>2
<1> QED
  BY <1>2, <1>4 DEF EntriesInv

\* The entries stay right while the files and the cache stay.
LEMMA EntriesKept ==
    ASSUME EntriesInv, UNCHANGED <<file, closed, edits, skip>>
    PROVE  EntriesInv'
BY DEF EntriesInv, EntryOK, Astray, Settled, PinnedBy

\* A reconcile that has read all it needs decides.
LEMMA Decided ==
    ASSUME IInv, NEW t \in Threads, stack[t] # <<>>, NEW f \in Frames,
           f.card = Top(t).card, f.seen = Top(t).seen, f.rest = Top(t).rest,
           Top(t).at \in {"mutex", "children"},
           lock[f.card] # <<>>, Head(lock[f.card]) = t,
           f.doc \in Doc, f.doc.finished <= edits, Kids[f.card] = {} => f.kids = <<>>,
           Astray(f.card) => \/ f.doc.finished < file[f.card].finished
                             \/ Closes(f.doc) # f.shut,
           Decide(t, f), UNCHANGED <<disk, watch, due, edits>>
    PROVE  IInv'
<1> DEFINE c == f.card
<1>1. /\ c \in Cards /\ f.kids \in KidDocs /\ f.shut \in BOOLEAN
  BY DEF Frames
<1>2. Top(t).at # "mirror" /\ f.card \notin f.rest
  <2>1. Nested(stack[t]) /\ Len(stack[t]) \in 1..Len(stack[t])
    BY TopFrame DEF IInv
  <2> QED
    BY <2>1 DEF Nested, Top
<1>3. PICK next : /\ next = Projected(f.doc, c \in Epics, Waits(c),
                                      StatusesOf(f.kids), c \in alive)
                  /\ \/ /\ Return(t) /\ UNCHANGED <<db, skip>>
                     \/ /\ db' = [db EXCEPT ![c] = next]
                        /\ \E hash \in {f.doc, next} :
                             /\ hash = f.doc => next = ParseIssue(f.doc) \/ hash = next
                             /\ stack' = WithTop(t, [f EXCEPT !.at = "write", !.doc = next,
                                                              !.hash = hash])
                        /\ UNCHANGED <<skip, lock>>
                     \/ /\ next = ParseIssue(f.doc) /\ Closes(next) = f.shut
                        /\ skip' = [skip EXCEPT ![c] = [doc |-> f.doc, kids |-> f.kids]]
                        /\ Return(t)
                        /\ UNCHANGED db
  <2>1. PICK next : next = Projected(f.doc, c \in Epics, Waits(c),
                                      StatusesOf(f.kids), c \in alive)
    OBVIOUS
  <2> QED
    BY <2>1 DEF Decide
<1>4. /\ next \in Doc /\ next.finished <= f.doc.finished
      /\ Settled(c, next, f.kids)
      /\ next = ParseIssue(f.doc) => Settled(c, f.doc, f.kids) /\ (Closes(next) = Closes(f.doc))
  <2>0. (c \in alive) \in BOOLEAN
    OBVIOUS
  <2>1. PICK here \in BOOLEAN : here = (c \in alive)
    BY <2>0
  <2>2. next = Projected(f.doc, c \in Epics, Waits(c), StatusesOf(f.kids), here)
    BY <1>3, <2>1
  <2> QED
    BY <1>1, <2>2, Computed
<1>5. \A g \in Frames : FrameOK(g) /\ FrameFiled(g) => FrameOK(g)' /\ FrameFiled(g)'
  BY FilesKept DEF disk
<1>6. CASE Return(t) /\ UNCHANGED <<db, skip>>
  <2>1. StackInv' /\ FramesInv'
    BY <1>2, <1>5, <1>6, Returned DEF IInv
  <2>2. EntriesInv'
    BY <1>6, EntriesKept DEF IInv, disk
  <2>3. DataTypes'
    BY <1>6 DEF IInv, DataTypes, disk
  <2> QED
    BY <2>1, <2>2, <2>3 DEF IInv
<1>7. CASE /\ db' = [db EXCEPT ![c] = next]
           /\ \E hash \in {f.doc, next} :
                /\ hash = f.doc => next = ParseIssue(f.doc) \/ hash = next
                /\ stack' = WithTop(t, [f EXCEPT !.at = "write", !.doc = next,
                                                 !.hash = hash])
           /\ UNCHANGED <<skip, lock>>
  <2>1. PICK hash \in {f.doc, next} :
                /\ hash = f.doc => next = ParseIssue(f.doc) \/ hash = next
                /\ stack' = WithTop(t, [f EXCEPT !.at = "write", !.doc = next,
                                                 !.hash = hash])
    BY <1>7
  <2>2. PICK g : g = [f EXCEPT !.at = "write", !.doc = next, !.hash = hash]
    OBVIOUS
  <2>3. /\ g.card = c /\ g.at = "write" /\ g.doc = next /\ g.hash = hash
        /\ g.kids = f.kids /\ g.seen = f.seen /\ g.rest = f.rest /\ g \in Frames
    BY <1>4, <2>1, <2>2 DEF Frames, Steps
  <2>4. hash \in Doc /\ Settled(c, hash, f.kids) /\ hash.finished <= edits
        /\ next.finished <= edits
    <3>1. f.doc.finished \in Nat /\ next.finished \in Nat /\ edits \in Nat
      BY <1>4, BoundsAssumption DEF Doc, IInv, DataTypes
    <3> QED
      BY <1>4, <2>1, <3>1
  <2>5. FrameOK(g)
    BY <1>4, <2>3, <2>4 DEF FrameOK
  <2>6. FrameFiled(g)
    BY <2>3 DEF FrameFiled
  <2>7. FrameOK(g)' /\ FrameFiled(g)'
    BY <1>5, <2>3, <2>5, <2>6
  <2>8. StackInv' /\ FramesInv'
    BY <1>2, <1>5, <1>7, <2>1, <2>2, <2>3, <2>7, GoesOn DEF IInv
  <2>9. EntriesInv'
    BY <1>7, EntriesKept DEF IInv, disk
  <2>10. DataTypes'
    BY <1>4, <1>7 DEF IInv, DataTypes, disk
  <2> QED
    BY <2>8, <2>9, <2>10 DEF IInv
<1>8. CASE /\ next = ParseIssue(f.doc) /\ Closes(next) = f.shut
           /\ skip' = [skip EXCEPT ![c] = [doc |-> f.doc, kids |-> f.kids]]
           /\ Return(t)
           /\ UNCHANGED db
  <2>1. StackInv' /\ FramesInv'
    BY <1>2, <1>5, <1>8, Returned DEF IInv
  <2>2. Astray(c) => f.doc.finished < file[c].finished
    BY <1>4, <1>8
  <2>3. EntriesInv' /\ skip' \in [Cards -> Entries]
    BY <1>1, <1>4, <1>8, <2>2, EntryTaken DEF IInv, disk
  <2>4. DataTypes'
    BY <1>8, <2>3 DEF IInv, DataTypes, disk
  <2> QED
    BY <2>1, <2>3, <2>4 DEF IInv
<1> QED
  BY <1>3, <1>6, <1>7, <1>8

\* A card's file is written, and filed where it belongs or left with a later
\* report than any frame or entry has seen.
LEMMA FileWritten ==
    ASSUME DataTypes, NEW c \in Cards, NEW d \in Doc, file' = [file EXCEPT ![c] = d],
           edits' \in Nat, edits <= edits', closed' \ {c} = closed \ {c},
           Astray(c)' => \/ edits < d.finished
                         \/ Astray(c) /\ file[c].finished <= d.finished
    PROVE  /\ \A f \in Frames : FrameOK(f) /\ FrameFiled(f) => FrameOK(f)' /\ FrameFiled(f)'
           /\ EntriesInv /\ UNCHANGED skip => EntriesInv'
<1>1. /\ edits \in Nat /\ d.finished \in Nat /\ file \in [Cards -> Doc]
      /\ \A e \in Cards : file[e].finished \in Nat
  BY BoundsAssumption DEF DataTypes, Doc
<1>2. /\ file'[c] = d
      /\ \A e \in Cards : e # c => file'[e] = file[e] /\ Astray(e)' = Astray(e)
  BY <1>1 DEF Astray
<1>3. \A x \in Doc \cup {NoDoc} : x.finished \in Nat
  BY NoDocFacts DEF Doc
<1>4. ASSUME NEW f \in Frames, FrameOK(f), FrameFiled(f)
      PROVE  FrameOK(f)' /\ FrameFiled(f)'
  <2>1. /\ f.card \in Cards /\ f.doc.finished \in Nat /\ f.hash.finished \in Nat
    BY <1>3 DEF Frames
  <2>2. f.doc.finished <= edits /\ f.hash.finished <= edits
    BY <1>4 DEF FrameOK
  <2>3. FrameOK(f)'
    <3>1. f.doc.finished <= edits' /\ f.hash.finished <= edits'
      BY <1>1, <2>1, <2>2
    <3> QED
      BY <1>4, <3>1 DEF FrameOK, Settled, PinnedBy
  <2>4. CASE f.card = c
    <3>1. ASSUME Astray(c)', Astray(c), file[c].finished <= d.finished
          PROVE  FrameFiled(f)'
      <4>1. \A n \in Nat : n < file[c].finished => n < d.finished
        BY <1>1, <3>1
      <4> QED
        BY <1>2, <1>4, <2>1, <2>4, <3>1, <4>1 DEF FrameFiled
    <3>2. ASSUME edits < d.finished
          PROVE  FrameFiled(f)'
      <4>1. f.doc.finished < d.finished /\ f.hash.finished < d.finished
        BY <1>1, <2>1, <2>2, <3>2
      <4> QED
        BY <1>2, <2>4, <4>1 DEF FrameFiled
    <3>3. CASE ~Astray(c)'
      BY <2>3, <2>4, <3>3 DEF FrameFiled
    <3> QED
      BY <2>3, <3>1, <3>2, <3>3
  <2>5. CASE f.card # c
    <3>1. file'[f.card] = file[f.card] /\ Astray(f.card)' = Astray(f.card)
      BY <1>2, <2>1, <2>5
    <3> QED
      BY <1>4, <2>3, <3>1 DEF FrameFiled
  <2> QED
    BY <2>3, <2>4, <2>5
<1>5. ASSUME EntriesInv, UNCHANGED skip
      PROVE  EntriesInv'
  <2>1. SUFFICES ASSUME NEW e \in Cards
                 PROVE  EntryOK(e)'
    BY DEF EntriesInv
  <2>2. EntryOK(e) /\ skip'[e] = skip[e] /\ skip[e].doc.finished \in Nat
    BY <1>3, <1>5 DEF EntriesInv, DataTypes, Entries
  <2>3. skip'[e].doc.finished <= edits'
    BY <1>1, <2>2 DEF EntryOK
  <2>4. Astray(e)' => \/ skip'[e].doc = NoDoc
                      \/ skip'[e].doc.finished < file'[e].finished
    <3>0. CASE skip[e].doc = NoDoc
      BY <2>2, <3>0
    <3>1. CASE e # c
      BY <1>2, <2>2, <3>1 DEF EntryOK
    <3>2. CASE e = c /\ skip[e].doc # NoDoc
      <4>1. ASSUME Astray(c)', Astray(c), file[c].finished <= d.finished
            PROVE  skip[e].doc.finished < d.finished
        <5>1. skip[e].doc.finished < file[c].finished
          BY <2>2, <3>2, <4>1 DEF EntryOK
        <5> QED
          BY <1>1, <2>2, <4>1, <5>1
      <4>2. ASSUME edits < d.finished
            PROVE  skip[e].doc.finished < d.finished
        <5>1. skip[e].doc.finished <= edits
          BY <2>2 DEF EntryOK
        <5> QED
          BY <1>1, <2>2, <4>2, <5>1
      <4> QED
        BY <1>2, <2>2, <3>2, <4>1, <4>2
    <3> QED
      BY <3>0, <3>1, <3>2
  <2> QED
    BY <2>2, <2>3, <2>4 DEF EntryOK, Settled, PinnedBy
<1> QED
  BY <1>4, <1>5

\* The first await of a reconcile.
LEMMA LoadKeeps ==
    ASSUME IInv, NEW t \in Threads, Load(t)
    PROVE  IInv'
<1>1. /\ stack[t] # <<>> /\ Top(t).at = "mutex" /\ Head(lock[Top(t).card]) = t
      /\ UNCHANGED <<disk, watch, due, edits>>
  BY DEF Load, At
<1>2. /\ Top(t) \in Frames /\ Top(t).card \in Cards /\ FrameOK(Top(t))
      /\ Nested(stack[t]) /\ Len(stack[t]) \in 1..Len(stack[t])
      /\ Top(t).card \in Calls(stack[t])
  BY <1>1, TopFrame DEF IInv
<1>3. lock[Top(t).card] # <<>>
  BY <1>2 DEF IInv, StackInv, Exclusive, Members
<1>4. PICK f : /\ f = [Top(t) EXCEPT !.doc = file[Top(t).card],
                                     !.shut = Top(t).card \in closed]
               /\ IF Kids[f.card] = {} THEN Decide(t, f)
                  ELSE /\ stack' = WithTop(t, [f EXCEPT !.at = "children"])
                       /\ UNCHANGED <<db, skip, lock>>
  BY DEF Load
<1>5. file[Top(t).card] \in Doc /\ file[Top(t).card].finished <= edits
  BY <1>2 DEF IInv, DataTypes
<1>6. /\ f \in Frames /\ f.card = Top(t).card /\ f.seen = Top(t).seen
      /\ f.rest = Top(t).rest /\ f.at = Top(t).at /\ f.doc = file[f.card]
      /\ f.kids = Top(t).kids /\ f.hash = Top(t).hash
  <2>1. (Top(t).card \in closed) \in BOOLEAN
    OBVIOUS
  <2>2. f \in Frames
    BY <1>2, <1>4, <1>5, <2>1 DEF Frames
  <2>3. /\ f.card = Top(t).card /\ f.seen = Top(t).seen
        /\ f.rest = Top(t).rest /\ f.at = Top(t).at
        /\ f.kids = Top(t).kids /\ f.hash = Top(t).hash
    BY <1>2, <1>4 DEF Frames
  <2>4. f.doc = file[Top(t).card]
    BY <1>2, <1>4 DEF Frames
  <2> QED
    BY <2>2, <2>3, <2>4
<1>7. f.shut = (f.card \in closed)
  BY <1>2, <1>4, <1>5, <1>6 DEF Frames
<1>8. Astray(f.card) => Closes(f.doc) # f.shut
  BY <1>6, <1>7 DEF Astray
<1>9. CASE Kids[f.card] = {}
  <2>1. Decide(t, f)
    BY <1>4, <1>9
  <2>2. Kids[f.card] = {} => f.kids = <<>>
    BY <1>2, <1>6 DEF FrameOK
  <2> QED
    BY <1>1, <1>3, <1>5, <1>6, <1>8, <2>1, <2>2, Decided
<1>10. CASE Kids[f.card] # {}
  <2>1. PICK g : g = [f EXCEPT !.at = "children"]
    OBVIOUS
  <2>2. /\ g \in Frames /\ g.card = f.card /\ g.at = "children" /\ g.doc = f.doc
        /\ g.kids = f.kids /\ g.seen = f.seen /\ g.rest = f.rest /\ g.hash = f.hash
    BY <1>6, <2>1 DEF Frames, Steps
  <2>3. g.shut = f.shut
    BY <1>6, <2>1 DEF Frames
  <2>4. FrameOK(g)
    BY <1>2, <1>5, <1>6, <2>2 DEF FrameOK
  <2>5. FrameFiled(g)
    BY <1>8, <2>2, <2>3 DEF FrameFiled
  <2>6. stack' = WithTop(t, g) /\ UNCHANGED <<db, skip, lock>>
    BY <1>4, <1>10, <2>1
  <2>7. \A h \in Frames : FrameOK(h) /\ FrameFiled(h) => FrameOK(h)' /\ FrameFiled(h)'
    BY <1>1, FilesKept DEF disk
  <2>8. g.card \notin g.rest
    BY <1>2, <1>6, <2>2 DEF Nested, Top
  <2>9. StackInv' /\ FramesInv'
    BY <1>1, <1>3, <1>6, <2>2, <2>4, <2>5, <2>6, <2>7, <2>8, GoesOn DEF IInv
  <2>10. EntriesInv'
    BY <1>1, <2>6, EntriesKept DEF IInv, disk
  <2>11. DataTypes'
    BY <1>1, <2>6 DEF IInv, DataTypes, disk
  <2> QED
    BY <2>9, <2>10, <2>11 DEF IInv
<1> QED
  BY <1>9, <1>10

\* What the mirror says of the children of a card.
LEMMA ChildrenTyped ==
    ASSUME DataTypes, NEW c \in Cards
    PROVE  Children(c) \in KidDocs /\ (Kids[c] = {} => Children(c) = <<>>)
<1>1. PICK K : K = Kids[c]
  OBVIOUS
<1>2. K \in SUBSET Cards
  BY <1>1, GraphAssumption
<1>3. \A k \in K : Digest(db[k]) \in Doc
  BY <1>2 DEF DataTypes, Digest, Doc
<1>4. Children(c) = [k \in K |-> Digest(db[k])]
  BY <1>1 DEF Children
<1>5. Children(c) \in [K -> Doc]
  BY <1>3, <1>4
<1>6. K = {} => Children(c) = <<>>
  BY <1>4
<1> QED
  BY <1>1, <1>2, <1>5, <1>6 DEF KidDocs

\* A parent decides on the children it has just read.
LEMMA ReadChildrenKeeps ==
    ASSUME IInv, NEW t \in Threads, ReadChildren(t)
    PROVE  IInv'
<1>1. /\ stack[t] # <<>> /\ Top(t).at = "children"
      /\ UNCHANGED <<disk, watch, due, edits>>
  BY DEF ReadChildren, At
<1>2. /\ Top(t) \in Frames /\ Top(t).card \in Cards /\ FrameOK(Top(t)) /\ FrameFiled(Top(t))
  BY <1>1, TopFrame DEF IInv
<1>3. lock[Top(t).card] # <<>> /\ Head(lock[Top(t).card]) = t
  BY <1>1, Holder DEF IInv, Holds
<1>4. PICK f : f = [Top(t) EXCEPT !.kids = Children(Top(t).card)] /\ Decide(t, f)
  BY DEF ReadChildren
<1>5. /\ Children(Top(t).card) \in KidDocs
      /\ Kids[Top(t).card] = {} => Children(Top(t).card) = <<>>
  BY <1>2, ChildrenTyped DEF IInv
<1>6. /\ f \in Frames /\ f.card = Top(t).card /\ f.seen = Top(t).seen
      /\ f.rest = Top(t).rest /\ f.at = Top(t).at /\ f.doc = Top(t).doc
      /\ f.kids = Children(f.card) /\ f.hash = Top(t).hash
  BY <1>2, <1>4, <1>5 DEF Frames
<1>7. f.shut = Top(t).shut
  BY <1>2, <1>4 DEF Frames
<1>8. /\ f.doc \in Doc /\ f.doc.finished <= edits
      /\ Kids[f.card] = {} => f.kids = <<>>
  BY <1>1, <1>2, <1>5, <1>6 DEF FrameOK
<1>9. Astray(f.card) => \/ f.doc.finished < file[f.card].finished
                        \/ Closes(f.doc) # f.shut
  BY <1>1, <1>2, <1>6, <1>7 DEF FrameFiled
<1> QED
  BY <1>1, <1>3, <1>4, <1>6, <1>8, <1>9, Decided

\* An edit counts.
LEMMA EditedNow ==
    ASSUME IInv, Edited
    PROVE  edits' \in 0..MaxEdits /\ edits <= edits' /\ edits < edits'
BY BoundsAssumption DEF IInv, DataTypes, Edited

\* What reading a card's file gives.
LEMMA FileRead ==
    ASSUME IInv, NEW c \in Cards
    PROVE  /\ file[c] \in Doc /\ ParseIssue(file[c]) \in Doc
           /\ ParseIssue(file[c]).finished = file[c].finished
           /\ file[c].finished <= edits /\ file[c].finished \in Nat
           /\ Closes(ParseIssue(file[c])) = Closes(file[c])
<1>1. file[c] \in Doc /\ file[c].finished <= edits
  BY DEF IInv, DataTypes
<1>2. file[c].finished \in Nat
  BY <1>1 DEF Doc
<1> QED
  BY <1>1, <1>2, ParseKeeps

\* Time passes, and no file is from the future.
LEMMA FileLater ==
    ASSUME IInv, edits \in Nat, edits' \in Nat, edits <= edits'
    PROVE  \A e \in Cards : file[e].finished <= edits'
<1>1. \A e \in Cards : file[e].finished \in Nat /\ file[e].finished <= edits
  BY DEF IInv, DataTypes, Doc
<1> QED
  BY <1>1

\* What is hidden in the closed bucket.
WellHidden ==
    /\ hidden \in [Cards -> Doc \cup {NoDoc}]
    /\ \A c \in Cards : hidden[c].finished <= edits

\* A copy is left there, or taken away.
LEMMA HiddenTakes ==
    ASSUME IInv, NEW c \in Cards, NEW x \in Doc \cup {NoDoc},
           edits \in Nat, edits' \in Nat, edits <= edits', x.finished <= edits',
           hidden' = [hidden EXCEPT ![c] = x]
    PROVE  WellHidden'
<1>1. hidden \in [Cards -> Doc \cup {NoDoc}]
  BY DEF IInv, DataTypes
<1>2. \A e \in Cards : hidden'[e] = IF e = c THEN x ELSE hidden[e]
  BY <1>1
<1>3. \A e \in Cards : hidden[e].finished <= edits'
  <2>1. \A e \in Cards : hidden[e].finished \in Nat
    BY <1>1, NoDocFacts DEF Doc
  <2>2. \A e \in Cards : hidden[e].finished <= edits
    BY DEF IInv, DataTypes
  <2> QED
    BY <2>1, <2>2
<1>4. hidden' \in [Cards -> Doc \cup {NoDoc}]
  BY <1>1
<1>5. \A e \in Cards : hidden'[e].finished <= edits'
  BY <1>2, <1>3
<1> QED
  BY <1>4, <1>5 DEF WellHidden

\* What the step does not touch.
LEMMA HiddenStays ==
    ASSUME IInv, edits \in Nat, edits' \in Nat, edits <= edits', hidden' = hidden
    PROVE  WellHidden'
<1>1. \A e \in Cards : hidden[e].finished \in Nat /\ hidden[e].finished <= edits
  BY NoDocFacts DEF IInv, DataTypes, Doc
<1>2. \A e \in Cards : hidden[e].finished <= edits'
  BY <1>1
<1> QED
  BY <1>2 DEF IInv, DataTypes, WellHidden

\* The two ways in which a write leaves the closed bucket.
LEMMA HiddenAlone ==
    ASSUME IInv, NEW c \in Cards, Alone(c),
           edits \in Nat, edits' \in Nat, edits <= edits'
    PROVE  WellHidden'
<1>1. NoDoc \in Doc \cup {NoDoc} /\ NoDoc.finished <= edits'
  BY NoDocFacts
<1> QED
  BY <1>1, HiddenTakes DEF Alone

LEMMA HiddenHides ==
    ASSUME IInv, NEW c \in Cards, Hides(c),
           edits \in Nat, edits' \in Nat, edits <= edits'
    PROVE  WellHidden'
<1>1. PICK x : x = IF c \in closed THEN file[c] ELSE hidden[c]
  OBVIOUS
<1>2. hidden \in [Cards -> Doc \cup {NoDoc}] /\ file[c] \in Doc
  BY DEF IInv, DataTypes
<1>3. file[c].finished <= edits /\ hidden[c].finished <= edits
  BY DEF IInv, DataTypes
<1>4. x \in Doc \cup {NoDoc} /\ x.finished <= edits
  BY <1>1, <1>2, <1>3
<1>5. x.finished \in Nat
  BY <1>4, NoDocFacts DEF Doc
<1>6. x.finished <= edits'
  BY <1>4, <1>5
<1>7. hidden' = [hidden EXCEPT ![c] = x]
  BY <1>1, <1>2 DEF Hides
<1> QED
  BY <1>4, <1>6, <1>7, HiddenTakes

\* The file is written and filed; the call goes on to the parent and the
\* dependents, or returns.
LEMMA WriteKeeps ==
    ASSUME IInv, NEW t \in Threads, Write(t)
    PROVE  IInv'
<1>0. PICK c, d : c = Top(t).card /\ d = Top(t).doc
  OBVIOUS
<1>1. /\ stack[t] # <<>> /\ Top(t).at = "write"
      /\ file' = [file EXCEPT ![c] = d]
      /\ closed' = IF Closes(d) THEN closed \cup {c} ELSE closed \ {c}
      /\ watch' = watch \cup {c}
      /\ UNCHANGED <<alive, db, due>>
      /\ \/ Alone(c) /\ UNCHANGED edits
         \/ Hides(c) /\ (Edited \/ UNCHANGED edits)
  BY <1>0 DEF Write, At
<1>2. /\ Top(t) \in Frames /\ c \in Cards /\ FrameOK(Top(t))
      /\ Nested(stack[t]) /\ Len(stack[t]) \in 1..Len(stack[t])
  BY <1>0, <1>1, TopFrame DEF IInv
<1>3. lock[c] # <<>> /\ Head(lock[c]) = t
  BY <1>0, <1>1, Holder DEF IInv, Holds
<1>4. /\ d \in Doc /\ d.finished <= edits /\ Top(t).hash \in Doc
      /\ Settled(c, Top(t).hash, Top(t).kids) /\ Top(t).hash.finished <= edits
  BY <1>0, <1>1, <1>2 DEF FrameOK
<1>5. /\ edits' \in 0..MaxEdits /\ edits \in Nat /\ edits' \in Nat /\ edits <= edits'
      /\ file \in [Cards -> Doc]
  <2>1. edits \in 0..MaxEdits /\ edits <= edits /\ edits \in Nat
    BY BoundsAssumption DEF IInv, DataTypes
  <2>2. edits' \in 0..MaxEdits /\ edits <= edits'
    BY <1>1, <2>1, EditedNow
  <2> QED
    BY <2>1, <2>2 DEF IInv, DataTypes
<1>6. ~Astray(c)'
  <2>1. file'[c] = d /\ Closes(d) \in BOOLEAN
    BY <1>1, <1>2, <1>5 DEF Closes
  <2>2. Closes(d) = (c \in closed')
    BY <1>1, <2>1
  <2> QED
    BY <2>1, <2>2 DEF Astray
<1>7. /\ closed' \subseteq Cards /\ closed' \ {c} = closed \ {c}
  BY <1>1, <1>2 DEF IInv, DataTypes
<1>8. /\ \A f \in Frames : FrameOK(f) /\ FrameFiled(f) => FrameOK(f)' /\ FrameFiled(f)'
      /\ EntriesInv /\ UNCHANGED skip => EntriesInv'
  <2>1. /\ edits' \in Nat /\ edits <= edits'
        /\ Astray(c)' => \/ edits < d.finished
                         \/ Astray(c) /\ file[c].finished <= d.finished
    BY <1>5, <1>6
  <2> QED
    BY <1>1, <1>2, <1>4, <1>7, <2>1, FileWritten DEF IInv
<1>9. /\ file' \in [Cards -> Doc] /\ db' \in [Cards -> Doc]
      /\ alive' \subseteq Cards /\ watch' \subseteq Cards /\ due' \subseteq Cards
      /\ edits' \in 0..MaxEdits /\ WellHidden'
      /\ \A e \in Cards : file'[e].finished <= edits'
  <2>1. WellHidden'
    BY <1>1, <1>2, <1>5, HiddenHides, HiddenAlone
  <2>2. \A e \in Cards : file'[e].finished <= edits'
    <3>1. \A e \in Cards : e # c => file'[e] = file[e]
      BY <1>1
    <3>2. file'[c] = d /\ d.finished \in Nat
      BY <1>1, <1>2, <1>4, <1>5 DEF Doc
    <3>3. d.finished <= edits'
      BY <1>4, <1>5, <3>2
    <3>4. \A e \in Cards : file[e].finished <= edits'
      BY <1>5, FileLater
    <3> QED
      BY <3>1, <3>2, <3>3, <3>4
  <2> QED
    BY <1>1, <1>2, <1>4, <1>5, <2>1, <2>2 DEF IInv, DataTypes
<1>10. CASE Spread(t) = {}
  <2>1. skip' = [skip EXCEPT ![c] = [doc |-> Top(t).hash, kids |-> Top(t).kids]] /\ Return(t)
    BY <1>0, <1>10 DEF Write, Finish
  <2>2. StackInv' /\ FramesInv'
    BY <1>0, <1>1, <1>3, <1>8, <2>1, Returned DEF IInv
  <2>3. /\ Top(t).kids \in KidDocs
        /\ [doc |-> Top(t).hash, kids |-> Top(t).kids] \in Entries
    BY <1>2, <1>4 DEF Frames, Entries
  <2>4. skip' \in [Cards -> Entries]
    BY <2>1, <2>3 DEF IInv, DataTypes
  <2>5. EntriesInv'
    <3>1. SUFFICES ASSUME NEW e \in Cards
                   PROVE  EntryOK(e)'
      BY DEF EntriesInv
    <3>2. CASE e = c
      <4>1. skip'[e].doc = Top(t).hash /\ skip'[e].kids = Top(t).kids
        BY <2>1, <3>2 DEF IInv, DataTypes
      <4>2. ~Astray(e)'
        BY <1>6, <3>2
      <4>3. Top(t).hash.finished <= edits'
        <5>1. Top(t).hash.finished \in Nat
          BY <1>4 DEF Doc
        <5> QED
          BY <1>4, <1>5, <5>1
      <4> QED
        BY <1>4, <3>2, <4>1, <4>2, <4>3 DEF EntryOK, Settled, PinnedBy
    <3>3. CASE e # c
      <4>1. skip'[e] = skip[e] /\ file'[e] = file[e] /\ Astray(e)' = Astray(e)
        BY <1>1, <1>2, <1>5, <1>7, <2>1, <3>3 DEF IInv, DataTypes, Astray
      <4>2. EntryOK(e) /\ skip[e].doc.finished <= edits'
        <5>1. EntryOK(e)
          BY DEF IInv, EntriesInv
        <5>2. skip[e].doc.finished \in Nat
          BY NoDocFacts DEF IInv, DataTypes, Entries, Doc
        <5>3. skip[e].doc.finished <= edits
          BY <5>1 DEF EntryOK
        <5> QED
          BY <1>5, <5>1, <5>2, <5>3
      <4> QED
        BY <4>1, <4>2 DEF EntryOK, Settled, PinnedBy
    <3> QED
      BY <3>2, <3>3
  <2> QED
    BY <1>7, <1>9, <2>2, <2>4, <2>5 DEF IInv, DataTypes, WellHidden
<1>11. CASE Spread(t) # {}
  <2>1. PICK g : /\ g = [Top(t) EXCEPT !.at = "spread", !.rest = Spread(t),
                                       !.doc = NoDoc, !.seen = @ \cup {c}]
                 /\ stack' = WithTop(t, g)
                 /\ UNCHANGED <<skip, lock>>
    BY <1>0, <1>11 DEF Write
  <2>2. Spread(t) \subseteq Cards \ (Top(t).seen \cup {c})
    BY <1>0, <1>2, GraphAssumption DEF Spread, Parents
  <2>3. /\ g \in Frames /\ g.card = c /\ g.at = "spread" /\ g.rest = Spread(t)
        /\ g.seen = Top(t).seen \cup {c} /\ g.doc = NoDoc /\ g.hash = Top(t).hash
        /\ g.kids = Top(t).kids
    BY <1>0, <1>2, <2>1, <2>2 DEF Frames, Steps
  <2>4. FrameOK(g)
    BY <1>0, <1>2, <1>4, <1>5, <2>3, NoDocFacts DEF FrameOK
  <2>5. FrameOK(g)' /\ FrameFiled(g)'
    <3>1. FrameOK(g)'
      <4>1. g.doc.finished <= edits' /\ g.hash.finished <= edits'
        <5>1. g.doc.finished \in Nat /\ g.hash.finished \in Nat
          BY <1>4, <2>3, NoDocFacts DEF Doc
        <5>2. g.doc.finished <= edits /\ g.hash.finished <= edits
          BY <2>4 DEF FrameOK
        <5> QED
          BY <1>5, <5>1, <5>2
      <4> QED
        BY <2>4, <4>1 DEF FrameOK, Settled, PinnedBy
    <3>2. FrameFiled(g)'
      BY <1>6, <2>3 DEF FrameFiled
    <3> QED
      BY <3>1, <3>2
  <2>6. StackInv' /\ FramesInv'
    BY <1>0, <1>1, <1>3, <1>8, <2>1, <2>2, <2>3, <2>5, GoesOn DEF IInv
  <2> QED
    BY <1>7, <1>8, <1>9, <2>1, <2>6 DEF IInv, DataTypes, WellHidden
<1> QED
  BY <1>10, <1>11

\* A parent or dependent is called with the mutexes held.
LEMMA RecurseKeeps ==
    ASSUME IInv, NEW t \in Threads, Recurse(t)
    PROVE  IInv'
<1>1. /\ stack[t] # <<>> /\ Top(t).at = "spread"
      /\ UNCHANGED <<disk, db, watch, due, skip, edits>>
  BY DEF Recurse, At
<1>2. /\ Top(t) \in Frames /\ Top(t).card \in Cards
      /\ FrameOK(Top(t)) /\ FrameFiled(Top(t))
      /\ stack[t] \in Seq(Frames) /\ Nested(stack[t]) /\ Len(stack[t]) \in 1..Len(stack[t])
      /\ \A i \in 1..Len(stack[t]) : FrameOK(stack[t][i]) /\ FrameFiled(stack[t][i])
  BY <1>1, TopFrame DEF IInv
<1>3. PICK r, g :
         /\ r \in Top(t).rest
         /\ g = [Top(t) EXCEPT !.rest = @ \ {r}, !.seen = @ \cup Parents(Top(t).card) \cup {r}]
         /\ Call(t, r, WithTop(t, g)[t], Top(t).seen)
  BY DEF Recurse
<1>4. /\ g \in Frames /\ g.card = Top(t).card /\ g.at = "spread"
      /\ g.rest \subseteq Top(t).rest /\ Top(t).seen \subseteq g.seen
      /\ g.doc = Top(t).doc /\ g.hash = Top(t).hash /\ g.kids = Top(t).kids
  <2>1. Parents(Top(t).card) \subseteq Cards /\ r \in Cards
    BY <1>2, <1>3 DEF Parents, Frames
  <2> QED
    BY <1>1, <1>2, <1>3, <2>1 DEF Frames
<1>5. FrameOK(g) /\ FrameFiled(g)
  BY <1>1, <1>2, <1>4 DEF FrameOK, FrameFiled
<1>6. PICK s : s = WithTop(t, g)[t]
  OBVIOUS
<1>7. s = [stack[t] EXCEPT ![Len(stack[t])] = g]
  BY <1>6 DEF WithTop, IInv, StackInv
<1>8. /\ s \in Seq(Frames) /\ Len(s) = Len(stack[t])
      /\ \A i \in 1..Len(stack[t]) : s[i] = IF i = Len(stack[t]) THEN g ELSE stack[t][i]
  BY <1>2, <1>4, <1>7
<1>9. \A i \in 1..Len(stack[t]) : /\ stack[t][i].card \in Top(t).seen
                                  /\ stack[t][i].card \notin Top(t).rest
  <2>1. PICK q : q = stack[t]
    OBVIOUS
  <2>2. Top(t) = q[Len(q)]
    BY <2>1 DEF Top
  <2>3. \A i \in 1..Len(q) : i < Len(q) \/ i = Len(q)
    BY <1>2, <2>1
  <2>4. \A i \in 1..Len(q) : q[i].card \in Top(t).seen /\ q[i].card \notin Top(t).rest
    BY <1>1, <1>2, <2>1, <2>2, <2>3 DEF Nested
  <2> QED
    BY <2>1, <2>4
<1>10. /\ Nested(s) /\ Calls(s) = Calls(stack[t])
       /\ Held(s) \subseteq Held(stack[t])
  <2>1. PICK q : q = stack[t]
    OBVIOUS
  <2>2. Top(t) = q[Len(q)] /\ q \in Seq(Frames) /\ Nested(q) /\ q # <<>>
    BY <1>1, <1>2, <2>1 DEF Top
  <2>3. /\ q[Len(q)].at # "mirror" /\ g.card = q[Len(q)].card /\ g.at # "mirror"
        /\ g.card \in g.seen /\ g.card \notin g.rest
    BY <1>1, <1>2, <1>4, <1>9, <2>1, <2>2
  <2>4. \A i \in 1..Len(q) : i < Len(q) => q[i].card \in g.seen /\ q[i].card \notin g.rest
    BY <1>4, <1>9, <2>1
  <2>5. /\ Len(s) = Len(q)
        /\ \A i \in 1..Len(q) : s[i] = IF i = Len(q) THEN g ELSE q[i]
    BY <1>8, <2>1
  <2>6. /\ Nested(s) /\ Calls(s) = Calls(q) /\ Held(s) \subseteq Held(q) \cup {g.card}
    BY <1>4, <1>8, <2>2, <2>3, <2>4, <2>5, Replaced
  <2>7. g.card \in Held(q)
    BY <1>1, <1>2, <1>4, <2>1, <2>2 DEF Held, Holds
  <2> QED
    BY <2>1, <2>6, <2>7
<1>11. r \in Cards /\ r \notin Calls(s)
  <2>1. r \in Cards
    BY <1>2, <1>3 DEF Frames
  <2>2. r \notin Calls(stack[t])
    BY <1>3, <1>9 DEF Calls
  <2> QED
    BY <1>10, <2>1, <2>2
<1>12. \A i \in 1..Len(s) : /\ s[i].at = "spread" /\ s[i].card \in Top(t).seen
                            /\ FrameOK(s[i]) /\ FrameFiled(s[i])
  <2>1. \A i \in 1..Len(stack[t]) : i # Len(stack[t]) => stack[t][i].at = "spread"
    BY <1>2 DEF Nested
  <2>2. g.card \in Top(t).seen
    BY <1>2, <1>4, <1>9 DEF Top
  <2> QED
    BY <1>2, <1>4, <1>5, <1>8, <1>9, <2>1, <2>2
<1>13. Call(t, r, s, Top(t).seen) /\ Top(t).seen \in SUBSET Cards
  BY <1>2, <1>3, <1>6 DEF Frames
<1>14. UNCHANGED <<file, closed, edits>>
  BY <1>1 DEF disk
<1>15. StackInv' /\ FramesInv'
  <2>1. PICK seen \in SUBSET Cards : seen = Top(t).seen
    BY <1>13
  <2>2. Call(t, r, s, seen) /\ \A i \in 1..Len(s) : s[i].card \in seen
    BY <1>12, <1>13, <2>1
  <2> QED
    BY <1>8, <1>10, <1>11, <1>12, <1>14, <2>2, Called DEF IInv
<1>16. EntriesInv' /\ DataTypes'
  BY <1>1, <1>14, EntriesKept DEF IInv, DataTypes, disk
<1> QED
  BY <1>15, <1>16 DEF IInv

\* The calls are through; what was reconciled goes into the skip-cache.
LEMMA SpreadDoneKeeps ==
    ASSUME IInv, NEW t \in Threads, SpreadDone(t)
    PROVE  IInv'
<1> DEFINE c == Top(t).card
<1>1. /\ stack[t] # <<>> /\ Top(t).at = "spread" /\ Return(t)
      /\ skip' = [skip EXCEPT ![c] = [doc |-> Top(t).hash, kids |-> Top(t).kids]]
      /\ UNCHANGED <<disk, db, watch, due, edits>>
  BY DEF SpreadDone, At, Finish
<1>2. /\ Top(t) \in Frames /\ c \in Cards /\ FrameOK(Top(t)) /\ FrameFiled(Top(t))
      /\ Top(t).kids \in KidDocs
  BY <1>1, TopFrame DEF IInv, Frames
<1>3. lock[c] # <<>> /\ Head(lock[c]) = t
  BY <1>1, Holder DEF IInv, Holds
<1>4. \A f \in Frames : FrameOK(f) /\ FrameFiled(f) => FrameOK(f)' /\ FrameFiled(f)'
  BY <1>1, FilesKept DEF disk
<1>5. StackInv' /\ FramesInv'
  BY <1>1, <1>3, <1>4, Returned DEF IInv
<1>6. /\ Top(t).hash \in Doc /\ Settled(c, Top(t).hash, Top(t).kids)
      /\ Top(t).hash.finished <= edits
      /\ Astray(c) => Top(t).hash.finished < file[c].finished
  BY <1>1, <1>2 DEF FrameOK, FrameFiled
<1>7. EntriesInv' /\ skip' \in [Cards -> Entries]
  BY <1>1, <1>2, <1>6, EntryTaken DEF IInv, disk
<1>8. DataTypes'
  BY <1>1, <1>7 DEF IInv, DataTypes, disk
<1> QED
  BY <1>5, <1>7, <1>8 DEF IInv

\* A handler or the sweep starts with a file.
LEMMA MirrorOneKeeps ==
    ASSUME IInv, NEW t \in Threads, NEW c \in Cards, NEW d \in Doc,
           d.finished <= edits, MirrorOne(t, c, d), UNCHANGED <<file, closed, edits>>
    PROVE  StackInv' /\ FramesInv'
<1>1. stack[t] = <<>>
  BY DEF MirrorOne
<1>2. CASE Call(t, c, <<>>, {})
  BY <1>1, <1>2, Started DEF IInv
<1>3. ASSUME stack' = [stack EXCEPT ![t] =
                           <<[Frame(c, "mirror", {}) EXCEPT !.doc = d]>>],
             UNCHANGED lock
      PROVE  StackInv' /\ FramesInv'
  <2>1. PICK f : f = [Frame(c, "mirror", {}) EXCEPT !.doc = d]
    OBVIOUS
  <2>2. edits \in Nat
    BY BoundsAssumption DEF IInv, DataTypes
  <2>3. /\ f \in Frames /\ f.card = c /\ f.at = "mirror" /\ f.rest = {}
        /\ f.doc = d /\ f.hash = NoDoc /\ f.kids = <<>>
    <3>1. PICK g : g = Frame(c, "mirror", {})
      OBVIOUS
    <3>2. /\ g \in Frames /\ g.card = c /\ g.at = "mirror" /\ g.rest = {}
          /\ g.hash = NoDoc /\ g.kids = <<>>
      BY <3>1, NewFrame DEF Steps
    <3> QED
      BY <2>1, <3>1, <3>2 DEF Frames
  <2>4. FrameOK(f) /\ FrameFiled(f)
    BY <2>2, <2>3, NoDocFacts DEF FrameOK, FrameFiled
  <2>5. PICK r : r = <<f>>
    OBVIOUS
  <2>6. /\ r \in Seq(Frames) /\ Len(r) = 1 /\ r[1] = f
        /\ \A i \in 1..Len(r) : i = 1
    BY <2>3, <2>5
  <2>7. Nested(r) /\ Calls(r) = {} /\ Held(r) = {}
    BY <2>3, <2>6 DEF Nested, Calls, Held, Holds
  <2>8. Calls(stack[t]) = {} /\ Held(stack[t]) = {}
    BY <1>1, MirrorAlone DEF IInv
  <2>9. stack' = [stack EXCEPT ![t] = r]
    BY <1>3, <2>1, <2>5
  <2>10. Exclusive'
    BY <1>3, <2>7, <2>8, <2>9, Stays DEF IInv, StackInv
  <2>11. FramesInv'
    <3>1. \A i \in 1..Len(r) : FrameOK(r[i])' /\ FrameFiled(r[i])'
      BY <2>3, <2>4, <2>6, FilesKept
    <3> QED
      BY <2>9, <3>1, FilesKept, FramesStep DEF IInv, StackInv
  <2>12. stack' \in [Threads -> Seq(Frames)] /\ \A u \in Threads : Nested(stack'[u])
    BY <2>6, <2>7, <2>9 DEF IInv, StackInv
  <2> QED
    BY <1>3, <2>10, <2>11, <2>12 DEF IInv, StackInv
<1> QED
  BY <1>2, <1>3 DEF MirrorOne

\* A file event is taken up.
LEMMA FileEventKeeps ==
    ASSUME IInv, NEW t \in Handlers, NEW c \in Cards, FileEvent(t, c)
    PROVE  IInv'
<1>0. PICK d : d \in {file[c], hidden[c]} \ {NoDoc} /\ MirrorOne(t, c, d)
  BY DEF FileEvent
<1>1. watch' = watch \ {c} /\ UNCHANGED <<disk, db, due, skip, edits>>
  BY DEF FileEvent
<1>2. StackInv' /\ FramesInv'
  <2>1. d \in Doc /\ d.finished <= edits
    BY <1>0 DEF IInv, DataTypes
  <2> QED
    BY <1>0, <1>1, <2>1, MirrorOneKeeps DEF disk, Threads
<1>3. EntriesInv' /\ DataTypes'
  BY <1>1, EntriesKept DEF IInv, DataTypes, disk
<1> QED
  BY <1>2, <1>3 DEF IInv

\* The sweep comes to a card.
LEMMA AuditVisitsKeeps ==
    ASSUME IInv, NEW c \in Cards, AuditVisits(c)
    PROVE  IInv'
<1>1. /\ MirrorOne("audit", c, file[c])
      /\ UNCHANGED <<disk, db, watch, due, skip, edits>>
  BY DEF AuditVisits
<1>2. StackInv' /\ FramesInv'
  <2>1. file[c] \in Doc /\ file[c].finished <= edits
    BY FileRead
  <2> QED
    BY <1>1, <2>1, MirrorOneKeeps DEF disk, Threads
<1>3. EntriesInv' /\ DataTypes'
  BY <1>1, EntriesKept DEF IInv, DataTypes, disk
<1> QED
  BY <1>2, <1>3 DEF IInv

\* The mirror has the file; the reconcile is called.
LEMMA MirroredKeeps ==
    ASSUME IInv, NEW t \in Threads, Mirrored(t)
    PROVE  IInv'
<1>1. /\ At(t, "mirror") /\ stack[t] # <<>> /\ Top(t).at = "mirror"
      /\ db' = [db EXCEPT ![Top(t).card] = Top(t).doc]
      /\ Call(t, Top(t).card, <<>>, {})
      /\ UNCHANGED <<disk, watch, due, skip, edits>>
  BY DEF Mirrored, At
<1>2. /\ Top(t).card \in Cards /\ FrameOK(Top(t))
  BY <1>1, TopFrame DEF IInv
<1>3. Top(t).doc \in Doc
  BY <1>1, <1>2 DEF FrameOK
<1>4. PICK c \in Cards : c = Top(t).card
  BY <1>2
<1>5. StackInv' /\ FramesInv'
  BY <1>1, <1>4, Started DEF IInv, disk
<1>6. EntriesInv' /\ DataTypes'
  BY <1>1, <1>2, <1>3, EntriesKept DEF IInv, DataTypes, disk
<1> QED
  BY <1>5, <1>6 DEF IInv

\* The parent that a report named is reconciled.
LEMMA ParentCalledKeeps ==
    ASSUME IInv, NEW t \in Handlers, NEW c \in Cards, ParentCalled(t, c)
    PROVE  IInv'
<1>1. /\ stack[t] = <<>> /\ due' = due \ {c} /\ Call(t, c, <<>>, {})
      /\ UNCHANGED <<disk, db, watch, skip, edits>>
  BY DEF ParentCalled
<1>2. StackInv' /\ FramesInv'
  BY <1>1, Started DEF IInv, disk, Threads
<1>3. EntriesInv' /\ DataTypes'
  BY <1>1, EntriesKept DEF IInv, DataTypes, disk
<1> QED
  BY <1>2, <1>3 DEF IInv

\* Another writer of a card.
LEMMA DocWritten ==
    ASSUME IInv, NEW c \in Cards, NEW d \in Doc, file' = [file EXCEPT ![c] = d],
           edits' \in 0..MaxEdits, edits <= edits', d.finished <= edits',
           closed' \ {c} = closed \ {c},
           Astray(c)' => \/ edits < d.finished
                         \/ Astray(c) /\ file[c].finished <= d.finished,
           closed' \subseteq Cards, alive' \subseteq Cards, db' \in [Cards -> Doc],
           watch' \subseteq Cards, due' \subseteq Cards, WellHidden',
           UNCHANGED <<skip, lock, stack>>
    PROVE  IInv'
<1>1. edits' \in Nat /\ edits \in Nat
  BY BoundsAssumption DEF IInv, DataTypes
<1>2. /\ \A f \in Frames : FrameOK(f) /\ FrameFiled(f) => FrameOK(f)' /\ FrameFiled(f)'
      /\ EntriesInv /\ UNCHANGED skip => EntriesInv'
  BY <1>1, FileWritten DEF IInv
<1>3. FramesInv'
  <2>1. \A u \in Threads : \A i \in 1..Len(stack[u]) : stack[u][i] \in Frames
    BY DEF IInv, StackInv
  <2> QED
    BY <1>2, <2>1 DEF IInv, FramesInv
<1>4. StackInv'
  BY DEF IInv, StackInv, Exclusive
<1>5. DataTypes'
  <2>1. \A e \in Cards : file'[e].finished <= edits'
    <3>1. \A e \in Cards : e # c => file'[e] = file[e]
      BY DEF IInv, DataTypes
    <3>2. file'[c] = d
      BY DEF IInv, DataTypes
    <3>3. \A e \in Cards : file[e].finished \in Nat /\ file[e].finished <= edits
      BY DEF IInv, DataTypes, Doc
    <3>4. \A e \in Cards : file[e].finished <= edits'
      BY <1>1, <3>3
    <3> QED
      BY <3>1, <3>2, <3>4
  <2>2. file' \in [Cards -> Doc] /\ skip' \in [Cards -> Entries]
    BY DEF IInv, DataTypes
  <2> QED
    BY <2>1, <2>2 DEF DataTypes, WellHidden
<1> QED
  BY <1>2, <1>3, <1>4, <1>5 DEF IInv

\* A person moves a card on the board.
LEMMA OperatorMovesKeeps ==
    ASSUME IInv, NEW c \in Cards, NEW dest \in Destinations, OperatorMoves(c, dest)
    PROVE  IInv'
<1>1. PICK p \in Doc : p = ParseIssue(file[c]) /\ p.finished = file[c].finished
  BY FileRead
<1>2. PICK d : d = ApplyListMove(p, dest) /\ Saved(c, d)
  BY <1>1 DEF OperatorMoves
<1>3. /\ watch' = watch \cup {c} /\ Edited
      /\ UNCHANGED <<alive, db, due, skip, lock, stack>>
  BY DEF OperatorMoves
<1>4. dest \in Columns
  BY GraphAssumption
<1>5. /\ d \in Doc /\ d.finished <= p.finished
      /\ d.status = dest /\ (Closes(d) <=> dest \in Terminal)
  BY <1>1, <1>2, <1>4, MoveFiles
<1>6. /\ edits' \in 0..MaxEdits /\ edits <= edits' /\ edits' \in Nat /\ edits \in Nat
  BY <1>3, EditedNow, BoundsAssumption DEF IInv, DataTypes
<1>7. d.finished <= edits'
  <2>1. file[c].finished <= edits /\ file[c].finished \in Nat /\ d.finished \in Nat
    BY <1>5, FileRead DEF Doc
  <2> QED
    BY <1>1, <1>5, <1>6, <2>1
<1>8. /\ alive' \subseteq Cards /\ db' \in [Cards -> Doc]
      /\ watch' \subseteq Cards /\ due' \subseteq Cards
      /\ UNCHANGED <<skip, lock, stack>>
  BY <1>3 DEF IInv, DataTypes
\* The move is what readers find: alone, or above the copy it came from.
<1>9. ASSUME file' = [file EXCEPT ![c] = d],
             closed' = IF d.status \in Terminal THEN closed \cup {c} ELSE closed \ {c},
             WellHidden'
      PROVE  IInv'
  <2>1. ~Astray(c)'
    <3>1. file'[c] = d /\ Closes(d) \in BOOLEAN
      BY <1>5, <1>9 DEF IInv, DataTypes, Closes
    <3>2. Closes(d) = (c \in closed')
      BY <1>5, <1>9, <3>1
    <3> QED
      BY <3>1, <3>2 DEF Astray
  <2>2. closed' \ {c} = closed \ {c} /\ closed' \subseteq Cards
    BY <1>9 DEF IInv, DataTypes
  <2> QED
    BY <1>5, <1>6, <1>7, <1>8, <1>9, <2>1, <2>2, DocWritten
\* It is hidden by the copy that could not be unlinked.
<1>10. ASSUME hidden' = [hidden EXCEPT ![c] = d], UNCHANGED <<file, closed>>
       PROVE  IInv'
  <2>1. WellHidden'
    BY <1>5, <1>6, <1>7, <1>10, HiddenTakes
  <2>2. PICK e \in Doc : e = file[c]
    BY FileRead
  <2>3. file' = [file EXCEPT ![c] = e]
    BY <1>10, <2>2 DEF IInv, DataTypes
  <2>4. e.finished <= edits'
    BY <1>6, <2>2, FileRead
  <2>5. Astray(c)' => Astray(c) /\ file[c].finished <= e.finished
    BY <1>10, <2>2, FileRead DEF Astray
  <2>6. closed' \ {c} = closed \ {c} /\ closed' \subseteq Cards
    BY <1>10 DEF IInv, DataTypes
  <2> QED
    BY <1>6, <1>8, <2>1, <2>2, <2>3, <2>4, <2>5, <2>6, DocWritten
<1>11. \/ /\ file' = [file EXCEPT ![c] = d]
          /\ closed' = IF d.status \in Terminal THEN closed \cup {c} ELSE closed \ {c}
          /\ UNCHANGED hidden \/ Alone(c) \/ Hides(c)
       \/ hidden' = [hidden EXCEPT ![c] = d] /\ UNCHANGED <<file, closed>>
  BY <1>2 DEF Saved
<1>12. UNCHANGED hidden \/ Alone(c) \/ Hides(c) => WellHidden'
  BY <1>6, HiddenStays, HiddenAlone, HiddenHides
<1> QED
  BY <1>9, <1>10, <1>11, <1>12

\* The picker takes a card.
LEMMA PickedUpKeeps ==
    ASSUME IInv, NEW c \in Cards, PickedUp(c)
    PROVE  IInv'
<1>1. PICK p \in Doc : /\ p = ParseIssue(file[c]) /\ p.finished = file[c].finished
                       /\ p.status = DeriveStatus(file[c]) /\ p.stamps = file[c].stamps
  BY FileRead, ReadOnce
<1>2. PICK d : d = [p EXCEPT !.dispatch = "agent", !.owned = TRUE, !.stamps = @ \cup {"ToDo"}]
  OBVIOUS
<1>3. /\ p.status = "ToDo" /\ WriteIssue(c, d) /\ alive' = alive \cup {c}
      /\ c \notin closed /\ Edited
      /\ UNCHANGED <<closed, hidden, due, skip, lock, stack>>
  BY <1>1, <1>2 DEF PickedUp
<1>4. /\ d \in Doc /\ d.finished = p.finished /\ d.stamps = p.stamps \cup {"ToDo"}
      /\ d.status = "ToDo" /\ d.dispatch = "agent"
  BY <1>2, <1>3 DEF Doc, Stamps, Dispatches
<1>5. ~Closes(d)
  <2>1. "Cancelled" \notin p.stamps /\ "Done" \notin p.stamps
    BY <1>1, <1>3 DEF DeriveStatus
  <2> QED
    BY <1>4, <2>1 DEF Closes, DeriveStatus, Terminal
<1>6. /\ file' = [file EXCEPT ![c] = d] /\ db' = [db EXCEPT ![c] = d]
      /\ watch' = watch \cup {c}
  BY <1>3 DEF WriteIssue
<1>7. ~Astray(c)'
  <2>1. file'[c] = d /\ c \notin closed'
    BY <1>3, <1>6 DEF IInv, DataTypes
  <2>2. Closes(d) = (c \in closed')
    BY <1>5, <2>1 DEF Closes
  <2> QED
    BY <2>1, <2>2 DEF Astray
<1>8. /\ edits' \in 0..MaxEdits /\ edits <= edits' /\ edits' \in Nat /\ edits \in Nat
  BY <1>3, EditedNow, BoundsAssumption DEF IInv, DataTypes
<1>9. d.finished <= edits'
  <2>1. file[c].finished <= edits /\ file[c].finished \in Nat
    BY FileRead
  <2> QED
    BY <1>1, <1>4, <1>8, <2>1
<1>10. /\ alive' \subseteq Cards /\ db' \in [Cards -> Doc] /\ closed' \subseteq Cards
       /\ watch' \subseteq Cards /\ due' \subseteq Cards /\ closed' \ {c} = closed \ {c}
  BY <1>3, <1>4, <1>6 DEF IInv, DataTypes
<1>11. WellHidden'
  BY <1>3, <1>8, HiddenStays
<1> QED
  BY <1>3, <1>4, <1>6, <1>7, <1>8, <1>9, <1>10, <1>11, DocWritten

\* The report is later than anything a reconcile has read.
LEMMA AgentFinishesKeeps ==
    ASSUME IInv, NEW c \in Cards, NEW col \in Terminal, AgentFinishes(c, col)
    PROVE  IInv'
<1>1. PICK p \in Doc : /\ p = ParseIssue(file[c]) /\ p.finished = file[c].finished
                       /\ Closes(p) = Closes(file[c])
  BY FileRead
<1>2. PICK now : now = edits'
  OBVIOUS
<1>3. PICK d : d = StampTerminal(p, col, now)
  OBVIOUS
<1>4. /\ WriteIssue(c, d) /\ alive' = alive \ {c} /\ due' = due \cup Parents(c) /\ Edited
      /\ UNCHANGED <<closed, hidden, skip, lock, stack>>
  BY <1>1, <1>2, <1>3 DEF AgentFinishes
<1>5. /\ edits' \in 0..MaxEdits /\ edits <= edits' /\ edits < now /\ now \in Nat
      /\ edits' = now /\ edits \in Nat
  BY <1>2, <1>4, EditedNow, BoundsAssumption DEF IInv, DataTypes
<1>6. /\ d \in Doc /\ d.stamps = p.stamps \cup {col}
      /\ d.finished = IF col \in p.stamps THEN p.finished ELSE now
  <2>1. PICK m : m = IF col \in p.stamps THEN p.finished ELSE now
    OBVIOUS
  <2>2. m \in Nat
    BY <1>5, <2>1 DEF Doc
  <2>3. d = [p EXCEPT !.status = col, !.stamps = p.stamps \cup {col},
                      !.dispatch = "none", !.finished = m]
    BY <1>3, <2>1 DEF StampTerminal
  <2>4. col \in Columns /\ col \in Stamps
    BY DEF Columns, Stamps, Terminal
  <2>5. d \in Doc /\ d.stamps = p.stamps \cup {col} /\ d.finished = m
    BY <2>2, <2>3, <2>4 DEF Doc, Dispatches
  <2> QED
    BY <2>1, <2>5
<1>7. /\ file' = [file EXCEPT ![c] = d] /\ db' = [db EXCEPT ![c] = d]
      /\ watch' = watch \cup {c}
  BY <1>4 DEF WriteIssue
<1>8. Astray(c)' => \/ edits < d.finished
                    \/ Astray(c) /\ file[c].finished <= d.finished
  <2>1. CASE col \in p.stamps
    <3>1. Closes(d) = TRUE /\ Closes(p) = TRUE
      BY <1>6, <2>1 DEF Closes, DeriveStatus, Terminal
    <3>2. file'[c] = d /\ closed' = closed
      BY <1>4, <1>7 DEF IInv, DataTypes
    <3>3. Astray(c)' => Astray(c)
      BY <1>1, <3>1, <3>2 DEF Astray
    <3>4. file[c].finished <= d.finished
      BY <1>1, <1>6, <2>1, FileRead
    <3> QED
      BY <3>3, <3>4
  <2>2. CASE col \notin p.stamps
    BY <1>5, <1>6, <2>2
  <2> QED
    BY <2>1, <2>2
<1>9. d.finished <= edits'
  <2>1. file[c].finished <= edits /\ file[c].finished \in Nat
    BY FileRead
  <2> QED
    BY <1>1, <1>5, <1>6, <2>1
<1>10. /\ alive' \subseteq Cards /\ db' \in [Cards -> Doc] /\ closed' \subseteq Cards
       /\ watch' \subseteq Cards /\ due' \subseteq Cards /\ closed' \ {c} = closed \ {c}
  BY <1>4, <1>6, <1>7 DEF IInv, DataTypes, Parents
<1>11. WellHidden'
  BY <1>4, <1>5, HiddenStays
<1> QED
  BY <1>4, <1>5, <1>6, <1>7, <1>8, <1>9, <1>10, <1>11, DocWritten

\* A document that stays in its bucket and keeps its report.
LEMMA Refiled ==
    ASSUME IInv, NEW c \in Cards, NEW d \in Doc, WriteIssue(c, d),
           d.finished = file[c].finished, Closes(d) = Closes(file[c]),
           edits' \in 0..MaxEdits, edits <= edits', alive' \subseteq Cards,
           UNCHANGED <<closed, hidden, due, skip, lock, stack>>
    PROVE  IInv'
<1>1. /\ file' = [file EXCEPT ![c] = d] /\ db' = [db EXCEPT ![c] = d]
      /\ watch' = watch \cup {c}
  BY DEF WriteIssue
<1>2. file[c].finished <= edits /\ file[c].finished \in Nat /\ edits \in Nat /\ edits' \in Nat
  BY FileRead, BoundsAssumption DEF IInv, DataTypes
<1>3. d.finished <= edits' /\ file[c].finished <= d.finished
  BY <1>2
<1>4. Astray(c)' => Astray(c)
  <2>1. file'[c] = d /\ closed' = closed
    BY <1>1 DEF IInv, DataTypes
  <2> QED
    BY <2>1 DEF Astray
<1>5. /\ db' \in [Cards -> Doc] /\ closed' \subseteq Cards
      /\ watch' \subseteq Cards /\ due' \subseteq Cards /\ closed' \ {c} = closed \ {c}
  BY <1>1 DEF IInv, DataTypes
<1>6. WellHidden'
  BY <1>2, HiddenStays
<1> QED
  BY <1>1, <1>3, <1>4, <1>5, <1>6, DocWritten

\* An agent gives a card up.
LEMMA AgentBlocksKeeps ==
    ASSUME IInv, NEW c \in Cards, AgentBlocks(c)
    PROVE  IInv'
<1>1. PICK p \in Doc : /\ p = ParseIssue(file[c]) /\ p.finished = file[c].finished
                       /\ Closes(p) = Closes(file[c])
  BY FileRead
<1>2. PICK d : d = [p EXCEPT !.blocked = TRUE]
  OBVIOUS
<1>3. /\ WriteIssue(c, d) /\ alive' = alive \ {c} /\ Edited
      /\ UNCHANGED <<closed, hidden, due, skip, lock, stack>>
  BY <1>1, <1>2 DEF AgentBlocks
<1>4. /\ d \in Doc /\ d.finished = p.finished /\ d.stamps = p.stamps
      /\ d.status = p.status /\ d.dispatch = p.dispatch
  BY <1>2 DEF Doc
<1>5. Closes(d) = Closes(p)
  BY <1>4 DEF Closes, DeriveStatus
<1>6. edits' \in 0..MaxEdits /\ edits <= edits' /\ alive' \subseteq Cards
  BY <1>3, EditedNow DEF IInv, DataTypes
<1> QED
  BY <1>1, <1>3, <1>4, <1>5, <1>6, Refiled

\* The dispatch of an ended process is cleared.
LEMMA DispatchClearedKeeps ==
    ASSUME IInv, NEW c \in Cards, DispatchCleared(c)
    PROVE  IInv'
<1>1. PICK p \in Doc : /\ p = ParseIssue(file[c]) /\ p.finished = file[c].finished
                       /\ Closes(p) = Closes(file[c])
                       /\ p.status = DeriveStatus(file[c]) /\ p.stamps = file[c].stamps
  BY FileRead, ReadOnce
<1>2. PICK d : d = [p EXCEPT !.dispatch = "none"]
  OBVIOUS
<1>3. /\ WriteIssue(c, d)
      /\ UNCHANGED <<closed, hidden, alive, due, skip, lock, stack, edits>>
  BY <1>1, <1>2 DEF DispatchCleared
<1>4. /\ d \in Doc /\ d.finished = p.finished /\ d.stamps = p.stamps
      /\ d.status = p.status /\ d.dispatch = "none"
  BY <1>2 DEF Doc, Dispatches
<1>5. Closes(d) = Closes(p)
  BY <1>4 DEF Closes, DeriveStatus, Terminal
<1>6. edits' \in 0..MaxEdits /\ edits <= edits' /\ alive' \subseteq Cards
  BY <1>3, BoundsAssumption DEF IInv, DataTypes
<1> QED
  BY <1>1, <1>3, <1>4, <1>5, <1>6, Refiled

\* An agent ends with nothing said.
LEMMA AgentDiesKeeps ==
    ASSUME IInv, NEW c \in Cards, AgentDies(c)
    PROVE  IInv'
<1>1. PICK d \in Doc : d = file[c]
  BY FileRead
<1>2. /\ alive' = alive \ {c} /\ Edited /\ UNCHANGED <<file, closed, hidden>>
      /\ UNCHANGED <<db, watch, due, skip, lock, stack>>
  BY DEF AgentDies, process
<1>3. file' = [file EXCEPT ![c] = d]
  BY <1>1, <1>2 DEF IInv, DataTypes
<1>4. /\ edits' \in 0..MaxEdits /\ edits <= edits' /\ edits' \in Nat /\ edits \in Nat
  BY <1>2, EditedNow, BoundsAssumption DEF IInv, DataTypes
<1>5. d.finished <= edits'
  BY <1>1, <1>4, FileRead
<1>6. Astray(c)' => Astray(c) /\ file[c].finished <= d.finished
  BY <1>1, <1>2, FileRead DEF Astray
<1>7. /\ alive' \subseteq Cards /\ db' \in [Cards -> Doc] /\ closed' \subseteq Cards
      /\ watch' \subseteq Cards /\ due' \subseteq Cards /\ closed' \ {c} = closed \ {c}
  BY <1>2 DEF IInv, DataTypes
<1>8. WellHidden'
  BY <1>2, <1>4, HiddenStays
<1> QED
  BY <1>2, <1>3, <1>4, <1>5, <1>6, <1>7, <1>8, DocWritten

\* Nothing of the process is left, and the cache is empty.
LEMMA Idle ==
    lock = [c \in Cards |-> <<>>] /\ stack = [t \in Threads |-> <<>>]
        => StackInv /\ FramesInv
<1> SUFFICES ASSUME lock = [c \in Cards |-> <<>>], stack = [t \in Threads |-> <<>>]
             PROVE  StackInv /\ FramesInv
  OBVIOUS
<1>1. \A c \in Cards : lock[c] = <<>> /\ Len(lock[c]) = 0
  OBVIOUS
<1>2. \A t \in Threads : stack[t] = <<>> /\ \A i \in 1..Len(stack[t]) : FALSE
  OBVIOUS
<1>3. \A c \in Cards : Distinct(lock[c]) /\ Members(lock[c]) = {}
  BY <1>1 DEF Distinct, Members
<1>4. \A t \in Threads : /\ Nested(stack[t]) /\ Calls(stack[t]) = {}
                         /\ Held(stack[t]) = {}
  BY <1>2, NoFrames
<1>5. Exclusive
  BY <1>3, <1>4 DEF Exclusive
<1>6. lock \in [Cards -> Seq(Threads)] /\ stack \in [Threads -> Seq(Frames)]
  OBVIOUS
<1> QED
  BY <1>2, <1>4, <1>5, <1>6 DEF StackInv, FramesInv

\* The same of the next state.
LEMMA IdleNext ==
    (lock = [c \in Cards |-> <<>>] /\ stack = [t \in Threads |-> <<>>]
        => StackInv /\ FramesInv)'
BY Idle, PTL

\* The worker starts again.
LEMMA RestartKeeps ==
    ASSUME IInv, Restart
    PROVE  IInv'
<1>1. /\ lock' = [c \in Cards |-> <<>>] /\ stack' = [t \in Threads |-> <<>>]
      /\ skip' = [c \in Cards |-> NotSeen] /\ watch' = {} /\ due' = {}
      /\ db' = [c \in Cards |-> IF hidden'[c] = NoDoc THEN file'[c] ELSE hidden'[c]]
      /\ UNCHANGED alive /\ Edited
  BY DEF Restart
<1>2. StackInv' /\ FramesInv'
  BY <1>1, IdleNext
<1>3. edits' \in 0..MaxEdits /\ edits <= edits' /\ edits \in Nat /\ edits' \in Nat
  BY <1>1, EditedNow, BoundsAssumption DEF IInv, DataTypes
<1>4. /\ file' \in [Cards -> Doc] /\ closed' \subseteq Cards /\ WellHidden'
      /\ \A e \in Cards : file'[e].finished <= edits'
  <2>1. \A e \in Cards : file[e].finished <= edits'
    BY <1>3, FileLater
  <2>2. CASE UNCHANGED <<file, closed, hidden>>
    <3>1. WellHidden'
      BY <1>3, <2>2, HiddenStays
    <3> QED
      BY <2>1, <2>2, <3>1 DEF IInv, DataTypes
  <2>3. ASSUME NEW t \in Threads, Interrupted(t)
        PROVE  /\ file' \in [Cards -> Doc] /\ closed' \subseteq Cards /\ WellHidden'
               /\ \A e \in Cards : file'[e].finished <= edits'
    <3>1. PICK c, d : c = Top(t).card /\ d = Top(t).doc
      OBVIOUS
    <3>2. /\ stack[t] # <<>> /\ Top(t).at = "write"
          /\ file' = [file EXCEPT ![c] = d] /\ closed' = closed \ {c} /\ Hides(c)
      BY <2>3, <3>1 DEF Interrupted, At
    <3>3. c \in Cards /\ FrameOK(Top(t))
      BY <3>1, <3>2, TopFrame DEF IInv
    <3>4. d \in Doc /\ d.finished <= edits
      BY <3>1, <3>2, <3>3 DEF FrameOK
    <3>5. d.finished <= edits'
      <4>1. d.finished \in Nat
        BY <3>4 DEF Doc
      <4> QED
        BY <1>3, <3>4, <4>1
    <3>6. WellHidden'
      BY <1>3, <3>2, <3>3, HiddenHides
    <3>7. file \in [Cards -> Doc] /\ closed \subseteq Cards
      BY DEF IInv, DataTypes
    <3>8. \A e \in Cards : file'[e] = IF e = c THEN d ELSE file[e]
      BY <3>2, <3>7
    <3> QED
      BY <2>1, <3>2, <3>4, <3>5, <3>6, <3>7, <3>8
  <2> QED
    BY <2>2, <2>3 DEF Restart
<1>5. DataTypes'
  <2>1. db' \in [Cards -> Doc]
    <3>1. \A c \in Cards : (IF hidden'[c] = NoDoc THEN file'[c] ELSE hidden'[c]) \in Doc
      BY <1>4 DEF WellHidden
    <3> QED
      BY <1>1, <3>1
  <2>2. skip' \in [Cards -> Entries]
    BY <1>1, NoDocFacts
  <2> QED
    BY <1>1, <1>3, <1>4, <2>1, <2>2 DEF IInv, DataTypes, WellHidden
<1>6. EntriesInv'
  <2>1. SUFFICES ASSUME NEW c \in Cards
                 PROVE  EntryOK(c)'
    BY DEF EntriesInv
  <2>2. skip'[c].doc = NoDoc /\ NoDoc.finished = 0
    BY <1>1, NoDocFacts
  <2> QED
    BY <1>3, <2>2 DEF EntryOK
<1> QED
  BY <1>2, <1>5, <1>6 DEF IInv

\* The invariant holds at the start.
LEMMA InitKeeps == Init => IInv
<1> SUFFICES ASSUME Init
             PROVE  IInv
  OBVIOUS
<1>1. /\ file \in [Cards -> Doc] /\ \A c \in Cards : file[c].finished = 0
  BY BoundsAssumption DEF Init
<1>2. StackInv /\ FramesInv
  BY Idle DEF Init
<1>3. DataTypes
  <2>1. edits = 0 /\ 0 \in 0..MaxEdits /\ 0 <= 0
    BY BoundsAssumption DEF Init
  <2>2. \A c \in Cards : file[c].finished <= edits
    BY <1>1, <2>1
  <2>3. /\ hidden \in [Cards -> Doc \cup {NoDoc}]
        /\ \A c \in Cards : hidden[c].finished <= edits
    BY <2>1, NoDocFacts DEF Init
  <2> QED
    BY <1>1, <2>1, <2>2, <2>3, NoDocFacts DEF Init, DataTypes
<1>4. EntriesInv
  <2>1. SUFFICES ASSUME NEW c \in Cards
                 PROVE  EntryOK(c)
    BY DEF EntriesInv
  <2>2. skip[c].doc = NoDoc /\ NoDoc.finished = 0
    BY NoDocFacts DEF Init
  <2>3. ~Astray(c)
    <3>1. Closes(file[c]) \in BOOLEAN
      BY DEF Closes
    <3>2. Closes(file[c]) = (c \in closed)
      BY <3>1 DEF Init
    <3> QED
      BY <3>2 DEF Astray
  <2>4. edits = 0 /\ 0 <= 0
    BY DEF Init
  <2> QED
    BY <2>2, <2>3, <2>4 DEF EntryOK
<1> QED
  BY <1>2, <1>3, <1>4 DEF IInv

\* Every step keeps the invariant.
LEMMA NextKeeps ==
    ASSUME IInv, [Next]_vars
    PROVE  IInv'
<1>1. ASSUME NEW t \in Threads, Step(t)
      PROVE  IInv'
  BY <1>1, MirroredKeeps, LoadKeeps, ReadChildrenKeeps, WriteKeeps, RecurseKeeps,
     SpreadDoneKeeps DEF Step
<1>2. ASSUME NEW c \in Cards, Edit(c)
      PROVE  IInv'
  BY <1>2, OperatorMovesKeeps, PickedUpKeeps, AgentBlocksKeeps, AgentDiesKeeps,
     DispatchClearedKeeps, AgentFinishesKeeps DEF Edit
<1>3. CASE UNCHANGED vars
  <2>1. UNCHANGED <<file, closed, edits>> /\ UNCHANGED <<hidden, alive, db, watch, due, skip>>
        /\ UNCHANGED <<lock, stack>>
    BY <1>3 DEF vars, disk, process
  <2>2. EntriesInv'
    BY <2>1, EntriesKept DEF IInv
  <2>3. DataTypes'
    BY <2>1 DEF IInv, DataTypes
  <2>4. StackInv'
    BY <2>1 DEF IInv, StackInv, Exclusive
  <2>5. FramesInv'
    <3>1. \A u \in Threads : \A i \in 1..Len(stack[u]) : stack[u][i] \in Frames
      BY DEF IInv, StackInv
    <3> QED
      BY <2>1, <3>1, FilesKept DEF IInv, FramesInv
  <2> QED
    BY <2>2, <2>3, <2>4, <2>5 DEF IInv
<1> QED
  BY <1>1, <1>2, <1>3, FileEventKeeps, ParentCalledKeeps, AuditVisitsKeeps, RestartKeeps
     DEF Next

\* The inductive invariant holds in every reachable state.
THEOREM Invariance == Spec => []IInv
<1>1. IInv /\ [Next]_vars => IInv'
  BY NextKeeps
<1> QED
  BY <1>1, InitKeeps, PTL DEF Spec

\* The variables have their types, and no thread waits at a mutex twice.
THEOREM TypeCorrect == Spec => []TypeOK
<1>1. IInv => TypeOK
  <2> SUFFICES ASSUME IInv
               PROVE  TypeOK
    OBVIOUS
  <2>1. IsFiniteSet(Threads)
    <3>1. IsFiniteSet({"audit"})
      BY FS_Singleton
    <3> QED
      BY <3>1, BoundsAssumption, FS_Union DEF Threads
  <2>2. \A c \in Cards : /\ skip[c].doc \in Doc \cup {NoDoc}
                         /\ lock[c] \in Seq(Threads)
                         /\ Len(lock[c]) <= Cardinality(Threads)
    <3> SUFFICES ASSUME NEW c \in Cards
                 PROVE  /\ skip[c].doc \in Doc \cup {NoDoc}
                        /\ lock[c] \in Seq(Threads)
                        /\ Len(lock[c]) <= Cardinality(Threads)
      OBVIOUS
    <3>1. lock[c] \in Seq(Threads) /\ Distinct(lock[c])
      BY DEF IInv, StackInv, Exclusive
    <3>2. Len(lock[c]) <= Cardinality(Threads)
      BY <2>1, <3>1, QueueBounded
    <3>3. skip[c].doc \in Doc \cup {NoDoc}
      BY DEF IInv, DataTypes, Entries
    <3> QED
      BY <3>1, <3>2, <3>3
  <2>3. \A t \in Threads : \A i \in 1..Len(stack[t]) : stack[t][i] \in Frames
    BY DEF IInv, StackInv
  <2> QED
    BY <2>2, <2>3 DEF IInv, DataTypes, TypeOK, Frames, Steps
<1> QED
  BY <1>1, Invariance, PTL

\* When the skip-cache lets a reconcile return early there was nothing to do:
\* the card is its own projection, and its file in the right bucket (step 2b).
THEOREM SkipSoundSafe == Spec => []SkipSound
<1>1. IInv => SkipSound
  <2> SUFFICES ASSUME IInv
               PROVE  SkipSound
    OBVIOUS
  <2> SUFFICES ASSUME NEW c \in Cards, NEW S, S = StatusesOf(Children(c)),
                      skip[c] = [doc |-> file[c], kids |-> Children(c)],
                      ~Pinned(c, DeriveParentStatus(S))
               PROVE  /\ Projected(file[c], c \in Epics, Waits(c), S, TRUE)
                           = ParseIssue(file[c])
                      /\ Closes(file[c]) = (c \in closed)
    BY DEF SkipSound
  <2>1. skip[c].doc = file[c] /\ skip[c].kids = Children(c) /\ file[c] # NoDoc
    BY NoDocFacts DEF IInv, DataTypes
  <2>2. Settled(c, file[c], Children(c))
    BY <2>1 DEF IInv, EntriesInv, EntryOK
  <2>3. ~PinnedBy(c, file[c], DeriveParentStatus(S))
    BY DEF Pinned, PinnedBy
  <2>4. LeftAlone(file[c], c \in Epics, Waits(c), S)
    BY <2>2, <2>3 DEF Settled
  <2>5. ~Astray(c)
    <3>1. Astray(c) => file[c].finished < file[c].finished
      BY <2>1, NoDocFacts DEF IInv, EntriesInv, EntryOK
    <3> QED
      BY <3>1, FileRead
  <2> QED
    BY <2>4, <2>5 DEF LeftAlone, Astray
<1> QED
  BY <1>1, Invariance, PTL

-----------------------------------------------------------------------------
(* Chains of calls that wait for each other. *)

\* Where a call may go on to: the parent, and the cards that wait.
Near(c) == Parents(c) \cup Dependents[c]

\* Every call of a chain is of a card near the one that called it, and so is
\* what is left to call.
Linked(s) ==
    \A j \in 1..Len(s) : /\ s[j].rest \subseteq Near(s[j].card)
                         /\ j < Len(s) => s[j + 1].card \in Near(s[j].card)

\* Every chain of calls is so.
AllLinked == \A t \in Threads : Linked(stack[t])

\* The innermost call is over.
LEMMA LinkPopped ==
    ASSUME NEW s \in Seq(Frames), Linked(s), Nested(s),
           s # <<>>, s[Len(s)].at # "mirror"
    PROVE  Linked(SubSeq(s, 1, Len(s) - 1))
<1>1. PICK r : r = SubSeq(s, 1, Len(s) - 1)
  OBVIOUS
<1>2. r \in Seq(Frames) /\ \A i \in 1..Len(r) : i \in 1..Len(s) /\ r[i] = s[i]
  BY <1>1, Popped
<1>3. ASSUME NEW j \in 1..Len(r), j < Len(r)
      PROVE  j + 1 \in 1..Len(r) /\ j + 1 \in 1..Len(s) /\ j < Len(s)
  <2>1. Len(r) \in Nat /\ Len(s) \in Nat
    BY <1>2
  <2>2. j + 1 \in 1..Len(r)
    BY <1>3, <2>1
  <2> QED
    BY <1>2, <2>1, <2>2
<1>4. Linked(r)
  BY <1>2, <1>3 DEF Linked
<1> QED
  BY <1>1, <1>4

\* The innermost call goes on.
LEMMA LinkReplaced ==
    ASSUME NEW s \in Seq(Frames), Linked(s),
           s # <<>>, NEW g, g.card = s[Len(s)].card,
           g.rest \subseteq Near(g.card),
           NEW r, Len(r) = Len(s),
           \A i \in 1..Len(s) : r[i] = IF i = Len(s) THEN g ELSE s[i]
    PROVE  Linked(r)
<1>1. \A i \in 1..Len(s) : r[i].card = s[i].card
  OBVIOUS
<1>2. \A i \in 1..Len(s) : r[i].rest \subseteq Near(r[i].card)
  BY DEF Linked
<1>3. \A i \in 1..Len(s) : i < Len(s) => i + 1 \in 1..Len(s)
  OBVIOUS
<1> QED
  BY <1>1, <1>2, <1>3 DEF Linked

\* A call is made near its caller.
LEMMA LinkPushed ==
    ASSUME NEW s \in Seq(Frames), Linked(s),
           NEW f \in Frames, f.rest = {},
           s # <<>> => f.card \in Near(s[Len(s)].card)
    PROVE  Linked(Append(s, f))
<1>1. PICK r : r = Append(s, f)
  OBVIOUS
<1>2. /\ Len(r) = Len(s) + 1 /\ Len(s) \in Nat /\ r[Len(s) + 1] = f
      /\ \A i \in 1..Len(s) : r[i] = s[i]
      /\ \A i \in 1..Len(r) : i \in 1..Len(s) \/ i = Len(s) + 1
  <2>1. /\ Len(r) = Len(s) + 1 /\ Len(s) \in Nat /\ r[Len(s) + 1] = f
        /\ \A i \in 1..Len(s) : r[i] = s[i]
    BY <1>1
  <2> QED
    BY <2>1
<1>3. Linked(r)
  <2>1. ASSUME NEW j \in 1..Len(r)
        PROVE  /\ r[j].rest \subseteq Near(r[j].card)
               /\ j < Len(r) => r[j + 1].card \in Near(r[j].card)
    <3>1. CASE j = Len(s) + 1
      BY <1>2, <3>1
    <3>2. CASE j = Len(s) /\ j \in 1..Len(s)
      <4>1. r[j] = s[j] /\ r[j + 1] = f /\ s # <<>>
        BY <1>2, <3>2
      <4> QED
        BY <3>2, <4>1 DEF Linked
    <3>3. CASE j \in 1..Len(s) /\ j < Len(s)
      <4>1. j + 1 \in 1..Len(s)
        BY <1>2, <3>3
      <4> QED
        BY <1>2, <3>3, <4>1 DEF Linked
    <3> QED
      BY <1>2, <3>1, <3>2, <3>3
  <2> QED
    BY <2>1 DEF Linked
<1> QED
  BY <1>1, <1>3

\* Only one thread's calls change.
LEMMA LinkStep ==
    ASSUME AllLinked, DOMAIN stack = Threads,
           NEW t \in Threads, NEW r, Linked(r), stack' = [stack EXCEPT ![t] = r]
    PROVE  AllLinked'
<1>1. \A u \in Threads : stack'[u] = IF u = t THEN r ELSE stack[u]
  OBVIOUS
<1>2. \A u \in Threads : Linked(stack'[u])
  BY <1>1 DEF AllLinked
<1> QED
  BY <1>2 DEF AllLinked, Linked

\* What the innermost call of a thread may do without breaking the chain.
LEMMA LinkReturned ==
    ASSUME AllLinked, IInv, NEW t \in Threads,
           stack[t] # <<>>, Top(t).at # "mirror", Return(t)
    PROVE  AllLinked'
<1>1. PICK r : r = SubSeq(stack[t], 1, Len(stack[t]) - 1)
  OBVIOUS
<1>2. stack[t] \in Seq(Frames) /\ Nested(stack[t]) /\ Linked(stack[t])
  BY DEF IInv, StackInv, AllLinked
<1>3. Linked(r)
  BY <1>1, <1>2, LinkPopped DEF Top
<1>4. stack' = [stack EXCEPT ![t] = r] /\ DOMAIN stack = Threads
  BY <1>1 DEF Return, IInv, StackInv
<1> QED
  BY <1>3, <1>4, LinkStep

\* The innermost call goes on, with nothing to call from afar.
LEMMA LinkGoesOn ==
    ASSUME AllLinked, IInv, NEW t \in Threads,
           stack[t] # <<>>, NEW g, g.card = Top(t).card,
           g.rest \subseteq Top(t).rest \cup Near(g.card)
    PROVE  /\ Linked(WithTop(t, g)[t])
           /\ stack' = WithTop(t, g) => AllLinked'
<1>1. PICK s : s = stack[t]
  OBVIOUS
<1>2. /\ s \in Seq(Frames) /\ Linked(s) /\ s # <<>> /\ Len(s) \in 1..Len(s)
      /\ Top(t) = s[Len(s)]
  BY <1>1 DEF IInv, StackInv, AllLinked, Top
<1>3. PICK r : r = [s EXCEPT ![Len(s)] = g]
  OBVIOUS
<1>4. WithTop(t, g) = [stack EXCEPT ![t] = r] /\ WithTop(t, g)[t] = r
  BY <1>1, <1>3 DEF WithTop, IInv, StackInv
<1>5. /\ Len(r) = Len(s)
      /\ \A i \in 1..Len(s) : r[i] = IF i = Len(s) THEN g ELSE s[i]
  BY <1>2, <1>3
<1>6. g.rest \subseteq Near(g.card)
  BY <1>2 DEF Linked
<1>7. Linked(r)
  BY <1>2, <1>5, <1>6, LinkReplaced
<1>8. ASSUME stack' = WithTop(t, g)
      PROVE  AllLinked'
  BY <1>4, <1>7, <1>8, LinkStep DEF IInv, StackInv
<1> QED
  BY <1>4, <1>5, <1>7, <1>8

\* A call from nothing, or from a frame that is near.
LEMMA LinkCalled ==
    ASSUME AllLinked, IInv, NEW t \in Threads,
           NEW c \in Cards, NEW seen \in SUBSET Cards, NEW s \in Seq(Frames),
           Linked(s), s # <<>> => c \in Near(s[Len(s)].card),
           Call(t, c, s, seen)
    PROVE  AllLinked'
<1>1. PICK f : f = Frame(c, "mutex", seen)
  OBVIOUS
<1>2. f \in Frames /\ f.card = c /\ f.rest = {}
  BY <1>1, NewFrame DEF Steps
<1>3. PICK r : r = Append(s, f)
  OBVIOUS
<1>4. Linked(r)
  BY <1>2, <1>3, LinkPushed
<1>5. stack' = [stack EXCEPT ![t] = r] /\ DOMAIN stack = Threads
  BY <1>1, <1>3 DEF Call, IInv, StackInv
<1> QED
  BY <1>4, <1>5, LinkStep

\* A reconcile decides, and calls nobody yet.
LEMMA LinkDecided ==
    ASSUME AllLinked, IInv, NEW t \in Threads,
           stack[t] # <<>>, Top(t).at # "mirror", NEW f \in Frames,
           f.card = Top(t).card, f.rest = Top(t).rest, Decide(t, f)
    PROVE  AllLinked'
<1>1. CASE Return(t)
  BY <1>1, LinkReturned
<1>2. CASE ~Return(t)
  <2>1. PICK next, hash :
          stack' = WithTop(t, [f EXCEPT !.at = "write", !.doc = next, !.hash = hash])
    BY <1>2 DEF Decide
  <2>2. PICK g : g = [f EXCEPT !.at = "write", !.doc = next, !.hash = hash]
    OBVIOUS
  <2>3. g.card = f.card /\ g.rest = f.rest
    BY <2>2 DEF Frames
  <2> QED
    BY <2>1, <2>2, <2>3, LinkGoesOn
<1> QED
  BY <1>1, <1>2

\* Whatever a thread does next, its calls stay linked.
LEMMA LinkThread ==
    ASSUME AllLinked, IInv, NEW t \in Threads, Step(t)
    PROVE  AllLinked'
<1>1. ASSUME stack[t] # <<>>
      PROVE  /\ Top(t) \in Frames /\ Top(t).card \in Cards /\ stack[t] \in Seq(Frames)
             /\ Len(stack[t]) \in 1..Len(stack[t])
             /\ Top(t).rest \subseteq Cards \cap Near(Top(t).card)
  <2>1. /\ Top(t) \in Frames /\ Top(t).card \in Cards /\ stack[t] \in Seq(Frames)
        /\ Len(stack[t]) \in 1..Len(stack[t])
    BY <1>1, TopFrame DEF IInv
  <2>2. Linked(stack[t])
    BY DEF AllLinked
  <2> QED
    BY <2>1, <2>2 DEF Linked, Top, Frames
<1>2. CASE Mirrored(t)
  <2>1. /\ stack[t] # <<>> /\ Call(t, Top(t).card, <<>>, {})
    BY <1>2 DEF Mirrored, At
  <2>2. Linked(<<>>)
    BY NoFrames DEF Linked
  <2>3. PICK c \in Cards : c = Top(t).card
    BY <1>1, <2>1
  <2> QED
    BY <2>1, <2>2, <2>3, NoFrames, LinkCalled
<1>3. CASE Load(t)
  <2>1. stack[t] # <<>> /\ Top(t).at = "mutex"
    BY <1>3 DEF Load, At
  <2>2. PICK f : /\ f = [Top(t) EXCEPT !.doc = file[Top(t).card],
                                       !.shut = Top(t).card \in closed]
                 /\ IF Kids[f.card] = {} THEN Decide(t, f)
                    ELSE /\ stack' = WithTop(t, [f EXCEPT !.at = "children"])
                         /\ UNCHANGED <<db, skip, lock>>
    BY <1>3 DEF Load
  <2>3. f \in Frames /\ f.card = Top(t).card /\ f.rest = Top(t).rest
    <3>1. file[Top(t).card] \in Doc /\ (Top(t).card \in closed) \in BOOLEAN
      BY <1>1, <2>1 DEF IInv, DataTypes
    <3>2. f \in Frames
      BY <1>1, <2>1, <2>2, <3>1 DEF Frames
    <3> QED
      BY <1>1, <2>1, <2>2, <3>2 DEF Frames
  <2>4. CASE Decide(t, f)
    BY <2>1, <2>3, <2>4, LinkDecided
  <2>5. CASE ~Decide(t, f)
    <3>1. PICK g : g = [f EXCEPT !.at = "children"] /\ stack' = WithTop(t, g)
      BY <2>2, <2>5
    <3>2. g.card = f.card /\ g.rest = f.rest
      BY <2>3, <3>1 DEF Frames
    <3> QED
      BY <2>1, <2>3, <3>1, <3>2, LinkGoesOn
  <2> QED
    BY <2>4, <2>5
<1>4. CASE ReadChildren(t)
  <2>1. stack[t] # <<>> /\ Top(t).at = "children"
    BY <1>4 DEF ReadChildren, At
  <2>2. PICK f : f = [Top(t) EXCEPT !.kids = Children(Top(t).card)] /\ Decide(t, f)
    BY <1>4 DEF ReadChildren
  <2>3. f \in Frames /\ f.card = Top(t).card /\ f.rest = Top(t).rest
    <3>1. Children(Top(t).card) \in KidDocs
      BY <1>1, <2>1, ChildrenTyped DEF IInv
    <3>2. f \in Frames
      BY <1>1, <2>1, <2>2, <3>1 DEF Frames
    <3> QED
      BY <1>1, <2>1, <2>2, <3>2 DEF Frames
  <2> QED
    BY <2>1, <2>2, <2>3, LinkDecided
<1>5. CASE Write(t)
  <2>1. stack[t] # <<>> /\ Top(t).at = "write"
    BY <1>5 DEF Write, At
  <2>2. CASE Return(t)
    BY <2>1, <2>2, LinkReturned
  <2>3. CASE ~Return(t)
    <3>1. PICK g : /\ g = [Top(t) EXCEPT !.at = "spread", !.rest = Spread(t),
                                         !.doc = NoDoc, !.seen = @ \cup {Top(t).card}]
                   /\ stack' = WithTop(t, g)
      BY <1>5, <2>3 DEF Write, Finish
    <3>2. g.card = Top(t).card /\ g.rest = Spread(t)
      BY <1>1, <2>1, <3>1 DEF Frames
    <3>3. Spread(t) \subseteq Near(Top(t).card)
      BY DEF Spread, Near
    <3> QED
      BY <2>1, <3>1, <3>2, <3>3, LinkGoesOn
  <2> QED
    BY <2>2, <2>3
<1>6. CASE Recurse(t)
  <2>1. stack[t] # <<>> /\ Top(t).at = "spread"
    BY <1>6 DEF Recurse, At
  <2>2. PICK r, g :
           /\ r \in Top(t).rest
           /\ g = [Top(t) EXCEPT !.rest = @ \ {r},
                                 !.seen = @ \cup Parents(Top(t).card) \cup {r}]
           /\ Call(t, r, WithTop(t, g)[t], Top(t).seen)
    BY <1>6 DEF Recurse
  <2>3. /\ g \in Frames /\ g.card = Top(t).card /\ g.rest \subseteq Top(t).rest
        /\ Top(t).seen \in SUBSET Cards
    <3>1. Parents(Top(t).card) \subseteq Cards /\ r \in Cards
      BY <1>1, <2>1, <2>2 DEF Parents
    <3> QED
      BY <1>1, <2>1, <2>2, <3>1 DEF Frames
  <2>4. PICK s : s = WithTop(t, g)[t]
    OBVIOUS
  <2>5. Linked(s)
    BY <2>1, <2>3, <2>4, LinkGoesOn
  <2>6. s \in Seq(Frames) /\ s[Len(s)] = g
    <3>1. s = [stack[t] EXCEPT ![Len(stack[t])] = g]
      BY <2>4 DEF WithTop, IInv, StackInv
    <3> QED
      BY <1>1, <2>1, <2>3, <3>1
  <2>7. r \in Near(s[Len(s)].card) /\ r \in Cards
    BY <1>1, <2>1, <2>2, <2>3, <2>6
  <2>8. PICK seen \in SUBSET Cards : seen = Top(t).seen
    BY <2>3
  <2> QED
    BY <2>2, <2>4, <2>5, <2>6, <2>7, <2>8, LinkCalled
<1>7. CASE SpreadDone(t)
  BY <1>7, LinkReturned DEF SpreadDone, At, Finish
<1> QED
  BY <1>2, <1>3, <1>4, <1>5, <1>6, <1>7 DEF Step

\* A handler, or the sweep, starts with a card.
LEMMA LinkStarted ==
    ASSUME AllLinked, IInv, NEW t \in Threads,
           NEW c \in Cards, NEW d, MirrorOne(t, c, d) \/ Call(t, c, <<>>, {})
    PROVE  AllLinked'
<1>1. Linked(<<>>) /\ <<>> \in Seq(Frames)
  BY NoFrames DEF Linked
<1>2. CASE Call(t, c, <<>>, {})
  BY <1>1, <1>2, LinkCalled
<1>3. CASE stack' = [stack EXCEPT ![t] = <<[Frame(c, "mirror", {}) EXCEPT !.doc = d]>>]
  <2>1. PICK f : f = [Frame(c, "mirror", {}) EXCEPT !.doc = d]
    OBVIOUS
  <2>2. f.rest = {}
    BY <2>1 DEF Frame
  <2>3. Linked(<<f>>)
    BY <2>2 DEF Linked
  <2> QED
    BY <1>3, <2>1, <2>3, LinkStep DEF IInv, StackInv
<1> QED
  BY <1>2, <1>3 DEF MirrorOne

\* Every step keeps the chains linked.
LEMMA LinkNext ==
    ASSUME AllLinked, IInv, [Next]_vars
    PROVE  AllLinked'
<1>1. ASSUME UNCHANGED stack
      PROVE  AllLinked'
  BY <1>1 DEF AllLinked, Linked
<1>2. CASE \E t \in Threads : Step(t)
  BY <1>2, LinkThread
<1>3. ASSUME NEW t \in Handlers, NEW c \in Cards, FileEvent(t, c) \/ ParentCalled(t, c)
      PROVE  AllLinked'
  BY <1>3, LinkStarted DEF FileEvent, ParentCalled, Threads
<1>4. ASSUME NEW c \in Cards, AuditVisits(c)
      PROVE  AllLinked'
  BY <1>4, LinkStarted DEF AuditVisits, Threads
<1>5. ASSUME NEW c \in Cards, Edit(c)
      PROVE  UNCHANGED stack
  BY <1>5 DEF Edit, OperatorMoves, PickedUp, AgentBlocks, AgentDies, DispatchCleared,
              AgentFinishes, process
<1>6. CASE Restart
  <2>1. \A t \in Threads : stack'[t] = <<>>
    BY <1>6 DEF Restart
  <2> QED
    BY <2>1, NoFrames DEF AllLinked, Linked
<1> QED
  BY <1>1, <1>2, <1>3, <1>4, <1>5, <1>6 DEF Next, vars, process

\* A card is reconciled by one chain of calls at a time.
Serialized ==
    \A t, u \in Threads, c \in Cards : InHand(t, c) /\ InHand(u, c) => t = u

\* At every moment one chain of calls at most has a card (reconcileIssue: "the
\* mutex guarantees per-(repo, id) serialization").
THEOREM SerializedSafe == Spec => []Serialized
<1>1. IInv => Serialized
  <2> SUFFICES ASSUME IInv, NEW t \in Threads, NEW u \in Threads, NEW c \in Cards,
                      InHand(t, c), InHand(u, c)
               PROVE  t = u
    BY DEF Serialized
  <2>1. c \in Held(stack[t]) /\ c \in Held(stack[u])
    BY DEF InHand, Held
  <2> QED
    BY <2>1 DEF IInv, StackInv, Exclusive
<1> QED
  BY <1>1, Invariance, PTL

\* Calls wait in a circle only where the cards do, however many calls there
\* are, however deep, and whatever the graph of the cards is: on a graph with
\* no circle of parents and waiting cards, there is no deadlock (steps 9, 10).
THEOREM WaitsFollowCardsSafe == Spec => []WaitsFollowCards
<1>1. Init => AllLinked
  <2> SUFFICES ASSUME Init, NEW t \in Threads
               PROVE  Linked(stack[t])
    BY DEF AllLinked
  <2>1. stack[t] = <<>>
    BY DEF Init
  <2> QED
    BY <2>1, NoFrames DEF Linked
<1>2. IInv /\ AllLinked /\ [Next]_vars => AllLinked'
  BY LinkNext
<1>3. IInv /\ AllLinked => WaitsFollowCards
  <2> SUFFICES ASSUME IInv, AllLinked, NEW T \in SUBSET Threads, T # {},
                      \A t \in T : \E u \in T : WaitsFor(t, u)
               PROVE  \E C \in (SUBSET Cards) \ {{}} :
                         \A c \in C : C \cap (Parents(c) \cup Dependents[c]) # {}
    BY DEF WaitsFollowCards
  <2>1. ASSUME NEW t \in T
        PROVE  /\ Top(t).at = "mutex" /\ Top(t) = stack[t][Len(stack[t])]
               /\ stack[t] \in Seq(Frames) /\ Len(stack[t]) \in 1..Len(stack[t])
               /\ \A i \in 1..Len(stack[t]) : stack[t][i].card \in Cards
    <3>1. stack[t] # <<>> /\ Top(t).at = "mutex"
      BY DEF WaitsFor, At
    <3>2. stack[t] \in Seq(Frames) /\ Len(stack[t]) \in 1..Len(stack[t])
      BY <3>1, TopFrame DEF IInv
    <3>3. \A i \in 1..Len(stack[t]) : stack[t][i] \in Frames
      BY <3>2
    <3> QED
      BY <3>1, <3>2, <3>3 DEF Frames, Top
  \* All the cards of the chains, each with the next one of a chain.
  <2>2. PICK C : C = UNION {{stack[t][i].card : i \in 1..Len(stack[t])} : t \in T}
    OBVIOUS
  <2>3. \A t \in T : \A i \in 1..Len(stack[t]) : stack[t][i].card \in C
    BY <2>2
  <2>4. C \in (SUBSET Cards) \ {{}}
    <3>1. C \subseteq Cards
      BY <2>1, <2>2
    <3>2. C # {}
      BY <2>1, <2>3
    <3> QED
      BY <3>1, <3>2
  <2>5. ASSUME NEW t \in T, NEW i \in 1..Len(stack[t]), i < Len(stack[t])
        PROVE  C \cap Near(stack[t][i].card) # {}
    <3>1. i + 1 \in 1..Len(stack[t])
      BY <2>1, <2>5
    <3>2. stack[t][i + 1].card \in Near(stack[t][i].card)
      BY <2>5 DEF AllLinked, Linked
    <3> QED
      BY <2>3, <3>1, <3>2
  <2>6. ASSUME NEW t \in T
        PROVE  C \cap Near(Top(t).card) # {}
    <3>1. PICK u \in T : WaitsFor(t, u)
      OBVIOUS
    <3>2. PICK i \in 1..Len(stack[u]) :
             stack[u][i].card = Top(t).card /\ Holds(stack[u][i])
      BY <3>1 DEF WaitsFor, InHand
    <3>3. i # Len(stack[u])
      BY <2>1, <3>2 DEF Holds
    <3>4. i < Len(stack[u])
      BY <2>1, <3>3
    <3> QED
      BY <2>5, <3>2, <3>4
  <2>7. ASSUME NEW c \in C
        PROVE  C \cap (Parents(c) \cup Dependents[c]) # {}
    <3>0. PICK t \in T : c \in {stack[t][i].card : i \in 1..Len(stack[t])}
      BY <2>2
    <3>1. PICK i \in 1..Len(stack[t]) : c = stack[t][i].card
      BY <3>0
    <3>2. i < Len(stack[t]) \/ i = Len(stack[t])
      BY <2>1
    <3>3. C \cap Near(c) # {}
      BY <2>1, <2>5, <2>6, <3>1, <3>2
    <3> QED
      BY <3>3 DEF Near
  <2> QED
    BY <2>4, <2>7
<1> QED
  BY <1>1, <1>2, <1>3, Invariance, PTL DEF Spec
=============================================================================
